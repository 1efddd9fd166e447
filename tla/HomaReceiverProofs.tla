-------------------------- MODULE HomaReceiverProofs --------------------------
(***************************************************************************)
(* What is true of one receiver, for any number of senders and messages of  *)
(* any size, from what HomaSchedulerProofs says of the handlers: that its   *)
(* invariants hold at the start and are kept by every event, and what they  *)
(* mean for the properties.  With the bandwidth check or without it, the    *)
(* number of senders that are kept granted.                                 *)
(***************************************************************************)
EXTENDS HomaReceiver, HomaSchedulerProofs

-----------------------------------------------------------------------------
(* The receiver and the network.                                            *)

TInv == rx \in Filers /\ rx.grants = {} /\ toArrive \in SUBSET Pkt

LEMMA InitTInv ==
  ASSUME Init
  PROVE  TInv
<1>1. InitReceiver \in Filers /\ InitReceiver.grants = {}
  BY InitFiles
<1>2. \A m \in Msg : ReqUnschedDataPkts(m) \in SUBSET Pkt
  BY UnschedPktsType
<1> QED BY <1>1, <1>2 DEF Init, TInv

LEMMA NextTInv ==
  ASSUME TInv, [Next]_vars
  PROVE  TInv'
<1>1. rx \in Filers /\ toArrive \in SUBSET Pkt
  BY DEF TInv
<1>2. ASSUME NEW p \in toArrive, PktArrives(p)
      PROVE  TInv'
  <2> DEFINE r == ProcessReceivedPkt(rx, p)
  <2>1. r \in Filers
    BY <1>1, ArrivalFiles
  <2>2. /\ rx' = [r EXCEPT !.grants = {}]
        /\ toArrive' = (toArrive \ {p}) \cup {SchedPktFor(g) : g \in r.grants}
    BY <1>2 DEF PktArrives
  <2> HIDE DEF r
  <2> QED BY <1>1, <2>1, <2>2, LeaveFiles DEF TInv
<1>3. ASSUME NEW r \in Filers, Leave(r)
      PROVE  TInv'
  BY <1>1, <1>3, LeaveFiles DEF Leave, TInv
<1>4. ASSUME NEW s \in Host, GrantTimer(s)
      PROVE  TInv'
  <2>1. ProcessGrantTimer(rx, s) \in Filers
    BY <1>1, FilersClosed, ProcessGrantTimerIn
  <2> QED BY <1>3, <1>4, <2>1 DEF GrantTimer
<1>5. CASE BwUtilTimer
  <2>1. HandleBwUtilTimer(rx) \in Filers
    BY <1>1, FilersClosed, HandleBwUtilTimerIn
  <2> QED BY <1>3, <1>5, <2>1 DEF BwUtilTimer
<1>6. CASE UNCHANGED vars
  BY <1>6 DEF vars, TInv
<1> QED BY <1>2, <1>4, <1>5, <1>6 DEF Next

LEMMA AlwaysTInv == Spec => []TInv
<1>1. Init => TInv
  BY InitTInv
<1>2. TInv /\ [Next]_vars => TInv'
  BY NextTInv
<1> QED BY <1>1, <1>2, PTL DEF Spec

\* Type correctness: whatever the receiver is sent and whichever timers fire, its
\* counters stay naturals, its windows within their words, its lists lists of
\* senders and messages, and it is never ready to grant fewer senders than
\* numSendersToKeepGranted.
THEOREM TypeCorrect == Spec => []TypeOK
<1>1. TInv => TypeOK
  BY DEF TInv, Filers, Receivers, Inbounds, Inbound, Files, Timers, Prios, Indices, Lists,
         Widths, Deliveries, TypeOK
<1> QED BY <1>1, AlwaysTInv, PTL

LEMMA WireSum ==
  ASSUME NEW S \in SUBSET Pkt, IsFiniteSet(S)
  PROVE  SumOf(S) = Total(WireOf, S)
<1> DEFINE f == WireOf
           Rec(g) == g = [s \in SUBSET S |-> IF s = {} THEN 0
                            ELSE PktOnWire(CHOOSE x \in s : TRUE)
                                    + g[s \ {CHOOSE x \in s : TRUE}]]
<1>1. \A s \in SUBSET S : s # {} =>
        f[CHOOSE x \in s : TRUE] = PktOnWire(CHOOSE x \in s : TRUE)
  BY SizesType
<1>2. \A g : AddsUp(g, f, S) <=> Rec(g)
  <2> HIDE DEF f
  <2> QED BY <1>1 DEF AddsUp
<1>3. \A x \in S : f[x] \in Nat
  BY SizesType
<1>4. SumOf(S) = (CHOOSE g : Rec(g))[S]
  BY DEF SumOf, MapThenSumSet, MapThenFoldSet
<1> HIDE DEF f, Rec
<1>5. \E g : Rec(g)
  BY <1>2, <1>3, TotalsAddUp
<1>6. AddsUp(CHOOSE g : Rec(g), f, S)
  BY <1>2, <1>5
<1>7. (CHOOSE g : Rec(g))[S] = Total(f, S)
  BY <1>3, <1>6, AddsUpTotal
<1> QED BY <1>4, <1>7 DEF f

\* Part of a finite set of packets adds up to no more.
-----------------------------------------------------------------------------
(* The counters of the receiver and the packets that are to arrive.         *)

\* Between events no grant is left, and the packets that have still to arrive
\* are those the receiver counts.
DInv == rx \in Sound(toArrive) /\ rx.grants = {}

LEMMA InitDInv ==
  ASSUME Countable, Init
  PROVE  DInv
BY InitSound, InitFiles DEF Init, DInv

LEMMA NextDInv ==
  ASSUME Countable, DInv, [Next]_vars
  PROVE  DInv'
<1>1. rx \in Sound(toArrive) /\ rx.grants = {} /\ Closed(Sound(toArrive))
  BY SoundClosed DEF DInv
<1>2. ASSUME NEW A, NEW r \in Sound(A), rx' = [r EXCEPT !.grants = {}],
             toArrive' = A \cup {SchedPktFor(g) : g \in r.grants}
      PROVE  DInv'
  <2>1. toArrive' = Pending(r, A)
    BY <1>2 DEF Pending, Ours
  <2>2. rx' \in Sound(Pending(r, A)) /\ rx'.grants = {}
    BY <1>2, LeaveSound
  <2> QED BY <2>1, <2>2 DEF DInv
<1>3. ASSUME NEW p \in toArrive, PktArrives(p)
      PROVE  DInv'
  <2> DEFINE r == ProcessReceivedPkt(rx, p)
             A == toArrive \ {p}
  <2>1. r \in Sound(A)
    BY <1>1, ArrivalSound
  <2>2. /\ rx' = [r EXCEPT !.grants = {}]
        /\ toArrive' = A \cup {SchedPktFor(g) : g \in r.grants}
    BY <1>3 DEF PktArrives
  <2> HIDE DEF r, A
  <2> QED BY <1>2, <2>1, <2>2
<1>4. ASSUME NEW r \in Sound(toArrive), Leave(r)
      PROVE  DInv'
  BY <1>2, <1>4 DEF Leave
<1>5. ASSUME NEW s \in Host, GrantTimer(s)
      PROVE  DInv'
  <2>1. ProcessGrantTimer(rx, s) \in Sound(toArrive)
    <3> DEFINE G == Sound(toArrive)
    <3> HIDE DEF G
    <3>1. ProcessGrantTimer(rx, s) \in G
      BY <1>1, ProcessGrantTimerIn DEF G
    <3> QED BY <3>1 DEF G
  <2> QED BY <1>4, <1>5, <2>1 DEF GrantTimer
<1>6. CASE BwUtilTimer
  <2>1. HandleBwUtilTimer(rx) \in Sound(toArrive)
    <3> DEFINE G == Sound(toArrive)
    <3> HIDE DEF G
    <3>1. HandleBwUtilTimer(rx) \in G
      BY <1>1, HandleBwUtilTimerIn DEF G
    <3> QED BY <3>1 DEF G
  <2> QED BY <1>4, <1>6, <2>1 DEF BwUtilTimer
<1>7. CASE UNCHANGED vars
  BY <1>7 DEF vars, DInv, Sound
<1> QED BY <1>3, <1>5, <1>6, <1>7 DEF Next

LEMMA AlwaysDInv ==
  ASSUME Countable
  PROVE  Spec => []DInv
<1>1. Init => DInv
  BY InitDInv
<1>2. DInv /\ [Next]_vars => DInv'
  BY NextDInv
<1> QED BY <1>1, <1>2, PTL DEF Spec

\* What the invariant says of the packets that are to arrive.
LEMMA DInvData ==
  ASSUME DInv
  PROVE  /\ toArrive \in SUBSET Pkt /\ IsFiniteSet(toArrive)
         /\ \A m \in Msg : MesgData(rx.inbnd[m], rx.delivered[m], m, InFlight(m))
         /\ Accounted => Totals(rx, toArrive)
<1>1. Ours(rx) = {} /\ Pending(rx, toArrive) = toArrive
  BY DEF DInv, Ours, Pending
<1>2. DataOf(rx, toArrive)
  BY <1>1 DEF DInv, Sound
<1>3. \A m \in Msg : InFlight(m) = PktsOf(toArrive, m)
  BY DEF InFlight, PktsOf
<1> QED BY <1>2, <1>3 DEF DataOf

\* Every message is handed to the application once, and only when the last of its
\* packets has arrived, whatever the order in which handleInboundPkt sees them:
\* no byte is granted twice, and none is counted that no packet brings.
THEOREM DeliveredOnce ==
  ASSUME Countable
  PROVE  Spec => []DeliveredOnceComplete
<1>1. DInv => DeliveredOnceComplete
  <2> SUFFICES ASSUME DInv, NEW m \in Msg
               PROVE  /\ rx.delivered[m] <= 1
                      /\ rx.delivered[m] = 1 => InFlight(m) = {} /\ ~rx.inbnd[m].open
    BY DEF DeliveredOnceComplete
  <2>1. MesgData(rx.inbnd[m], rx.delivered[m], m, InFlight(m))
    BY DInvData
  <2> QED BY <2>1 DEF MesgData
<1> QED BY <1>1, AlwaysDInv, PTL

\* totalBytesInFlight of every message, inflightSchedBytes and inflightUnschedBytes are
\* the bytes on the wire of the packets that have still to arrive: what
\* addPendingGrantedBytes and the first packet of a message add is what
\* pendingBytesArrived and fillinRxBytes take off again.
THEOREM InFlightIsExact ==
  ASSUME Countable, FullRequests, Wide
  PROVE  Spec => []InFlightExact
<1>1. DInv => InFlightExact
  <2> SUFFICES ASSUME DInv
               PROVE  InFlightExact
    OBVIOUS
  <2> DEFINE E == {p \in toArrive : p.msg \in OpenMesgs}
             S == {p \in E : p.type = "SCHED_DATA"}
             U == {p \in E : p.type # "SCHED_DATA"}
  <2>1. /\ toArrive \in SUBSET Pkt /\ IsFiniteSet(toArrive) /\ Totals(rx, toArrive)
        /\ \A m \in Msg : MesgData(rx.inbnd[m], rx.delivered[m], m, InFlight(m))
    BY DInvData DEF Accounted
  <2>2. ASSUME NEW T \in SUBSET toArrive
        PROVE  SumOf(T) = Total(WireOf, T)
    BY <2>1, FS_Subset, WireSum
  <2>3. MesgInFlightExact
    <3> SUFFICES ASSUME NEW m \in Msg, rx.inbnd[m].open
                 PROVE  rx.inbnd[m].totalBytesInFlight = SumOf(InFlight(m))
      BY DEF MesgInFlightExact, OpenMesgs
    <3>1. rx.inbnd[m].totalBytesInFlight = Total(WireOf, InFlight(m))
      BY <2>1 DEF MesgData, WireData, Accounted
    <3>2. InFlight(m) \in SUBSET toArrive
      BY DEF InFlight
    <3> QED BY <2>2, <3>1, <3>2
  <2>4. S \in SUBSET toArrive /\ U \in SUBSET toArrive
    OBVIOUS
  <2>5. S = Sched(OpenPkts(rx, toArrive)) /\ U = Unsched(OpenPkts(rx, toArrive))
    <3>1. \A p \in toArrive : p.msg \in Msg
      BY <2>1 DEF Pkt
    <3> QED BY <3>1 DEF OpenMesgs, OpenPkts, Sched, Unsched
  <2>6. rx.inflightSched = SumOf(S) /\ rx.inflightUnsched = SumOf(U)
    <3> HIDE DEF S, U
    <3> QED BY <2>1, <2>2, <2>4, <2>5 DEF Totals
  <2> QED BY <2>3, <2>6 DEF InFlightExact
<1> QED BY <1>1, AlwaysDInv, PTL

\* The window: sendAndScheduleGrant never sends a grant for a message with a full
\* window on its way, and only the packet that crosses the limit exceeds it.
THEOREM WindowIsRespected ==
  ASSUME Countable, FullRequests, Wide
  PROVE  Spec => []WindowRespected
<1>1. DInv => WindowRespected
  <2> SUFFICES ASSUME DInv, NEW m \in Msg, {p \in InFlight(m) : p.type = "SCHED_DATA"} # {}
               PROVE  SumOf(InFlight(m)) < MaxOutstanding + OnWire(GrantMax, SchedHdr)
    BY DEF WindowRespected
  <2>1. /\ toArrive \in SUBSET Pkt /\ IsFiniteSet(toArrive)
        /\ MesgData(rx.inbnd[m], rx.delivered[m], m, InFlight(m))
    BY DInvData
  <2>2. Sched(InFlight(m)) # {}
    BY DEF Sched
  <2>3. rx.inbnd[m].open
    <3>1. \A p \in ReqUnschedDataPkts(m) : p.type # "SCHED_DATA"
      BY UnschedLens
    <3> QED BY <2>1, <2>2, <3>1 DEF MesgData, Sched
  <2>4. WireData(rx.inbnd[m], InFlight(m))
    BY <2>1, <2>3 DEF MesgData, Accounted
  <2>5. SumOf(InFlight(m)) = Total(WireOf, InFlight(m))
    <3>1. InFlight(m) \in SUBSET toArrive
      BY DEF InFlight
    <3> QED BY <2>1, <3>1, FS_Subset, WireSum
  <2> QED BY <2>2, <2>4, <2>5 DEF WireData
<1> QED BY <1>1, AlwaysDInv, PTL

-----------------------------------------------------------------------------
(* The list of the receiver, without the bandwidth check.                   *)

\* Between events the list is complete, the senders to be kept granted are tended,
\* and the oversubscription period is marked.
LInv == DInv /\ rx \in Lined({}, NumToKeepGranted) /\ Marked(rx)

LEMMA InitLInv ==
  ASSUME Countable, Init
  PROVE  LInv
BY InitDInv, InitLined DEF Init, LInv

LEMMA NextLInv ==
  ASSUME Countable, ~LinkCheck, LInv, [Next]_vars
  PROVE  LInv'
<1>1. DInv /\ rx \in Sound(toArrive) /\ rx \in Lined({}, NumToKeepGranted) /\ Marked(rx)
  BY DEF LInv, DInv
<1>2. DInv'
  BY <1>1, NextDInv
<1>3. ASSUME NEW r \in Lined({}, NumToKeepGranted), Marked(r), rx' = [r EXCEPT !.grants = {}]
      PROVE  LInv'
  <2>1. rx' \in Lined({}, NumToKeepGranted) /\ Marked(rx')
    BY <1>3, LeaveLined
  <2> QED BY <1>2, <2>1 DEF LInv, Lined
<1>4. ASSUME NEW p \in toArrive, PktArrives(p)
      PROVE  LInv'
  <2> DEFINE r == ProcessReceivedPkt(rx, p)
  <2>1. r \in Lined({}, NumToKeepGranted) /\ Marked(r)
    BY <1>1, ArrivalLined
  <2>2. rx' = [r EXCEPT !.grants = {}]
    BY <1>4 DEF PktArrives
  <2> HIDE DEF r
  <2> QED BY <1>3, <2>1, <2>2
<1>5. ASSUME NEW s \in Host, GrantTimer(s)
      PROVE  LInv'
  <2> DEFINE r == ProcessGrantTimer(rx, s)
  <2>1. r \in Lined({}, NumToKeepGranted) /\ Marked(r)
    BY <1>1, ProcessGrantTimerLined
  <2>2. rx' = [r EXCEPT !.grants = {}]
    BY <1>5 DEF GrantTimer, Leave
  <2> HIDE DEF r
  <2> QED BY <1>3, <2>1, <2>2
<1>6. ~BwUtilTimer
  BY <1>1 DEF BwUtilTimer, Lined
<1>7. CASE UNCHANGED vars
  BY <1>1, <1>2, <1>7 DEF vars, LInv, Lined, Marked, Oversubscribed
<1> QED BY <1>4, <1>5, <1>6, <1>7 DEF Next

LEMMA AlwaysLInv ==
  ASSUME Countable, ~LinkCheck
  PROVE  Spec => []LInv
<1>1. Init => LInv
  BY InitLInv
<1>2. LInv /\ [Next]_vars => LInv'
  BY NextLInv
<1> QED BY <1>1, <1>2, PTL DEF Spec

\* Without the bandwidth check none of the assertions of ReceiveScheduler,
\* SenderState, SchedSenders and InboundMessage fails and none of their errors is
\* thrown, however many packets arrive in whatever order: every binary search of
\* remove finds its sender, every slot that is passed on has a sender to take it,
\* and handleGrantSentEvent ends.
THEOREM AssertionsHold ==
  ASSUME Countable, ~LinkCheck
  PROVE  Spec => []NoAssertFails
<1>1. LInv => NoAssertFails
  BY DEF LInv, Lined, NoAssertFails
<1> QED BY <1>1, AlwaysLInv, PTL

\* Without the bandwidth check the list of senders and the messages of every
\* sender are complete and sorted between any two events, although grants and
\* arrivals change the keys they are sorted by.
THEOREM ListsAreExact ==
  ASSUME Countable, ~LinkCheck
  PROVE  Spec => []ListsExact
<1>1. LInv => ListsExact
  <2> SUFFICES ASSUME LInv
               PROVE  ListsExact
    OBVIOUS
  <2> DEFINE f == rx.senders
  <2>1. /\ rx \in Filers /\ Elements(f) = Needy(rx) /\ InOrder(Ranks(rx), f)
        /\ Filing(rx) /\ rx \in Receivers
    BY DEF LInv, Lined, Filers
  <2>2. f \in Seq(Host) /\ rx.toGrant \in [Host -> Seq(Msg)]
    BY <2>1 DEF Receivers, Lists, Files
  <2>3. ASSUME NEW s \in Host
        PROVE  Listed(rx, s) <=> rx.toGrant[s] # <<>>
    <3>1. Listed(rx, s) <=> s \in Elements(f)
      BY DEF Listed, Elements
    <3> QED BY <2>1, <3>1 DEF Needy
  <2>4. ASSUME NEW s \in Host
        PROVE  /\ {rx.toGrant[s][i] : i \in DOMAIN rx.toGrant[s]} =
                    {m \in Msg : MsgSrc[m] = s /\ rx.inbnd[m].bytesToGrant > 0}
               /\ \A i \in 1 .. Len(rx.toGrant[s]) - 1 :
                    Better(rx, rx.toGrant[s][i], rx.toGrant[s][i + 1])
    <3> DEFINE g == rx.toGrant[s]
    <3>1. InOrder(Order(rx), g) /\ Elements(g) = Waiting(rx, s) /\ g \in Seq(Msg)
      BY <2>1, <2>2 DEF Filing, FileExact
    <3> HIDE DEF g
    <3>2. ASSUME NEW i \in 1 .. Len(g) - 1
          PROVE  Better(rx, g[i], g[i + 1])
      <4>1. i \in DOMAIN g /\ i + 1 \in DOMAIN g /\ i < i + 1
        BY <3>1
      <4>2. <<g[i], g[i + 1]>> \in Order(rx)
        BY <3>1, <4>1 DEF InOrder
      <4> QED BY <4>2 DEF Order
    <3>3. {g[i] : i \in DOMAIN g} = {m \in Msg : MsgSrc[m] = s /\ rx.inbnd[m].bytesToGrant > 0}
      BY <3>1 DEF Elements, Waiting
    <3> QED BY <3>2, <3>3 DEF g
  <2>5. ASSUME NEW i \in 1 .. Len(f) - 1
        PROVE  Better(rx, Top(rx, f[i]), Top(rx, f[i + 1]))
    <3> HIDE DEF f
    <3>1. i \in DOMAIN f /\ i + 1 \in DOMAIN f /\ i < i + 1
      BY <2>2
    <3>2. <<f[i], f[i + 1]>> \in Ranks(rx)
      BY <2>1, <3>1 DEF InOrder
    <3> QED BY <3>2 DEF Ranks
  <2> QED BY <2>3, <2>4, <2>5 DEF ListsExact
<1> QED BY <1>1, AlwaysLInv, PTL

\* Without the bandwidth check the senders that are kept granted always fit into the
\* scheduled priorities, whatever room insPoint and remove leave in front of them,
\* and an empty list never starts at index 0.
THEOREM PrioritiesAlwaysFit ==
  ASSUME Countable, ~LinkCheck
  PROVE  Spec => []PrioritiesFit
<1>1. LInv => PrioritiesFit
  BY DEF LInv, Lined, Fits, PrioritiesFit
<1> QED BY <1>1, AlwaysLInv, PTL

\* Without the bandwidth check every sender that is kept granted has its grant timer
\* set, or waits with a full window for packets that are on their way: no order of
\* arrivals and grants makes the scheduler forget it.
THEOREM NobodyIsForgotten ==
  ASSUME Countable, ~LinkCheck, FullRequests, Wide
  PROVE  Spec => []NoSenderForgotten
<1>1. LInv => NoSenderForgotten
  <2> SUFFICES ASSUME LInv, NEW i \in DOMAIN rx.senders, i <= rx.numToGrant
               PROVE  LET m == Top(rx, rx.senders[i])
                      IN \/ rx.timer[rx.senders[i]]
                         \/ /\ rx.inbnd[m].totalBytesInFlight >= MaxOutstanding
                            /\ \E p \in toArrive : p.msg = m
    BY DEF NoSenderForgotten
  <2> DEFINE s == rx.senders[i]
             m == Top(rx, s)
  <2>1. DInv /\ rx \in Filers /\ Elements(rx.senders) = Needy(rx)
    BY DEF LInv, Lined
  <2>2. Tended(rx, s)
    BY DEF LInv, Lined, Keeps
  <2>3. s \in Needy(rx)
    BY <2>1 DEF Elements
  <2> HIDE DEF s
  <2>4. m \in Msg /\ rx.inbnd[m].open
    BY <2>1, <2>3, NeedyTop
  <2> HIDE DEF m
  <2>5. CASE ~rx.timer[s]
    <3>1. rx.inbnd[m].totalBytesInFlight >= MaxOutstanding
      BY <2>2, <2>5 DEF Tended, WindowFull, m
    <3>2. rx.inbnd[m].totalBytesInFlight = Total(WireOf, InFlight(m))
      <4>1. MesgData(rx.inbnd[m], rx.delivered[m], m, InFlight(m))
        BY <2>1, <2>4, DInvData
      <4> QED BY <2>4, <4>1 DEF MesgData, WireData, Accounted
    <3>3. InFlight(m) # {}
      <4> SUFFICES ASSUME InFlight(m) = {}
                   PROVE  FALSE
        OBVIOUS
      <4>1. rx.inbnd[m].totalBytesInFlight = 0
        BY <3>2, TotalEmpty
      <4> QED BY <3>1, <4>1, SchedAssumption
    <3> QED BY <3>1, <3>3 DEF InFlight, m, s
  <2> QED BY <2>5 DEF s
<1> QED BY <1>1, AlwaysLInv, PTL

-----------------------------------------------------------------------------
(* The bandwidth check and the number of senders kept granted.              *)

Distinct(f) == \A i, j \in DOMAIN f : f[i] = f[j] => i = j

OpenOf(r) == {m \in Msg : r.inbnd[m].open}

\* Only scheduled messages wait for grants.
Trimmed(inbnd) == \A m \in Msg : inbnd[m].bytesToGrant > 0 => MsgSize[m] > TotalUnsched(m)

\* The receivers that keep n senders granted, have the messages of open begun, and
\* list nobody twice and nobody who waits for no grant or is in out: this much is
\* true whatever the bandwidth check does, and also when an assertion has failed.
Once(out, n, open) ==
  {r \in Filers : /\ r.numToGrant = n /\ OpenOf(r) = open /\ Trimmed(r.inbnd)
                  /\ Distinct(r.senders) /\ Elements(r.senders) \subseteq Needy(r) \ out}

LEMMA OnceData ==
  ASSUME NEW out, NEW n, NEW open, NEW r \in Once(out, n, open)
  PROVE  /\ r \in Filers /\ r \in Receivers /\ Bounds(r.inbnd) /\ r.senders \in Seq(Host)
         /\ r.headIdx \in Nat /\ n \in Nat /\ r.numToGrant = n /\ r.inbnd \in Inbounds
         /\ r.toGrant \in Files
         /\ OpenOf(r) = open /\ Trimmed(r.inbnd) /\ Distinct(r.senders)
         /\ Elements(r.senders) \subseteq Needy(r) \ out
BY DEF Once, Filers, Receivers, Lists, Widths

LEMMA OnceLess ==
  ASSUME NEW out, NEW n, NEW open, NEW r \in Once(out, n, open)
  PROVE  r \in Once({}, n, open)
BY DEF Once

\* Another list
LEMMA OnceRelisted ==
  ASSUME NEW out, NEW n, NEW open, NEW r \in Once(out, n, open), NEW away, NEW q,
         Relisted(r, q), Distinct(q.senders), Elements(q.senders) \subseteq Needy(r) \ away
  PROVE  q \in Once(away, n, open)
<1>1. q \in Filers
  BY OnceData, FilersClosed, ClosedRelisted
<1>2. q.inbnd = r.inbnd /\ q.toGrant = r.toGrant /\ q.numToGrant = r.numToGrant
  BY DEF Relisted, SameMesgs
<1>3. Needy(q) = Needy(r) /\ OpenOf(q) = OpenOf(r)
  BY <1>2 DEF Needy, OpenOf
<1> QED BY <1>1, <1>2, <1>3 DEF Once

\* Marks and timers
LEMMA OnceSame ==
  ASSUME NEW out, NEW n, NEW open, NEW r \in Once(out, n, open), NEW q \in Receivers,
         SameBytes(r, q), q.senders = r.senders
  PROVE  q \in Once(out, q.numToGrant, open)
<1>1. q \in Filers
  BY OnceData, FilersClosed DEF Closed
<1>2. Needy(q) = Needy(r) /\ OpenOf(q) = OpenOf(r)
  BY DEF Needy, OpenOf, SameBytes
<1>3. q.inbnd = r.inbnd
  BY DEF SameBytes
<1> QED BY <1>1, <1>2, <1>3 DEF Once

LEMMA OnceRequire ==
  ASSUME NEW out, NEW n, NEW open, NEW r \in Once(out, n, open), NEW cond,
         NEW label \in Labels
  PROVE  Require(r, cond, label) \in Once(out, n, open)
<1> DEFINE q == Require(r, cond, label)
<1>1. Required(r, q)
  BY DEF Require, Required, Failing
<1> HIDE DEF q
<1>2. Relisted(r, q) /\ q.senders = r.senders
  BY <1>1, OnceData, RequireStep DEF HasList
<1>3. q \in Once(out, n, open)
  BY <1>2, OnceData, OnceRelisted
<1> QED BY <1>3 DEF q

LEMMA OnceRemoveIth ==
  ASSUME NEW n, NEW open, NEW r \in Once({}, n, open), NEW i \in DOMAIN r.senders
  PROVE  /\ r.senders[i] \in Host /\ r.senders[i] \in Needy(r)
         /\ RemoveIth(r, i) \in Once({r.senders[i]}, n, open)
<1> DEFINE f == r.senders
           g == RemoveAt(f, i)
           s == f[i]
           q == RemoveIth(r, i)
<1>1. f \in Seq(Host) /\ Distinct(f) /\ Elements(f) \subseteq Needy(r) /\ r \in Receivers
  BY OnceData
<1>2. Relisted(r, q) /\ q.senders = g
  BY <1>1, RemoveIthStep DEF HasList
<1>3. s \in Host /\ s \in Needy(r)
  BY <1>1 DEF Elements
<1>4. i \in DOMAIN f
  OBVIOUS
<1> HIDE DEF q, f
<1>5. /\ g \in Seq(Host) /\ Len(g) = Len(f) - 1 /\ Len(f) \in Nat /\ i \in 1 .. Len(f)
      /\ \A j \in 1 .. Len(f) - 1 : g[j] = IF j < i THEN f[j] ELSE f[j + 1]
  BY <1>1, <1>4, RemoveAtElements
<1> HIDE DEF g
<1>6. DOMAIN f = 1 .. Len(f) /\ DOMAIN g = 1 .. Len(f) - 1
  BY <1>1, <1>5
<1>7. \A j \in 1 .. Len(f) - 1 : \E k \in DOMAIN f : g[j] = f[k] /\ k # i
                                                     /\ k = IF j < i THEN j ELSE j + 1
  <2> TAKE j \in 1 .. Len(f) - 1
  <2>1. CASE j < i
    BY <1>5, <1>6, <2>1
  <2>2. CASE ~(j < i)
    <3>1. j + 1 \in DOMAIN f /\ j + 1 # i
      BY <1>5, <1>6, <2>2
    <3> QED BY <1>5, <2>2, <3>1
  <2> QED BY <2>1, <2>2
<1>8. Distinct(g)
  <2> SUFFICES ASSUME NEW a \in DOMAIN g, NEW b \in DOMAIN g, g[a] = g[b]
               PROVE  a = b
    BY DEF Distinct
  <2>1. PICK k \in DOMAIN f : g[a] = f[k] /\ k = IF a < i THEN a ELSE a + 1
    BY <1>6, <1>7
  <2>2. PICK l \in DOMAIN f : g[b] = f[l] /\ l = IF b < i THEN b ELSE b + 1
    BY <1>6, <1>7
  <2>3. k = l
    BY <1>1, <2>1, <2>2 DEF Distinct
  <2> QED BY <1>5, <1>6, <2>1, <2>2, <2>3
<1>9. Elements(g) \subseteq Needy(r) \ {s}
  <2> SUFFICES ASSUME NEW j \in DOMAIN g
               PROVE  g[j] \in Needy(r) /\ g[j] # s
    BY DEF Elements
  <2>1. PICK k \in DOMAIN f : g[j] = f[k] /\ k # i
    BY <1>6, <1>7
  <2>2. f[k] # s
    BY <1>1, <1>4, <2>1 DEF Distinct
  <2>3. f[k] \in Needy(r)
    BY <1>1 DEF Elements
  <2> QED BY <2>1, <2>2, <2>3
<1>10. q \in Once({s}, n, open)
  <2> HIDE DEF s
  <2> QED BY <1>2, <1>8, <1>9, OnceRelisted
<1> QED BY <1>3, <1>10 DEF q, f

LEMMA OnceRemove ==
  ASSUME NEW n, NEW open, NEW r \in Once({}, n, open), NEW s \in Host
  PROVE  RemoveSender(r, s) \in Once({s}, n, open)
<1> DEFINE q == RemoveSender(r, s)
<1>1. r \in Receivers /\ Distinct(r.senders) /\ Elements(r.senders) \subseteq Needy(r)
  BY OnceData
<1>2. Relisted(r, q)
  BY <1>1, RemoveSenderStep
<1>3. CASE Listed(r, s) /\ r.senders # <<>> /\ r.toGrant[s] # <<>>
  <2> DEFINE i == IndexOf(r, s)
  <2>1. i \in DOMAIN r.senders /\ r.senders[i] = s
    BY <1>3 DEF Listed, IndexOf
  <2>2. q = RemoveIth(r, i)
    BY <1>3 DEF RemoveSender
  <2> HIDE DEF i, q
  <2>3. RemoveIth(r, i) \in Once({r.senders[i]}, n, open)
    BY <2>1, OnceRemoveIth
  <2> QED BY <2>1, <2>2, <2>3 DEF q
<1>4. CASE ~(Listed(r, s) /\ r.senders # <<>> /\ r.toGrant[s] # <<>>)
  <2>1. q.senders = r.senders
    BY <1>4 DEF RemoveSender, Require, Receivers, Once, Filers
  <2>2. s \notin Elements(r.senders)
    <3>1. CASE r.toGrant[s] = <<>>
      BY <1>1, <3>1 DEF Needy
    <3>2. CASE ~Listed(r, s) \/ r.senders = <<>>
      BY <3>2 DEF Listed, Elements
    <3> QED BY <1>4, <3>1, <3>2
  <2> HIDE DEF q
  <2>3. q \in Once({s}, n, open)
    BY <1>1, <1>2, <2>1, <2>2, OnceRelisted
  <2> QED BY <2>3 DEF q
<1> QED BY <1>3, <1>4

LEMMA OnceInsert ==
  ASSUME NEW n, NEW open, NEW s \in Host, NEW r \in Once({s}, n, open)
  PROVE  InsertSender(r, s) \in Once({}, n, open)
<1> DEFINE q == InsertSender(r, s)
<1>1. /\ r \in Receivers /\ Distinct(r.senders) /\ Elements(r.senders) \subseteq Needy(r) \ {s}
      /\ r.senders \in Seq(Host)
  BY OnceData
<1>2. CASE r.toGrant[s] = <<>>
  <2>1. q = Require(r, FALSE, "insert: nothing to grant")
    BY <1>2 DEF InsertSender
  <2>2. q \in Once({s}, n, open)
    BY <2>1, OnceRequire DEF Labels
  <2> QED BY <2>2, OnceLess
<1>3. CASE r.toGrant[s] # <<>>
  <2> DEFINE f == r.senders
             k == Ahead(r, s) + 1
             g == InsertAt(f, k, s)
  <2>1. Relisted(r, q) /\ q.senders = g
    BY <1>1, <1>3, InsertSenderStep DEF HasList
  <2>2. k \in Nat /\ k >= 1 /\ k <= Len(f) + 1 /\ Len(f) \in Nat
    <3> DEFINE a == Ahead(r, s)
    <3>1. a \in 0 .. Len(f) /\ Len(f) \in Nat
      BY <1>1, AheadType
    <3> HIDE DEF a, f
    <3> QED BY <3>1 DEF a
  <2>3. s \in Needy(r)
    BY <1>3 DEF Needy
  <2>4. f \in Seq(Host) /\ Distinct(f) /\ Elements(f) \subseteq Needy(r) \ {s}
    BY <1>1
  <2> HIDE DEF q, f, k
  <2>5. /\ g \in Seq(Host) /\ Len(g) = Len(f) + 1
        /\ \A j \in 1 .. Len(f) + 1 :
             g[j] = IF j < k THEN f[j] ELSE IF j = k THEN s ELSE f[j - 1]
    <3>1. f \in Seq(Host)
      BY <2>4
    <3>2. k \in Nat
      BY <2>2
    <3>3. k >= 1
      BY <2>2
    <3>4. k <= Len(f) + 1
      BY <2>2
    <3> HIDE DEF g
    <3>5. /\ InsertAt(f, k, s) \in Seq(Host) /\ Len(InsertAt(f, k, s)) = Len(f) + 1
          /\ \A j \in 1 .. Len(f) + 1 :
               InsertAt(f, k, s)[j] = IF j < k THEN f[j] ELSE IF j = k THEN s ELSE f[j - 1]
      BY <3>1, <3>2, <3>3, <3>4, InsertAtElements
    <3> QED BY <3>5 DEF g
  <2> HIDE DEF g
  <2>6. DOMAIN f = 1 .. Len(f) /\ DOMAIN g = 1 .. Len(f) + 1
    BY <2>2, <2>4, <2>5
  <2>7. \A j \in DOMAIN g : \/ j = k /\ g[j] = s
                            \/ j # k /\ \E l \in DOMAIN f : g[j] = f[l]
                                          /\ l = IF j < k THEN j ELSE j - 1
    <3> TAKE j \in DOMAIN g
    <3>1. CASE j = k
      BY <2>5, <2>6, <3>1, <2>2
    <3>2. CASE j < k
      <4>1. j \in DOMAIN f
        BY <2>2, <2>6, <3>2
      <4> QED BY <2>2, <2>5, <2>6, <3>2, <4>1
    <3>3. CASE j > k
      <4>1. j - 1 \in DOMAIN f
        BY <2>2, <2>6, <3>3
      <4>2. g[j] = f[j - 1]
        BY <2>2, <2>5, <2>6, <3>3
      <4> QED BY <2>2, <2>6, <3>3, <4>1, <4>2
    <3>4. j < k \/ j = k \/ j > k
      BY <2>2, <2>6
    <3> QED BY <3>1, <3>2, <3>3, <3>4
  <2>8. \A l \in DOMAIN f : f[l] \in Needy(r) /\ f[l] # s
    BY <2>4 DEF Elements
  <2>9. Distinct(g)
    <3> SUFFICES ASSUME NEW a \in DOMAIN g, NEW b \in DOMAIN g, g[a] = g[b]
                 PROVE  a = b
      BY DEF Distinct
    <3>1. CASE a = k \/ b = k
      BY <2>7, <2>8, <3>1
    <3>2. CASE a # k /\ b # k
      <4>1. PICK l \in DOMAIN f : g[a] = f[l] /\ l = IF a < k THEN a ELSE a - 1
        BY <2>7, <3>2
      <4>2. PICK p \in DOMAIN f : g[b] = f[p] /\ p = IF b < k THEN b ELSE b - 1
        BY <2>7, <3>2
      <4>3. l = p
        BY <2>4, <4>1, <4>2 DEF Distinct
      <4> QED BY <2>2, <2>6, <3>2, <4>1, <4>2, <4>3
    <3> QED BY <3>1, <3>2
  <2>10. Elements(g) \subseteq Needy(r) \ {}
    BY <2>3, <2>7, <2>8 DEF Elements
  <2>11. q \in Once({}, n, open)
    BY <2>1, <2>9, <2>10, OnceRelisted
  <2> QED BY <2>11 DEF q
<1> QED BY <1>2, <1>3

\* A grant for a sender that was taken out of the list
LEMMA OnceSend ==
  ASSUME NEW n, NEW open, NEW s \in Host, NEW r \in Once({s}, n, open), NEW i \in Nat
  PROVE  SendAndScheduleGrant(r, s, PrioForMesg(i)) \in Once({s}, n, open)
<1> DEFINE prio == PrioForMesg(i)
           q == SendAndScheduleGrant(r, s, prio)
<1>1. /\ r \in Filers /\ r \in Receivers /\ Bounds(r.inbnd) /\ r.inbnd \in Inbounds
      /\ r.toGrant \in Files /\ r.numToGrant = n /\ OpenOf(r) = open /\ Trimmed(r.inbnd)
      /\ Distinct(r.senders) /\ Elements(r.senders) \subseteq Needy(r) \ {s}
  BY OnceData
<1>2. prio \in 0 .. AllPrio
  BY PrioType
<1> HIDE DEF prio
<1>3. q \in Filers
  BY <1>1, <1>2, FilersClosed DEF Closed
<1>4. q.senders = r.senders /\ q.numToGrant = r.numToGrant
  BY <1>1, <1>2, SendType DEF SameLists
<1>5. GrantStep(r, s, q)
  BY <1>1, <1>2, SendStep
<1> HIDE DEF q
<1>6. /\ \A m \in Msg : q.inbnd[m].open = r.inbnd[m].open
      /\ Trimmed(q.inbnd) /\ Needy(q) \ {s} = Needy(r) \ {s}
  <2>1. CASE SameBytes(r, q)
    BY <1>1, <2>1 DEF SameBytes, Needy
  <2>2. CASE ~SameBytes(r, q)
    <3> DEFINE m == Top(r, s)
               in == r.inbnd[m]
               new == Granted(r, s)
               size == GrantSize(r, s)
    <3>1. r.toGrant[s] # <<>> /\ q.inbnd = InbndGranted(r, s) /\ q.toGrant = FilesGranted(r, s)
      BY <1>5, <2>2 DEF GrantStep
    <3>2. m \in Msg /\ in \in Inbound /\ size \in Nat
      BY <1>1, <3>1, GrantType
    <3>3. new.open = in.open /\ new.bytesToGrant = in.bytesToGrant - size /\ in.bytesToGrant \in Nat
      BY <3>2 DEF Granted, Inbound
    <3>4. \A k \in Msg : q.inbnd[k] = IF k = m THEN new ELSE r.inbnd[k]
      BY <1>1, <3>1, <3>2 DEF InbndGranted, Inbounds
    <3>5. \A t \in Host : t # s => q.toGrant[t] = r.toGrant[t]
      BY <1>1, <3>1 DEF FilesGranted, Files
    <3>6. in = r.inbnd[m]
      OBVIOUS
    <3> HIDE DEF m, in, new, size
    <3>7. \A k \in Msg : q.inbnd[k].open = r.inbnd[k].open
      BY <3>2, <3>3, <3>4, <3>6
    <3>8. \A k \in Msg : q.inbnd[k].bytesToGrant > 0 => r.inbnd[k].bytesToGrant > 0
      BY <3>2, <3>3, <3>4, <3>6
    <3>9. Trimmed(q.inbnd)
      BY <1>1, <3>8 DEF Trimmed
    <3>10. Needy(q) \ {s} = Needy(r) \ {s}
      BY <3>5 DEF Needy
    <3> QED BY <3>7, <3>9, <3>10
  <2> QED BY <2>1, <2>2
<1>7. OpenOf(q) = open
  BY <1>1, <1>6 DEF OpenOf
<1>8. q \in Once({s}, n, open)
  BY <1>1, <1>3, <1>4, <1>6, <1>7 DEF Once
<1> QED BY <1>8 DEF q, prio

-----------------------------------------------------------------------------
(* A slot that is passed on.                                                *)

\* The sender that was granted is out of the list until the next call.
Between(n, open) ==
  {st \in EventsIn(Filers) : st.r \in Once(IF st.going THEN {st.cur.s} ELSE {}, n, open)}

LEMMA BetweenSettled ==
  ASSUME NEW n, NEW open, NEW r \in Once({}, n, open), NEW cur \in Places
  PROVE  Settled(r, cur) \in Between(n, open)
<1>1. r \in Filers
  BY OnceData
<1>2. Settled(r, cur) \in EventsIn(Filers)
  BY <1>1, SettledIn
<1> QED BY <1>2 DEF Between, Settled

\* The event after a grant
LEMMA BetweenSent ==
  ASSUME NEW n, NEW open, NEW s \in Host, NEW r \in Once({s}, n, open), NEW old \in Places
  PROVE  [r |-> r, old |-> old, cur |-> InsPoint(r, s), going |-> TRUE] \in Between(n, open)
<1> DEFINE cur == InsPoint(r, s)
<1>1. r \in Filers /\ r \in Receivers
  BY OnceData
<1>2. cur \in Places /\ cur.s = s
  BY <1>1, InsPointType
<1> HIDE DEF cur
<1> QED BY <1>1, <1>2 DEF Between, EventsIn, cur

LEMMA BetweenGrantAt ==
  ASSUME NEW n, NEW open, NEW r \in Once({}, n, open), NEW cur \in Places, NEW ind \in Int
  PROVE  GrantAt(r, cur, ind) \in Between(n, open)
<1> DEFINE i == ind - r.headIdx + 1
           q == GrantAt(r, cur, ind)
<1>1. r.headIdx \in Nat /\ r.senders \in Seq(Host)
  BY OnceData
<1>2. CASE i \notin DOMAIN r.senders
  <2> DEFINE o == Require(r, FALSE, "removeAt: no sender to grant")
  <2>1. o \in Once({}, n, open)
    BY OnceRequire DEF Labels
  <2>2. q = Settled(o, cur)
    BY <1>2 DEF GrantAt
  <2> HIDE DEF o, q
  <2>3. q \in Between(n, open)
    BY <2>1, <2>2, BetweenSettled
  <2> QED BY <2>3 DEF q
<1>3. CASE i \in DOMAIN r.senders
  <2> DEFINE s == r.senders[i]
             o == RemoveIth(r, i)
             sent == SendAndScheduleGrant(o, s, PrioForMesg(ind))
             old == [cur EXCEPT !.s = s, !.sInd = ind]
  <2>1. s \in Host /\ o \in Once({s}, n, open)
    BY <1>3, OnceRemoveIth
  <2>2. ind \in Nat
    <3>1. i \in 1 .. Len(r.senders)
      BY <1>1, <1>3
    <3> QED BY <1>1, <3>1
  <2>3. q = [r |-> sent, old |-> old, cur |-> InsPoint(sent, s), going |-> TRUE]
    BY <1>3 DEF GrantAt
  <2> HIDE DEF o, s, q
  <2>4. sent \in Once({s}, n, open)
    BY <2>1, <2>2, OnceSend
  <2>5. old \in Places
    BY <2>1, <2>2 DEF Places
  <2> HIDE DEF sent, old
  <2>6. q \in Between(n, open)
    BY <2>1, <2>3, <2>4, <2>5, BetweenSent
  <2> QED BY <2>6 DEF q
<1> QED BY <1>2, <1>3

LEMMA BetweenPassOn ==
  ASSUME NEW n, NEW open, NEW st \in Between(n, open)
  PROVE  PassOn(st) \in Between(n, open)
<1> DEFINE r == Require(st.r, InRange(st.old), "handleGrantSent: old out of range")
           cur == st.cur
           s == cur.s
           back == IF cur.sInd >= 0 THEN InsertSender(r, s) ELSE r
           o1 == Require(r, InRange(cur), "handleGrantSent: cur out of range")
           o2 == InsertSender(o1, s)
           o3 == Require(r, FALSE, "handleGrantSent: invalid position")
           ind == cur.headIdx + cur.numToGrant - 1
           q == PassOn(st)
<1>1. cur \in Places /\ s \in Host /\ ind \in Int
  BY DEF Between, EventsIn, Places
<1>2. CASE ~st.going
  BY <1>2 DEF PassOn
<1>3. CASE st.going
  <2>1. st.r \in Once({s}, n, open)
    BY <1>3 DEF Between
  <2>2. r \in Once({s}, n, open)
    BY <2>1, OnceRequire DEF Labels
  <2>3. q = IF st.old.sInd = cur.sInd THEN Settled(o2, cur)
            ELSE IF cur.sInd >= 0 /\ cur.sInd < cur.headIdx THEN Settled(o3, cur)
            ELSE IF SlotIsFree(cur) THEN GrantAt(back, cur, ind)
            ELSE Settled(back, cur)
    BY <1>3 DEF PassOn
  <2> HIDE DEF r, q, s, ind, cur
  <2>4. o1 \in Once({s}, n, open) /\ o3 \in Once({s}, n, open)
    BY <2>2, OnceRequire DEF Labels
  <2>5. InsertSender(r, s) \in Once({}, n, open) /\ r \in Once({}, n, open)
    BY <1>1, <2>2, OnceInsert, OnceLess
  <2>6. back \in Once({}, n, open)
    BY <2>5
  <2> HIDE DEF o1, o3, back
  <2>7. o2 \in Once({}, n, open) /\ o3 \in Once({}, n, open)
    BY <1>1, <2>4, OnceInsert, OnceLess
  <2> HIDE DEF o2
  <2>8. /\ Settled(o2, cur) \in Between(n, open) /\ Settled(o3, cur) \in Between(n, open)
        /\ Settled(back, cur) \in Between(n, open)
    BY <1>1, <2>6, <2>7, BetweenSettled
  <2>9. GrantAt(back, cur, ind) \in Between(n, open)
    BY <1>1, <2>6, BetweenGrantAt
  <2>10. q \in Between(n, open)
    BY <2>3, <2>8, <2>9
  <2> QED BY <2>10 DEF q
<1> QED BY <1>2, <1>3

LEMMA OnceGrantSent ==
  ASSUME NEW n, NEW open, NEW st \in Between(n, open)
  PROVE  HandleGrantSent(st) \in Once({}, n, open)
<1> DEFINE calls == Cardinality(Msg) + 1
           after == CHOOSE f : CallsFrom(f, st, calls)
           T == {k \in 0 .. calls : after[k] \notin Between(n, open)}
<1>1. calls \in Nat
  BY FiniteAssumption, FS_CardinalityType
<1>2. HandleGrantSent(st) =
        Require(after[calls].r, ~after[calls].going, "handleGrantSent: unbounded")
  BY DEF HandleGrantSent, CallsFrom
<1> HIDE DEF calls
<1>3. CallsFrom(after, st, calls)
  BY <1>1, CallsExist
<1> HIDE DEF after
<1>4. \A k \in 0 .. calls : after[k] = IF k = 0 THEN st ELSE PassOn(after[k - 1])
  BY <1>3 DEF CallsFrom
<1>5. T = {}
  <2>1. SUFFICES ASSUME T # {}
                 PROVE  FALSE
    OBVIOUS
  <2>2. PICK k \in T : \A j \in T : k <= j
    <3>1. T \in SUBSET Nat
      BY <1>1
    <3> HIDE DEF T
    <3> QED BY <2>1, <3>1, LeastElement
  <2>3. k # 0
    BY <1>4, <2>2
  <2>4. k - 1 \in 0 .. calls /\ k - 1 \notin T
    BY <1>1, <2>2, <2>3
  <2>5. after[k - 1] \in Between(n, open) /\ after[k] = PassOn(after[k - 1])
    BY <1>4, <2>2, <2>3, <2>4
  <2>6. after[k] \in Between(n, open)
    BY <2>5, BetweenPassOn
  <2> QED BY <2>2, <2>6
<1>6. after[calls] \in Between(n, open)
  BY <1>1, <1>5
<1> DEFINE r == after[calls].r
           out == IF after[calls].going THEN {after[calls].cur.s} ELSE {}
<1>7. r \in Once(out, n, open)
  BY <1>6 DEF Between
<1> HIDE DEF r, out
<1>8. Require(r, ~after[calls].going, "handleGrantSent: unbounded") \in Once(out, n, open)
  BY <1>7, OnceRequire DEF Labels
<1>9. HandleGrantSent(st) \in Once(out, n, open)
  BY <1>2, <1>8 DEF r
<1> QED BY <1>9, OnceLess

LEMMA BetweenSendFirst ==
  ASSUME NEW n, NEW open, NEW s \in Host, NEW r \in Once({s}, n, open),
         NEW at \in Places, at.sInd \in Nat
  PROVE  SendFirst(r, s, at) \in Between(n, open)
<1> DEFINE i == at.sInd
           sent == SendAndScheduleGrant(r, s, PrioForMesg(i))
<1>1. i \in Nat
  OBVIOUS
<1> HIDE DEF i
<1>2. sent \in Once({s}, n, open)
  BY <1>1, OnceSend
<1> HIDE DEF sent
<1>3. [r |-> sent, old |-> at, cur |-> InsPoint(sent, s), going |-> TRUE] \in Between(n, open)
  BY <1>2, BetweenSent
<1> QED BY <1>3 DEF SendFirst, sent, i

-----------------------------------------------------------------------------
(* The handlers keep nobody twice.                                          *)

LEMMA OncePktArrival ==
  ASSUME NEW n, NEW open, NEW old \in Places, NEW cur \in Places, NEW r \in Once({cur.s}, n, open)
  PROVE  HandlePktArrival(r, old, cur) \in Once({}, n, open)
<1> DEFINE s == cur.s
           last == cur.headIdx + Lesser(cur.numSenders, cur.numToGrant) - 1
           wasGranted == old.sInd >= 0 /\ old.sInd < old.numToGrant + old.headIdx
           check == Require(r, wasGranted => InRange(old),
                            "handlePktArrival: invalid old position")
           o1 == GrantAt(check, cur, last)
           b2 == InsertSender(check, s)
           o2 == GrantAt(b2, cur, last)
           b3 == InsertSender(r, s)
           o3 == SendFirst(r, s, cur)
           st == IF cur.sInd < 0
                   THEN IF wasGranted THEN o1 ELSE Settled(r, cur)
                 ELSE IF cur.sInd >= cur.headIdx + cur.numToGrant
                   THEN IF wasGranted THEN o2 ELSE Settled(b3, cur)
                 ELSE o3
<1>1. /\ last \in Int /\ s \in Host /\ cur.sInd \in Int
      /\ cur.headIdx + cur.numToGrant \in Int
  BY DEF Places, Lesser
<1>2. r \in Once({s}, n, open) /\ r \in Once({}, n, open)
  BY OnceLess
<1>3. HandlePktArrival(r, old, cur) = HandleGrantSent(st)
  BY DEF HandlePktArrival
<1>4. cur.sInd >= 0 => o3 \in Between(n, open)
  <2> HIDE DEF s
  <2> QED BY <1>1, <1>2, BetweenSendFirst
<1> HIDE DEF last, wasGranted, s
<1>5. check \in Once({s}, n, open)
  BY <1>2, OnceRequire DEF Labels
<1> HIDE DEF check
<1>6. check \in Once({}, n, open)
  BY <1>5, OnceLess
<1>7. o1 \in Between(n, open)
  BY <1>1, <1>6, BetweenGrantAt
<1>8. b2 \in Once({}, n, open) /\ b3 \in Once({}, n, open)
  BY <1>1, <1>2, <1>5, OnceInsert
<1> HIDE DEF b2, b3
<1>9. o2 \in Between(n, open)
  BY <1>1, <1>8, BetweenGrantAt
<1>10. Settled(r, cur) \in Between(n, open) /\ Settled(b3, cur) \in Between(n, open)
  BY <1>2, <1>8, BetweenSettled
<1> HIDE DEF o1, o2, o3
<1>11. st \in Between(n, open)
  BY <1>1, <1>4, <1>7, <1>9, <1>10
<1> HIDE DEF st
<1> QED BY <1>3, <1>11, OnceGrantSent

LEMMA OnceGrantTimer ==
  ASSUME NEW n, NEW open, NEW r0 \in Once({}, n, open), NEW s \in Host
  PROVE  ProcessGrantTimer(r0, s) \in Once({}, n, open)
<1> DEFINE off == [r0 EXCEPT !.timer[s] = FALSE]
           r1 == RemoveSender(off, s)
           at == InsPoint(r1, s)
           o1 == InsertSender(r1, s)
           st == SendFirst(r1, s, at)
           o2 == HandleGrantSent(st)
           r2 == IF at.sInd < 0 THEN r1
                 ELSE IF at.sInd - at.headIdx >= r1.numToGrant THEN o1
                 ELSE o2
           q == ProcessGrantTimer(r0, s)
<1>1. off \in Once({}, n, open)
  <2>1. r0 \in Receivers /\ r0.numToGrant = n
    BY OnceData
  <2> DEFINE timer == [r0.timer EXCEPT ![s] = FALSE]
  <2>2. timer \in Timers
    BY <2>1 DEF Receivers, Timers
  <2>3. off = [r0 EXCEPT !.timer = timer]
    BY <2>1 DEF Receivers
  <2> HIDE DEF off, timer
  <2>4. /\ off \in Receivers /\ SameBytes(r0, off) /\ off.senders = r0.senders
        /\ off.numToGrant = n
    BY <2>1, <2>2, <2>3 DEF Receivers, SameBytes
  <2> QED BY <2>4, OnceSame
<1>2. q = IF r2.oversub = "in" /\ ~Oversubscribed(r2)
            THEN [r2 EXCEPT !.oversub = "ended"] ELSE r2
  BY DEF ProcessGrantTimer, GrantSender
<1> HIDE DEF off, q
<1>3. r1 \in Once({s}, n, open)
  BY <1>1, OnceRemove
<1> HIDE DEF r1
<1>4. r1 \in Once({}, n, open) /\ r1 \in Receivers
  BY <1>3, OnceLess, OnceData
<1>5. at \in Places /\ at.sInd \in Int
  <2>1. at \in Places
    BY <1>4, InsPointType
  <2> QED BY <2>1 DEF Places
<1> HIDE DEF at
<1>6. o1 \in Once({}, n, open)
  BY <1>3, OnceInsert
<1>7. at.sInd >= 0 => st \in Between(n, open)
  BY <1>3, <1>5, BetweenSendFirst
<1> HIDE DEF o1, st
<1>8. at.sInd >= 0 => o2 \in Once({}, n, open)
  BY <1>7, OnceGrantSent
<1> HIDE DEF o2
<1>9. r2 \in Once({}, n, open)
  BY <1>4, <1>5, <1>6, <1>8
<1> HIDE DEF r2
<1>10. q \in Once({}, n, open)
  <2> DEFINE o == [r2 EXCEPT !.oversub = "ended"]
  <2>1. r2 \in Receivers /\ r2.numToGrant = n
    BY <1>9, OnceData
  <2>2. o \in Receivers /\ SameBytes(r2, o) /\ o.senders = r2.senders /\ o.numToGrant = n
    BY <2>1 DEF Receivers, SameBytes
  <2> HIDE DEF o
  <2>3. o \in Once({}, n, open)
    BY <1>9, <2>2, OnceSame
  <2> QED BY <1>2, <1>9, <2>3 DEF o
<1> QED BY <1>10 DEF q

\* The bandwidth check keeps one more sender granted if there is one.
LEMMA OnceBwUtilTimer ==
  ASSUME NEW n, NEW open, NEW r0 \in Once({}, n, open)
  PROVE  IF Len(r0.senders) > n THEN HandleBwUtilTimer(r0) \in Once({}, n + 1, open)
                                ELSE HandleBwUtilTimer(r0) \in Once({}, n, open)
<1> DEFINE r1 == [r0 EXCEPT !.bwTimer = FALSE]
           r2 == [r1 EXCEPT !.numToGrant = @ + 1,
                            !.headIdx = IF @ > 0 THEN @ - 1 ELSE 0]
           k == r2.numToGrant
           ind == r2.headIdx + k - 1
           s == r2.senders[k]
           old == [s |-> s, sInd |-> ind, headIdx |-> r2.headIdx,
                   numSenders |-> Len(r2.senders), numToGrant |-> k]
           o == RemoveIth(r2, k)
           once == SendAndScheduleGrant(o, s, PrioForMesg(ind))
           r3 == SendAndScheduleGrant(once, s, PrioForMesg(ind))
           st == [r |-> r3, old |-> old, cur |-> InsPoint(r3, s), going |-> TRUE]
           end == HandleGrantSent(st)
           q == HandleBwUtilTimer(r0)
<1>1. r0 \in Receivers /\ n \in Nat /\ r0.numToGrant = n
  BY OnceData
<1>2. r1 \in Receivers /\ r1 \in Once({}, n, open) /\ r1.senders = r0.senders /\ r1.numToGrant = n
  <2>1. /\ r1 \in Receivers /\ SameBytes(r0, r1) /\ r1.senders = r0.senders
        /\ r1.numToGrant = n
    BY <1>1 DEF Receivers, SameBytes
  <2> HIDE DEF r1
  <2> QED BY <2>1, OnceSame
<1>3. q = IF ~Oversubscribed(r1) THEN r1 ELSE [end EXCEPT !.bwTimer = TRUE]
  BY DEF HandleBwUtilTimer
<1>4. Oversubscribed(r1) <=> Len(r0.senders) > n
  BY <1>2 DEF Oversubscribed
<1> HIDE DEF q, r1
<1>5. /\ r2 \in Receivers /\ r2 \in Once({}, n + 1, open)
      /\ r2.senders = r0.senders /\ k = n + 1
  <2> DEFINE head == IF r1.headIdx > 0 THEN r1.headIdx - 1 ELSE 0
             wide == n + 1
  <2>1. head \in Nat /\ wide \in Widths
    BY <1>1, <1>2, SchedAssumption DEF Receivers, Widths
  <2>2. r2 = [r1 EXCEPT !.numToGrant = wide, !.headIdx = head]
    BY <1>2 DEF Receivers
  <2> HIDE DEF r2, head, wide
  <2>3. /\ r2 \in Receivers /\ SameBytes(r1, r2)
        /\ r2.senders = r1.senders /\ r2.numToGrant = wide
    BY <1>2, <2>1, <2>2 DEF Receivers, SameBytes
  <2>4. r2 \in Once({}, wide, open)
    BY <1>2, <2>3, OnceSame
  <2> QED BY <1>2, <2>3, <2>4 DEF wide
<1>6. CASE Len(r0.senders) > n
  <2> HIDE DEF r2
  <2>1. k \in DOMAIN r2.senders /\ r2.headIdx \in Nat /\ Len(r2.senders) \in Nat /\ k \in Nat
        /\ k >= 1
    <3>1. r2.senders \in Seq(Host) /\ r2.headIdx \in Nat
      BY <1>5, OnceData
    <3>2. Len(r2.senders) \in Nat /\ n + 1 \in 1 .. Len(r2.senders)
      BY <1>1, <1>5, <1>6, <3>1
    <3> QED BY <1>1, <1>5, <3>1, <3>2
  <2> DEFINE w == n + 1
  <2>2. r2 \in Once({}, w, open)
    BY <1>5
  <2> HIDE DEF k, w
  <2>3. s \in Host /\ o \in Once({s}, w, open)
    BY <2>1, <2>2, OnceRemoveIth
  <2>4. ind \in Nat
    BY <2>1
  <2> HIDE DEF s, o, ind
  <2>5. old \in Places
    BY <2>1, <2>3, <2>4 DEF Places
  <2>6. once \in Once({s}, w, open)
    BY <2>3, <2>4, OnceSend
  <2> HIDE DEF old, once
  <2>7. r3 \in Once({s}, w, open)
    BY <2>3, <2>4, <2>6, OnceSend
  <2> HIDE DEF r3
  <2>8. st \in Between(w, open)
    BY <2>3, <2>5, <2>7, BetweenSent
  <2> HIDE DEF st
  <2>9. end \in Once({}, w, open)
    BY <2>8, OnceGrantSent
  <2> HIDE DEF end
  <2>10. [end EXCEPT !.bwTimer = TRUE] \in Once({}, w, open)
    <3> DEFINE e == [end EXCEPT !.bwTimer = TRUE]
    <3>1. end \in Receivers /\ end.numToGrant = w
      BY <2>9, OnceData
    <3>2. e \in Receivers /\ SameBytes(end, e) /\ e.senders = end.senders /\ e.numToGrant = w
      BY <3>1 DEF Receivers, SameBytes
    <3> HIDE DEF e
    <3>3. e \in Once({}, w, open)
      BY <2>9, <3>2, OnceSame
    <3> QED BY <3>3 DEF e
  <2>11. q \in Once({}, w, open)
    BY <1>3, <1>4, <1>6, <2>10
  <2> QED BY <1>6, <2>11 DEF q, w
<1>7. CASE ~(Len(r0.senders) > n)
  <2>1. q \in Once({}, n, open)
    BY <1>2, <1>3, <1>4, <1>7
  <2> QED BY <1>7, <2>1 DEF q
<1> QED BY <1>6, <1>7

-----------------------------------------------------------------------------
(* Arrivals, and what they give back.                                       *)

\* The messages begun when packet p has arrived
OpenAfter(r, p, open) ==
  IF Complete(Following(r, p)) THEN open \ {p.msg} ELSE open \cup {p.msg}

LEMMA OnceInbound ==
  ASSUME NEW n, NEW open, NEW p \in Pkt, NEW r \in Once({MsgSrc[p.msg]}, n, open)
  PROVE  HandleInboundPkt(r, p) \in Once({MsgSrc[p.msg]}, n, OpenAfter(r, p, open))
<1> DEFINE m == p.msg
           s == MsgSrc[m]
           in == Following(r, p)
           left == IF Complete(in) THEN NoMessage ELSE in
           q == HandleInboundPkt(r, p)
<1>1. /\ r \in Receivers /\ Bounds(r.inbnd) /\ Filing(r) /\ r.inbnd \in Inbounds
      /\ r.toGrant \in Files /\ r.numToGrant = n /\ OpenOf(r) = open /\ Trimmed(r.inbnd)
      /\ Distinct(r.senders) /\ Elements(r.senders) \subseteq Needy(r) \ {s}
  <2> HIDE DEF s, q
  <2>1. r \in Once({s}, n, open)
    BY DEF s
  <2>2. r \in Filers
    BY <2>1, OnceData
  <2> QED BY <2>1, <2>2, OnceData DEF Filers
<1>2. m \in Msg /\ s \in Host /\ r.inbnd[m] \in Inbound
  BY <1>1, MsgAssumption DEF Pkt, Inbounds
<1>3. q \in Filers /\ Inbounded(r, p, q)
  BY <1>1, InboundStep DEF Filers
<1> HIDE DEF q
<1>4. /\ q.senders = r.senders /\ q.numToGrant = r.numToGrant
      /\ q.inbnd = [r.inbnd EXCEPT ![m] = left]
      /\ \A t \in Host : t # s => q.toGrant[t] = r.toGrant[t]
  BY <1>3 DEF Inbounded, SameQueues
<1>5. /\ in.open
      /\ in.bytesToGrant > 0 => MsgSize[m] > TotalUnsched(m)
  <2> DEFINE prev == Previous(r, p)
  <2>1. prev \in Inbound /\ prev.open /\ (prev.bytesToGrant > 0 => MsgSize[m] > TotalUnsched(m))
    <3>1. CASE r.inbnd[m].open
      <4>1. prev = r.inbnd[m]
        BY <3>1 DEF Previous
      <4>2. r.inbnd[m].bytesToGrant > 0 => MsgSize[m] > TotalUnsched(m)
        BY <1>1, <1>2 DEF Trimmed
      <4> QED BY <1>2, <3>1, <4>1, <4>2
    <3>2. CASE ~r.inbnd[m].open
      <4>1. prev = Opened(m)
        BY <3>2 DEF Previous
      <4>2. prev \in Inbound /\ prev.open /\ MsgSize[m] \in Nat /\ TotalUnsched(m) \in Nat
        BY <1>2, <4>1, OpenedType
      <4>3. prev.bytesToGrant = MsgSize[m] - TotalUnsched(m)
        BY <4>1 DEF Opened
      <4> QED BY <4>2, <4>3
    <3> QED BY <3>1, <3>2
  <2>2. in = Filled(prev, p)
    BY DEF Following
  <2> HIDE DEF prev, in
  <2>3. in.bytesToGrant = prev.bytesToGrant /\ in.open = prev.open
    BY <2>1, <2>2, FilledType
  <2> QED BY <2>1, <2>3
<1>6. /\ left.open <=> ~Complete(in)
      /\ left.bytesToGrant > 0 => MsgSize[m] > TotalUnsched(m)
  <2>1. NoMessage.open = FALSE /\ ~(NoMessage.bytesToGrant > 0)
    BY DEF NoMessage
  <2> HIDE DEF in
  <2> QED BY <1>5, <2>1
<1>7. \A k \in Msg : q.inbnd[k] = IF k = m THEN left ELSE r.inbnd[k]
  BY <1>1, <1>2, <1>4 DEF Inbounds
<1>8. OpenOf(q) = OpenAfter(r, p, open)
  <2> DEFINE done == Complete(in)
  <2>1. OpenAfter(r, p, open) = IF done THEN open \ {m} ELSE open \cup {m}
    BY DEF OpenAfter
  <2> HIDE DEF left, in, m, done
  <2>2. left.open <=> ~done
    BY <1>6 DEF done
  <2>3. \A k \in Msg : q.inbnd[k].open <=> IF k = m THEN ~done ELSE r.inbnd[k].open
    BY <1>7, <2>2
  <2>4. \A k \in Msg : k \in open <=> r.inbnd[k].open
    BY <1>1 DEF OpenOf
  <2>5. open \subseteq Msg /\ OpenOf(q) \subseteq Msg
    BY <1>1 DEF OpenOf
  <2>6. \A k \in Msg : k \in OpenOf(q) <=> IF k = m THEN ~done ELSE k \in open
    BY <2>3, <2>4 DEF OpenOf
  <2> QED BY <1>2, <2>1, <2>5, <2>6
<1>9. Trimmed(q.inbnd)
  <2> HIDE DEF left, m
  <2> QED BY <1>1, <1>6, <1>7 DEF Trimmed
<1>10. Needy(q) \ {s} = Needy(r) \ {s}
  BY <1>4 DEF Needy
<1>11. q \in Once({s}, n, OpenAfter(r, p, open))
  BY <1>1, <1>3, <1>4, <1>8, <1>9, <1>10 DEF Once
<1> QED BY <1>11 DEF q

\* The messages of open that have bytes to be scheduled
Scheduled(open) == {m \in open : MsgSize[m] > TotalUnsched(m)}
Covered(n, open) == n = NumToKeepGranted \/ n <= Cardinality(Scheduled(open))

LEMMA ScheduledSubset ==
  ASSUME NEW open, open \subseteq Msg
  PROVE  IsFiniteSet(Scheduled(open))
<1>1. Scheduled(open) \subseteq Msg
  BY DEF Scheduled
<1> QED BY <1>1, FiniteAssumption, FS_Subset

LEMMA ScheduledFinite ==
  ASSUME NEW n, NEW open, NEW r \in Once({}, n, open)
  PROVE  IsFiniteSet(Scheduled(open))
<1>1. open \subseteq Msg
  BY OnceData DEF OpenOf
<1> QED BY <1>1, ScheduledSubset

\* Every sender in the list waits for a grant of a message of its own.
LEMMA ListCovered ==
  ASSUME NEW n, NEW open, NEW r \in Once({}, n, open)
  PROVE  Len(r.senders) <= Cardinality(Scheduled(open)) /\ Len(r.senders) \in Nat
<1> DEFINE f == r.senders
           D == 1 .. Len(f)
           top == [i \in D |-> Top(r, f[i])]
<1>1. /\ r \in Filers /\ f \in Seq(Host) /\ Distinct(f) /\ Elements(f) \subseteq Needy(r)
      /\ OpenOf(r) = open /\ Trimmed(r.inbnd)
  BY OnceData
<1>2. Len(f) \in Nat /\ DOMAIN f = D
  BY <1>1
<1> HIDE DEF f
<1>3. \A i \in D : /\ Top(r, f[i]) \in Scheduled(open) /\ MsgSrc[Top(r, f[i])] = f[i]
  <2> TAKE i \in D
  <2> DEFINE s == f[i]
             m == Top(r, s)
  <2>1. s \in Needy(r)
    BY <1>1, <1>2 DEF Elements
  <2> HIDE DEF s
  <2>2. m \in Msg /\ MsgSrc[m] = s /\ r.inbnd[m].bytesToGrant > 0 /\ r.inbnd[m].open
    BY <1>1, <2>1, NeedyTop
  <2> HIDE DEF m
  <2>3. m \in open /\ MsgSize[m] > TotalUnsched(m)
    BY <1>1, <2>2 DEF OpenOf, Trimmed
  <2>4. m \in Scheduled(open)
    BY <2>3 DEF Scheduled
  <2> QED BY <2>2, <2>4 DEF m, s
<1>4. \A i, j \in D : top[i] = top[j] => i = j
  BY <1>1, <1>2, <1>3 DEF Distinct
<1>5. top \in Injection(D, Scheduled(open))
  <2>1. top \in [D -> Scheduled(open)]
    BY <1>3
  <2> HIDE DEF top, D
  <2> QED BY <1>4, <2>1 DEF Injection, IsInjective
<1>6. IsFiniteSet(Scheduled(open))
  <2>1. Scheduled(open) \subseteq Msg
    BY <1>1 DEF Scheduled, OpenOf
  <2> QED BY <2>1, FiniteAssumption, FS_Subset
<1> HIDE DEF top
<1>7. Cardinality(D) <= Cardinality(Scheduled(open))
  BY <1>5, <1>6, FS_Injection
<1>8. Cardinality(D) = Len(f)
  <2> DEFINE a == Len(f)
  <2>1. a \in Int /\ 1 \in Int /\ a \in Nat
    BY <1>2
  <2> HIDE DEF a
  <2>2. Cardinality(1 .. a) = IF 1 > a THEN 0 ELSE a - 1 + 1
    BY <2>1, FS_Interval
  <2>3. Cardinality(1 .. a) = a
    BY <2>1, <2>2
  <2> QED BY <2>3 DEF a
<1> QED BY <1>2, <1>7, <1>8 DEF f

-----------------------------------------------------------------------------
(* The overcommitment.                                                      *)

\* A receiver with any number of senders kept granted that its open messages allow
Balanced ==
  {r \in Receivers : /\ r \in Once({}, r.numToGrant, OpenOf(r))
                     /\ Covered(r.numToGrant, OpenOf(r))}

LEMMA BalancedOf ==
  ASSUME NEW n, NEW open, NEW r \in Once({}, n, open), Covered(n, open)
  PROVE  r \in Balanced
BY OnceData DEF Balanced

LEMMA BalancedData ==
  ASSUME NEW r \in Balanced
  PROVE  \E n, open : r \in Once({}, n, open) /\ Covered(n, open)
BY DEF Balanced

\* A bubble: one more sender is kept granted, and one more waits for a grant.
LEMMA BubbleBalanced ==
  ASSUME NEW r0 \in Balanced
  PROVE  HandleBwUtilTimer(r0) \in Balanced
<1>1. PICK n, open : r0 \in Once({}, n, open) /\ Covered(n, open)
  BY BalancedData
<1>2. r0 \in Once({}, n, open)
  BY <1>1
<1> DEFINE q == HandleBwUtilTimer(r0)
           c == Cardinality(Scheduled(open))
           l == Len(r0.senders)
<1>3. IF l > n THEN q \in Once({}, n + 1, open) ELSE q \in Once({}, n, open)
  BY <1>2, OnceBwUtilTimer
<1>4. l <= c /\ l \in Nat /\ n \in Nat /\ c \in Nat
  <2>1. l <= c /\ l \in Nat
    BY <1>2, ListCovered
  <2>2. c \in Nat
    BY <1>2, ScheduledFinite, FS_CardinalityType
  <2> QED BY <1>2, <2>1, <2>2, OnceData
<1>5. Covered(n, open) <=> n = NumToKeepGranted \/ n <= c
  BY DEF Covered
<1>6. Covered(n + 1, open) <=> n + 1 = NumToKeepGranted \/ n + 1 <= c
  BY DEF Covered
<1> HIDE DEF q, c, l
<1>7. CASE l > n
  <2>1. n + 1 <= c
    BY <1>4, <1>7
  <2>2. q \in Once({}, n + 1, open) /\ Covered(n + 1, open)
    BY <1>3, <1>6, <1>7, <2>1
  <2>3. q \in Balanced
    BY <2>2, BalancedOf
  <2> QED BY <2>3 DEF q
<1>8. CASE ~(l > n)
  <2>1. q \in Once({}, n, open)
    BY <1>3, <1>8
  <2>2. q \in Balanced
    BY <1>1, <2>1, BalancedOf
  <2> QED BY <2>2 DEF q
<1> QED BY <1>7, <1>8

\* handleMesgRecvCompletionEvent: as many senders fewer are kept granted as there are
\* scheduled messages fewer.
LEMMA CompletionBalanced ==
  ASSUME NEW n, NEW open, Covered(n, open), NEW p \in Pkt, NEW r,
         NEW q \in Once({MsgSrc[p.msg]}, n, OpenAfter(r, p, open)), open \subseteq Msg
  PROVE  \E k : /\ HandleMesgRecvCompletion(q, p.msg)
                      \in Once({MsgSrc[p.msg]}, k, OpenAfter(r, p, open))
                /\ Covered(k, OpenAfter(r, p, open))
<1> DEFINE m == p.msg
           s == MsgSrc[m]
           after == OpenAfter(r, p, open)
           w == HandleMesgRecvCompletion(q, m)
           a == Cardinality(Scheduled(open))
           b == Cardinality(Scheduled(after))
           some == MsgSize[m] > TotalUnsched(m)
           K == NumToKeepGranted
<1>1. /\ q \in Receivers /\ n \in Nat /\ q.numToGrant = n /\ OpenOf(q) = after
      /\ q \in Once({s}, n, after)
  <2> HIDE DEF s, after, m
  <2>1. q \in Once({s}, n, after)
    BY DEF s, after, m
  <2> QED BY <2>1, OnceData
<1>2. m \in Msg /\ K \in Nat /\ K > 0
  BY SchedAssumption DEF Pkt
<1>3. after \subseteq Msg /\ (m \in after <=> q.inbnd[m].open)
  BY <1>1, <1>2 DEF OpenOf
<1>4. after = open \ {m} \/ after = open \cup {m}
  BY DEF OpenAfter
<1> HIDE DEF m, s, after
<1>5. IsFiniteSet(Scheduled(open)) /\ IsFiniteSet(Scheduled(after)) /\ a \in Nat /\ b \in Nat
  BY <1>3, ScheduledSubset, FS_CardinalityType
<1>6. \/ m \in after /\ a <= b
      \/ m \notin after /\ ~some /\ a <= b
      \/ m \notin after /\ some /\ a <= b + 1
  <2>1. CASE m \in after \/ ~some
    <3>1. Scheduled(open) \subseteq Scheduled(after)
      BY <1>4, <2>1 DEF Scheduled
    <3>2. a <= b
      BY <1>5, <3>1, FS_Subset
    <3> QED BY <2>1, <3>2
  <2>2. CASE m \notin after /\ some
    <3> DEFINE B == Scheduled(after)
    <3>1. Scheduled(open) \subseteq B \cup {m}
      BY <1>4 DEF Scheduled
    <3>2. m \notin B
      BY <2>2 DEF Scheduled
    <3> HIDE DEF B
    <3>3. IsFiniteSet(B)
      BY <1>5 DEF B
    <3>4. IsFiniteSet(B \cup {m}) /\ Cardinality(B \cup {m}) = Cardinality(B) + 1
      BY <3>2, <3>3, FS_AddElement
    <3>5. a <= Cardinality(B \cup {m})
      BY <3>1, <3>4, FS_Subset
    <3> QED BY <2>2, <3>4, <3>5 DEF B
  <2> QED BY <2>1, <2>2
<1>7. n = K \/ n <= a
  BY DEF Covered
<1>8. \A k : k = K \/ k <= b => Covered(k, after)
  BY DEF Covered
<1> HIDE DEF a, b, some, K
<1>9. CASE m \notin after /\ some /\ n # K
  <2> DEFINE k == n - 1
  <2>1. k <= b /\ k \in Nat
    <3>1. n >= K
      BY <1>1 DEF Receivers, Widths, K
    <3> QED BY <1>1, <1>2, <1>5, <1>6, <1>7, <1>9, <3>1
  <2>2. w = [q EXCEPT !.numToGrant = k]
    <3>1. w = [q EXCEPT !.numToGrant = @ - 1]
      BY <1>1, <1>3, <1>9 DEF HandleMesgRecvCompletion, some, K
    <3> HIDE DEF w
    <3> QED BY <1>1, <3>1 DEF Receivers
  <2>3. k \in Widths
    <3>1. n >= K
      BY <1>1 DEF Receivers, Widths, K
    <3> QED BY <1>1, <1>2, <1>9, <2>1, <3>1 DEF Widths, K
  <2> HIDE DEF w, k
  <2>4. w \in Receivers /\ SameBytes(q, w) /\ w.senders = q.senders /\ w.numToGrant = k
    BY <1>1, <2>2, <2>3 DEF Receivers, SameBytes
  <2>5. w \in Once({s}, k, after)
    BY <1>1, <2>4, OnceSame
  <2>6. Covered(k, after)
    BY <1>8, <2>1
  <2> QED BY <2>5, <2>6 DEF m, s, after, w
<1>10. CASE ~(m \notin after /\ some /\ n # K)
  <2>1. w = q
    BY <1>1, <1>3, <1>10 DEF HandleMesgRecvCompletion, some, K
  <2>2. n = K \/ n <= b
    BY <1>1, <1>5, <1>6, <1>7, <1>10
  <2>3. w \in Once({s}, n, after) /\ Covered(n, after)
    BY <1>1, <1>8, <2>1, <2>2
  <2> QED BY <2>3 DEF m, s, after, w
<1> QED BY <1>9, <1>10

\* A packet arrives.
LEMMA ArrivalBalanced ==
  ASSUME NEW r0 \in Balanced, NEW p \in Pkt
  PROVE  ProcessReceivedPkt(r0, p) \in Balanced
<1> DEFINE s == MsgSrc[p.msg]
           r1 == RecordOversub(r0)
           old == [s |-> s, sInd |-> RemovedFrom(r1, s), headIdx |-> r1.headIdx,
                   numSenders |-> Len(r1.senders), numToGrant |-> r1.numToGrant]
           out == RemoveSender(r1, s)
           r2 == HandleInboundPkt(out, p)
           r3 == HandleMesgRecvCompletion(r2, p.msg)
           at == InsPoint(r2, s)
           cur == [at EXCEPT !.numToGrant = r3.numToGrant]
           r4 == HandlePktArrival(r3, old, cur)
           r5 == MarkOversub(r4)
           q == SetBwTimer(r5)
<1>1. s \in Host /\ p.msg \in Msg
  BY MsgAssumption DEF Pkt
<1>2. ProcessReceivedPkt(r0, p) = q
  BY DEF ProcessReceivedPkt
<1> HIDE DEF q
<1>3. PICK n, open : r0 \in Once({}, n, open) /\ Covered(n, open)
  BY BalancedData
<1>4. r0 \in Receivers /\ r0.numToGrant = n /\ open \subseteq Msg
  <2>1. r0 \in Receivers /\ r0.numToGrant = n /\ OpenOf(r0) = open
    BY <1>3, OnceData
  <2> QED BY <2>1 DEF OpenOf
<1>5. r1 \in Once({}, n, open)
  <2> DEFINE none == [r0 EXCEPT !.oversub = "none"]
             cond == r0.oversub = "in"
             o == Require(r0, cond, "oversub: not marked")
  <2>1. none \in Once({}, n, open)
    <3>1. /\ none \in Receivers /\ SameBytes(r0, none) /\ none.senders = r0.senders
          /\ none.numToGrant = n
      BY <1>4 DEF Receivers, SameBytes
    <3> HIDE DEF none
    <3> QED BY <1>3, <3>1, OnceSame
  <2>2. o \in Once({}, n, open)
    <3> HIDE DEF cond
    <3> QED BY <1>3, OnceRequire DEF Labels
  <2>3. r1 = o \/ r1 = none \/ r1 = r0
    BY DEF RecordOversub
  <2> HIDE DEF o, none, r1
  <2> QED BY <1>3, <2>1, <2>2, <2>3
<1> HIDE DEF r1
<1>6. old \in Places
  BY <1>1, <1>5, OnceData, OldType
<1> HIDE DEF old
<1>7. out \in Once({s}, n, open)
  <2> HIDE DEF s
  <2> QED BY <1>1, <1>5, OnceRemove
<1> DEFINE after == OpenAfter(out, p, open)
<1>8. r2 \in Once({s}, n, after)
  <2> HIDE DEF out
  <2> QED BY <1>7, OnceInbound
<1> HIDE DEF r2
<1>9. r2 \in Receivers
  <2> HIDE DEF s, after
  <2> QED BY <1>8, OnceData
<1>10. PICK k : r3 \in Once({s}, k, after) /\ Covered(k, after)
  <2> HIDE DEF out
  <2> QED BY <1>3, <1>4, <1>8, CompletionBalanced
<1> HIDE DEF r3, after, out
<1>11. cur \in Places /\ cur.s = s
  <2> HIDE DEF s
  <2>1. at \in Places /\ at.s = s
    BY <1>1, <1>9, InsPointType
  <2>2. r3.numToGrant \in Nat
    BY <1>10, OnceData
  <2> HIDE DEF at
  <2> QED BY <2>1, <2>2 DEF Places
<1> HIDE DEF cur, s
<1>12. r4 \in Once({}, k, after)
  BY <1>6, <1>10, <1>11, OncePktArrival
<1> HIDE DEF r4
<1>13. r4 \in Receivers /\ r4.numToGrant = k
  BY <1>12, OnceData
<1>14. r5 \in Once({}, k, after)
  <2> DEFINE none == [r4 EXCEPT !.oversub = "none"]
             over == [r4 EXCEPT !.oversub = "in"]
             cond == r4.oversub # "ended"
             o == Require(over, cond, "oversub: not recorded")
  <2>1. none \in Once({}, k, after)
    <3>1. /\ none \in Receivers /\ SameBytes(r4, none) /\ none.senders = r4.senders
          /\ none.numToGrant = k
      BY <1>13 DEF Receivers, SameBytes
    <3> HIDE DEF none
    <3> QED BY <1>12, <3>1, OnceSame
  <2>2. over \in Once({}, k, after)
    <3>1. /\ over \in Receivers /\ SameBytes(r4, over) /\ over.senders = r4.senders
          /\ over.numToGrant = k
      BY <1>13 DEF Receivers, SameBytes
    <3> HIDE DEF over
    <3> QED BY <1>12, <3>1, OnceSame
  <2>3. o \in Once({}, k, after)
    <3> HIDE DEF cond, over
    <3> QED BY <2>2, OnceRequire DEF Labels
  <2>4. r5 = none \/ r5 = o
    BY DEF MarkOversub
  <2> HIDE DEF none, o, r5
  <2> QED BY <2>1, <2>3, <2>4
<1> HIDE DEF r5
<1>15. q \in Once({}, k, after)
  <2> DEFINE b == LinkCheck /\ r5.senders # <<>>
  <2>1. b \in BOOLEAN
    OBVIOUS
  <2>2. r5 \in Receivers /\ r5.numToGrant = k
    BY <1>14, OnceData
  <2>3. q = [r5 EXCEPT !.bwTimer = b]
    BY DEF q, SetBwTimer
  <2> HIDE DEF b
  <2>4. q \in Receivers /\ SameBytes(r5, q) /\ q.senders = r5.senders /\ q.numToGrant = k
    BY <2>1, <2>2, <2>3 DEF Receivers, SameBytes
  <2> QED BY <1>14, <2>4, OnceSame
<1>16. q \in Balanced
  BY <1>10, <1>15, BalancedOf
<1> QED BY <1>2, <1>16

\* A grant timer fires.
LEMMA TimerBalanced ==
  ASSUME NEW r0 \in Balanced, NEW s \in Host
  PROVE  ProcessGrantTimer(r0, s) \in Balanced
<1>1. PICK n, open : r0 \in Once({}, n, open) /\ Covered(n, open)
  BY BalancedData
<1>2. ProcessGrantTimer(r0, s) \in Once({}, n, open)
  BY <1>1, OnceGrantTimer
<1> QED BY <1>1, <1>2, BalancedOf

LEMMA LeaveBalanced ==
  ASSUME NEW r \in Balanced
  PROVE  [r EXCEPT !.grants = {}] \in Balanced
<1> DEFINE q == [r EXCEPT !.grants = {}]
<1>1. PICK n, open : r \in Once({}, n, open) /\ Covered(n, open)
  BY BalancedData
<1>2. /\ r \in Filers /\ r \in Receivers /\ r.numToGrant = n /\ OpenOf(r) = open
      /\ Trimmed(r.inbnd) /\ Distinct(r.senders) /\ Elements(r.senders) \subseteq Needy(r)
  BY <1>1, OnceData
<1>3. /\ q.inbnd = r.inbnd /\ q.toGrant = r.toGrant /\ q.senders = r.senders
      /\ q.numToGrant = n
  BY <1>2 DEF Receivers
<1>4. q \in Filers
  BY <1>2, LeaveFiles
<1> HIDE DEF q
<1>5. OpenOf(q) = open /\ Needy(q) = Needy(r)
  BY <1>2, <1>3 DEF OpenOf, Needy
<1>6. q \in Once({}, n, open)
  BY <1>2, <1>3, <1>4, <1>5 DEF Once
<1>7. q \in Balanced
  BY <1>1, <1>6, BalancedOf
<1> QED BY <1>7 DEF q

OInv == TInv /\ rx \in Balanced

LEMMA InitOInv ==
  ASSUME Init
  PROVE  OInv
<1>1. TInv
  BY InitTInv
<1>2. /\ rx \in Filers /\ rx.senders = <<>> /\ rx.numToGrant = NumToKeepGranted
      /\ \A m \in Msg : rx.inbnd[m] = NoMessage
  BY <1>1 DEF TInv, Init, InitReceiver
<1>3. Trimmed(rx.inbnd)
  BY <1>2 DEF Trimmed, NoMessage
<1>4. Distinct(rx.senders) /\ Elements(rx.senders) \subseteq Needy(rx)
  BY <1>2 DEF Distinct, Elements
<1>5. rx \in Once({}, NumToKeepGranted, OpenOf(rx))
  BY <1>2, <1>3, <1>4 DEF Once
<1>6. Covered(NumToKeepGranted, OpenOf(rx))
  BY DEF Covered
<1>7. rx \in Balanced
  BY <1>5, <1>6, BalancedOf
<1> QED BY <1>1, <1>7 DEF OInv

LEMMA NextOInv ==
  ASSUME OInv, [Next]_vars
  PROVE  OInv'
<1>1. TInv' /\ rx \in Balanced /\ toArrive \in SUBSET Pkt
  BY NextTInv DEF OInv, TInv
<1>2. ASSUME NEW p \in toArrive, PktArrives(p)
      PROVE  rx' \in Balanced
  <2> DEFINE r == ProcessReceivedPkt(rx, p)
  <2>1. r \in Balanced
    BY <1>1, ArrivalBalanced
  <2>2. rx' = [r EXCEPT !.grants = {}]
    BY <1>2 DEF PktArrives
  <2> HIDE DEF r
  <2> QED BY <2>1, <2>2, LeaveBalanced
<1>3. ASSUME NEW s \in Host, GrantTimer(s)
      PROVE  rx' \in Balanced
  <2>1. ProcessGrantTimer(rx, s) \in Balanced
    BY <1>1, TimerBalanced
  <2> QED BY <1>3, <2>1, LeaveBalanced DEF GrantTimer, Leave
<1>4. ASSUME BwUtilTimer
      PROVE  rx' \in Balanced
  <2>1. HandleBwUtilTimer(rx) \in Balanced
    BY <1>1, BubbleBalanced
  <2> QED BY <1>4, <2>1, LeaveBalanced DEF BwUtilTimer, Leave
<1>5. ASSUME UNCHANGED vars
      PROVE  rx' \in Balanced
  BY <1>1, <1>5 DEF vars
<1> QED BY <1>1, <1>2, <1>3, <1>4, <1>5 DEF Next, OInv

\* The overcommitment that the bandwidth check adds is given back, whatever the
\* messages and however the timers and packets are interleaved: the senders kept
\* granted beyond numSendersToKeepGranted never outnumber the incomplete scheduled
\* messages, so that none is left when those have been received.
THEOREM OvercommitIsReturned == Spec => []OvercommitReturned
<1>1. Init => OInv
  BY InitOInv
<1>2. OInv /\ [Next]_vars => OInv'
  BY NextOInv
<1>3. OInv => OvercommitReturned
  <2> SUFFICES ASSUME OInv
               PROVE  OvercommitReturned
    OBVIOUS
  <2> DEFINE n == rx.numToGrant
             scheduled == {m \in Msg : rx.inbnd[m].open /\ MsgSize[m] > TotalUnsched(m)}
             c == Cardinality(scheduled)
  <2>1. n \in Nat /\ n >= NumToKeepGranted /\ Covered(n, OpenOf(rx))
    BY DEF OInv, Balanced, Receivers, Widths
  <2>2. scheduled = Scheduled(OpenOf(rx))
    BY DEF Scheduled, OpenOf
  <2> HIDE DEF scheduled
  <2>3. IsFiniteSet(scheduled)
    BY <2>2, ScheduledSubset DEF OpenOf
  <2>4. c \in Nat
    BY <2>3, FS_CardinalityType
  <2>5. n = NumToKeepGranted \/ n <= c
    BY <2>1, <2>2 DEF Covered
  <2>6. OvercommitReturned <=> n \in NumToKeepGranted .. c \/ n = NumToKeepGranted
    BY DEF OvercommitReturned, scheduled
  <2> HIDE DEF n, c
  <2>7. NumToKeepGranted \in Nat
    BY SchedAssumption
  <2> QED BY <2>1, <2>4, <2>5, <2>6, <2>7
<1> QED BY <1>1, <1>2, <1>3, PTL DEF Spec

-----------------------------------------------------------------------------
(* The best messages are granted.                                           *)

\* The bytes granted to a message in an event that graded its grants
LEMMA GradedLen ==
  ASSUME NEW r \in Receivers, NEW b, Grading(r, b), NEW k \in Msg
  PROVE  r.inbnd[k].bytesToGrant + SumLen({p \in Ours(r) : p.msg = k}) = b[k]
<1> DEFINE S == {p \in Ours(r) : p.msg = k}
<1>1. ASSUME NEW T, IsFiniteSet(T), \A p \in T : p.len \in Nat
      PROVE  SumLen(T) = Total(Lens(T), T)
  BY <1>1, LenSum DEF SumLen
<1>2. CASE \A g \in r.grants : g.msg # k
  <2>1. S = {}
    BY <1>2 DEF Ours, SchedPktFor
  <2>2. SumLen({}) = Total(Lens({}), {})
    BY <1>1, FS_EmptySet
  <2>3. SumLen(S) = 0
    BY <2>1, <2>2, TotalEmpty
  <2>4. r.inbnd[k].bytesToGrant = b[k] /\ b[k] \in Nat
    BY <1>2 DEF Grading
  <2> HIDE DEF S
  <2>5. r.inbnd[k].bytesToGrant + SumLen(S) = b[k]
    BY <2>3, <2>4
  <2> QED BY <2>5 DEF S
<1>3. CASE \E g \in r.grants : g.msg = k
  <2>1. PICK g \in r.grants : g.msg = k
    BY <1>3
  <2> DEFINE p == SchedPktFor(g)
  <2>2. S = {p}
    BY <2>1 DEF Grading, Ours, SchedPktFor
  <2>3. g.len \in Nat /\ r.inbnd[k].bytesToGrant + g.len = b[k]
    BY <2>1 DEF Grading
  <2>4. p.len = g.len
    BY DEF SchedPktFor
  <2> HIDE DEF p, S
  <2>5. IsFiniteSet({p})
    BY FS_Singleton
  <2>6. SumLen({p}) = Total(Lens({p}), {p})
    BY <1>1, <2>3, <2>4, <2>5
  <2>7. Lens({p})[p] = g.len
    BY <2>4 DEF Lens
  <2>8. Total(Lens({p}), {p}) = g.len
    BY <2>3, <2>7, TotalSingle
  <2>9. SumLen(S) = g.len
    BY <2>2, <2>6, <2>8
  <2>10. r.inbnd[k].bytesToGrant + SumLen(S) = b[k]
    BY <2>3, <2>9
  <2> QED BY <2>10 DEF S
<1> QED BY <1>2, <1>3

\* An event that grants the bytes of q, when none of these packets is to arrive already.
Ends(q) ==
  /\ q \in Lined({}, NumToKeepGranted) /\ \E b : Grading(q, b)
  /\ rx' = [q EXCEPT !.grants = {}] /\ toArrive' \ toArrive = Ours(q)

\* The sums of GrantsGoToTheBest are the bytes that waited before the grants.
LEMMA EndsBest ==
  ASSUME NEW q, Ends(q)
  PROVE  LET granted == toArrive' \ toArrive
             waiting == {k \in Msg : rx'.inbnd[k].bytesToGrant > 0}
             key(k) == <<rx'.inbnd[k].bytesToGrant
                           + SumLen({p \in granted : p.msg = k}), MsgSize[k], k>>
         IN \A p \in granted :
              LET ahead == {MsgSrc[k] : k \in {x \in waiting : Precedes(key(x), key(p.msg))}}
              IN MsgSrc[p.msg] \notin ahead /\ Cardinality(ahead) < rx'.numToGrant
<1> DEFINE granted == toArrive' \ toArrive
           waiting == {k \in Msg : rx'.inbnd[k].bytesToGrant > 0}
           key(k) == <<rx'.inbnd[k].bytesToGrant
                         + SumLen({p \in granted : p.msg = k}), MsgSize[k], k>>
           ahead(m) == {MsgSrc[k] : k \in {x \in waiting : Precedes(key(x), key(m))}}
<1>1. PICK b : Grading(q, b)
  BY DEF Ends
<1>2. q \in Receivers /\ q.numToGrant = NumToKeepGranted
  BY DEF Ends, Lined, Filers
<1>3. rx'.inbnd = q.inbnd /\ rx'.numToGrant = NumToKeepGranted
  BY <1>2 DEF Ends, Receivers
<1>4. granted = Ours(q)
  BY DEF Ends
<1>5. waiting = Ungranted(q)
  BY <1>3 DEF Ungranted
<1>6. \A k \in Msg : key(k) = <<b[k], MsgSize[k], k>>
  BY <1>1, <1>2, <1>3, <1>4, GradedLen
<1> HIDE DEF key, waiting
<1>7. ASSUME NEW m \in Msg
      PROVE  ahead(m) = AheadOf(q, b, m)
  <2>1. \A x \in Ungranted(q) : x \in Msg
    BY DEF Ungranted
  <2>2. \A x \in Ungranted(q) : Precedes(key(x), key(m)) <=> Sooner(b, x, m)
    BY <1>6, <2>1 DEF Sooner, Precedes
  <2> QED BY <1>5, <2>2 DEF AheadOf
<1>8. ASSUME NEW p \in granted
      PROVE  MsgSrc[p.msg] \notin ahead(p.msg) /\ Cardinality(ahead(p.msg)) < rx'.numToGrant
  <2>1. PICK g \in q.grants : p = SchedPktFor(g)
    BY <1>4 DEF Ours
  <2>2. p.msg = g.msg
    BY <2>1 DEF SchedPktFor
  <2>3. p.msg \in Msg /\ Foremost(q, b, p.msg)
    BY <1>1, <2>2 DEF Grading
  <2>4. ahead(p.msg) = AheadOf(q, b, p.msg)
    BY <1>7, <2>3
  <2> HIDE DEF ahead
  <2> QED BY <1>3, <2>3, <2>4 DEF Foremost
<1> QED BY <1>8 DEF key, waiting

\* Shortest remaining first, with overcommitment: whatever the order of packets and
\* timers, sendAndScheduleGrant is called for the best message of a sender that is among
\* the first of the list, and handleGrantSentEvent passes a slot on only after the last
\* grant of a message, so that the grants of an event are for the best messages of the
\* best senders although the list changes between them.
THEOREM BestAreGranted ==
  ASSUME Countable, ~LinkCheck
  PROVE  Spec => GrantsGoToTheBest
<1>1. ASSUME LInv, [Next]_vars
      PROVE  UNCHANGED vars \/ \E q : Ends(q)
  <2>1. /\ rx \in Sound(toArrive) /\ rx.grants = {} /\ rx \in Lined({}, NumToKeepGranted)
        /\ Marked(rx)
    BY <1>1 DEF LInv, DInv
  <2>2. ASSUME NEW p \in toArrive, PktArrives(p)
        PROVE  \E q : Ends(q)
    <3> DEFINE q == ProcessReceivedPkt(rx, p)
    <3>1. q \in Lined({}, NumToKeepGranted) /\ q \in Sound(toArrive \ {p})
      BY <2>1, ArrivalLined, ArrivalSound
    <3>2. PICK b : /\ Grading(q, b)
                   /\ p.type = "SCHED_DATA" => p.first < MsgSize[p.msg] - b[p.msg]
      <4>1. PICK r : Answers(rx, p, r, q)
        BY <2>1, ArrivalGraded
      <4>2. p.msg \in Msg
        BY <2>1, PreviousData
      <4>3. Waits(r)[p.msg] = r.inbnd[p.msg].bytesToGrant
        BY <4>2 DEF Waits
      <4> HIDE DEF q
      <4> QED BY <4>1, <4>3 DEF Answers, NotToGrant
    <3>3. rx' = [q EXCEPT !.grants = {}] /\ toArrive' = (toArrive \ {p}) \cup Ours(q)
      BY <2>2 DEF PktArrives, Ours
    <3> HIDE DEF q
    <3>4. (toArrive \ {p}) \cap Ours(q) = {}
      BY <3>1 DEF Sound
    <3>5. p \notin Ours(q)
      <4> SUFFICES ASSUME p \in Ours(q)
                   PROVE  FALSE
        OBVIOUS
      <4>1. PICK g \in q.grants : p = SchedPktFor(g)
        BY DEF Ours
      <4>2. p.msg = g.msg /\ p.first = g.first /\ p.type = "SCHED_DATA"
        BY <4>1 DEF SchedPktFor
      <4>3. g.msg \in Msg /\ g.first = MsgSize[g.msg] - b[g.msg] /\ b \in [Msg -> Nat]
        BY <3>2 DEF Grading
      <4>4. MsgSize[g.msg] \in Nat /\ b[g.msg] \in Nat
        BY <4>3, MsgAssumption
      <4>5. MsgSize[g.msg] - b[g.msg] < MsgSize[g.msg] - b[g.msg]
        BY <3>2, <4>2, <4>3
      <4> QED BY <4>4, <4>5
    <3>6. toArrive' \ toArrive = Ours(q)
      BY <3>3, <3>4, <3>5
    <3>7. Ends(q)
      BY <3>1, <3>2, <3>3, <3>6 DEF Ends
    <3> QED BY <3>7
  <2>3. ASSUME NEW s \in Host, GrantTimer(s)
        PROVE  \E q : Ends(q)
    <3> DEFINE q == ProcessGrantTimer(rx, s)
               A == toArrive
    <3>1. q \in Lined({}, NumToKeepGranted)
      BY <2>1, ProcessGrantTimerLined
    <3>2. \E b : Grading(q, b)
      BY <2>1, TimerGraded
    <3>3. rx' = [q EXCEPT !.grants = {}] /\ toArrive' = A \cup Ours(q)
      BY <2>3 DEF GrantTimer, Leave, Ours
    <3>4. q \in Sound(A)
      <4> DEFINE G == Sound(A)
      <4>1. Closed(G) /\ rx \in G
        BY <2>1, SoundClosed
      <4> HIDE DEF G, A
      <4>2. ProcessGrantTimer(rx, s) \in G
        BY <4>1, ProcessGrantTimerIn
      <4> QED BY <4>2 DEF G
    <3> HIDE DEF q
    <3>5. A \cap Ours(q) = {}
      BY <3>4 DEF Sound
    <3>6. toArrive' \ toArrive = Ours(q)
      BY <3>3, <3>5
    <3>7. Ends(q)
      BY <3>1, <3>2, <3>3, <3>6 DEF Ends
    <3> QED BY <3>7
  <2>4. ~BwUtilTimer
    BY <2>1 DEF BwUtilTimer, Lined
  <2> QED BY <1>1, <2>2, <2>3, <2>4 DEF Next
<1>2. LInv /\ [Next]_vars =>
        [LET granted == toArrive' \ toArrive
             waiting == {k \in Msg : rx'.inbnd[k].bytesToGrant > 0}
             key(k) == <<rx'.inbnd[k].bytesToGrant
                           + SumLen({p \in granted : p.msg = k}), MsgSize[k], k>>
         IN \A p \in granted :
              LET ahead == {MsgSrc[k] : k \in {x \in waiting : Precedes(key(x), key(p.msg))}}
              IN MsgSrc[p.msg] \notin ahead /\ Cardinality(ahead) < rx'.numToGrant]_vars
  BY <1>1, EndsBest
<1> QED BY <1>2, AlwaysLInv, PTL DEF Spec, GrantsGoToTheBest

=============================================================================
