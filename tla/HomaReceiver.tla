---------------------------- MODULE HomaReceiver ----------------------------
(***************************************************************************)
(* One receiver running HomaScheduler, with senders that do what a sender   *)
(* must: every message is started at some time, every grant is answered     *)
(* with the packet it asks for, and the network delivers all packets, in    *)
(* any order.  That the senders of HomaSender keep this promise is part of  *)
(* HomaTransport.                                                           *)
(***************************************************************************)
EXTENDS HomaScheduler

VARIABLES
  rx,        \* the receiver, a record of HomaScheduler
  toArrive   \* the packets that were or will be sent and have not arrived

vars == <<rx, toArrive>>

Running == rx.failed = {}      \* a failed assertion ends the simulation

\* The state in which an event leaves the receiver: its grants are gone, and
\* each will bring a scheduled packet.
Leave(r) ==
  /\ rx' = [r EXCEPT !.grants = {}]
  /\ toArrive' = toArrive \cup {SchedPktFor(g) : g \in r.grants}

Init ==
  /\ rx = InitReceiver
  /\ toArrive = UNION {ReqUnschedDataPkts(m) : m \in Msg}

\* processReceivedPkt.
PktArrives(p) ==
  LET r == ProcessReceivedPkt(rx, p)
  IN /\ Running
     /\ p \in toArrive
     /\ rx' = [r EXCEPT !.grants = {}]
     /\ toArrive' = (toArrive \ {p}) \cup {SchedPktFor(g) : g \in r.grants}

\* grantTimer of sender s fires.
GrantTimer(s) ==
  /\ Running
  /\ rx.timer[s]
  /\ Leave(ProcessGrantTimer(rx, s))

\* schedBwUtilTimer fires.
BwUtilTimer ==
  /\ Running
  /\ rx.bwTimer
  /\ Leave(HandleBwUtilTimer(rx))

Next ==
  \/ \E p \in toArrive : PktArrives(p)
  \/ \E s \in Host : GrantTimer(s)
  \/ BwUtilTimer

\* The simulation kernel always executes some event while there is one: weak
\* fairness of Next, whose ENABLED condition is EventPending.
EventPending == Running /\ (toArrive # {} \/ rx.bwTimer \/ \E s \in Host : rx.timer[s])

Fairness == []<>~EventPending \/ []<><<Next>>_vars

Spec == Init /\ [][Next]_vars
FairSpec == Spec /\ Fairness

-----------------------------------------------------------------------------
(* Properties.                                                              *)

\* Type correctness of the receiver.
TypeOK ==
  /\ rx.inbnd \in [Msg -> [open : BOOLEAN, bytesToGrant : Nat, bytesToReceive : Nat,
                           totalBytesInFlight : 0 .. Word - 1,
                           inflightGrants : SUBSET (Nat \X Nat)]]
  /\ rx.toGrant \in [Host -> Seq(Msg)]
  /\ rx.timer \in [Host -> BOOLEAN]
  /\ rx.lastPrio \in [Host -> 0 .. AllPrio]
  /\ rx.lastIdx \in [Host -> Nat]
  /\ rx.senders \in Seq(Host)
  /\ rx.headIdx \in Nat
  /\ rx.numToGrant \in Nat
  /\ rx.oversub \in {"in", "ended", "none"}
  /\ rx.inflightUnsched \in Int /\ rx.inflightSched \in Int
  /\ rx.delivered \in [Msg -> Nat]
  /\ toArrive \subseteq Pkt

\* No assertion of ReceiveScheduler, SenderState, SchedSenders or
\* InboundMessage fails and none of their errors is thrown.
NoAssertFails == rx.failed = {}

\* Between events the list holds exactly the senders with bytes to grant, each
\* once, best top message first, and so does mesgsToGrant of each sender with
\* its messages: the binary searches of SchedSenders depend on it.
ListsExact ==
  /\ \A s \in Host :
       /\ Listed(rx, s) <=> rx.toGrant[s] # <<>>
       /\ {rx.toGrant[s][i] : i \in DOMAIN rx.toGrant[s]} =
            {m \in Msg : MsgSrc[m] = s /\ rx.inbnd[m].bytesToGrant > 0}
       /\ \A i \in 1 .. Len(rx.toGrant[s]) - 1 :
            Better(rx, rx.toGrant[s][i], rx.toGrant[s][i + 1])
  /\ \A i \in 1 .. Len(rx.senders) - 1 :
       Better(rx, Top(rx, rx.senders[i]), Top(rx, rx.senders[i + 1]))

\* The senders kept granted fit into the scheduled priorities (without the
\* bandwidth check), so no two of them share one, and a list that is empty has
\* room to its left, without which the checks of numActiveSenders run from
\* index 0 to 2^32 - 1.
PrioritiesFit ==
  /\ rx.headIdx + Lesser(Len(rx.senders), rx.numToGrant) <= SchedPrios
  /\ rx.senders = <<>> => rx.headIdx > 0

\* No sender that is kept granted is forgotten: its grant timer is set, or the
\* message it is to be granted next has a full window on its way, the arrival
\* of which will grant it.
NoSenderForgotten ==
  \A i \in DOMAIN rx.senders :
    LET s == rx.senders[i]
        m == Top(rx, s)
    IN i <= rx.numToGrant =>
         \/ rx.timer[s]
         \/ /\ rx.inbnd[m].totalBytesInFlight >= MaxOutstanding
            /\ \E p \in toArrive : p.msg = m

SumOf(set) == MapThenSumSet(PktOnWire, set)
InFlight(m) == {p \in toArrive : p.msg = m}
OpenMesgs == {m \in Msg : rx.inbnd[m].open}

\* totalBytesInFlight of a message is the size on the wire of its packets that
\* have still to arrive, "including all different header bytes and ethernet
\* overhead bytes", as its declaration says.  The window depends on it.
MesgInFlightExact ==
  \A m \in OpenMesgs : rx.inbnd[m].totalBytesInFlight = SumOf(InFlight(m))

\* So it is, and the two totals of the receiver are the sums of the same sizes.
InFlightExact ==
  LET expected == {p \in toArrive : p.msg \in OpenMesgs}
  IN /\ MesgInFlightExact
     /\ rx.inflightSched = SumOf({p \in expected : p.type = "SCHED_DATA"})
     /\ rx.inflightUnsched = SumOf({p \in expected : p.type # "SCHED_DATA"})

\* The window: the receiver never has a full window and one more grant of a
\* message on its way, and only the packet that crosses the limit exceeds it.
WindowRespected ==
  \A m \in Msg :
    LET granted == {p \in InFlight(m) : p.type = "SCHED_DATA"}
    IN granted # {} =>
         SumOf(InFlight(m)) < MaxOutstanding + OnWire(GrantMax, SchedHdr)

SumLen(set) == MapThenSumSet(LAMBDA p : p.len, set)
Precedes(a, b) ==
  \/ a[1] < b[1]
  \/ a[1] = b[1] /\ a[2] < b[2]
  \/ a[1] = b[1] /\ a[2] = b[2] /\ a[3] < b[3]

\* Shortest remaining first, with overcommitment: a grant is for the best message
\* of its sender, and its sender is one of the numToGrant whose best messages
\* come first (CompareBytesToGrant) among those that wait for grants.
GrantsGoToTheBest ==
  [][LET granted == toArrive' \ toArrive
         waiting == {k \in Msg : rx'.inbnd[k].bytesToGrant > 0}
         key(k) == <<rx'.inbnd[k].bytesToGrant
                       + SumLen({p \in granted : p.msg = k}), MsgSize[k], k>>
     IN \A p \in granted :
          LET ahead == {MsgSrc[k] : k \in {x \in waiting : Precedes(key(x), key(p.msg))}}
          IN MsgSrc[p.msg] \notin ahead /\ Cardinality(ahead) < rx'.numToGrant]_vars

\* The overcommitment that the bandwidth check adds is given back: more than
\* NumToKeepGranted senders are kept granted only while as many scheduled messages
\* are incomplete.
OvercommitReturned ==
  LET scheduled == {m \in Msg : rx.inbnd[m].open /\ MsgSize[m] > TotalUnsched(m)}
  IN rx.numToGrant \in NumToKeepGranted .. Cardinality(scheduled)
       \/ rx.numToGrant = NumToKeepGranted

\* Every message is handed to the application once, and only when all of its
\* packets have arrived.
DeliveredOnceComplete ==
  \A m \in Msg :
    /\ rx.delivered[m] <= 1
    /\ rx.delivered[m] = 1 => InFlight(m) = {} /\ ~rx.inbnd[m].open

\* Every message is delivered, if no packet is lost and no timer stops.
AllDelivered == <>(\A m \in Msg : rx.delivered[m] = 1)
=============================================================================
