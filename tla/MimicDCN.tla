------------------------------- MODULE MimicDCN -------------------------------
(***************************************************************************)
(* A mimic: the MimicDCN module that stands for the switches of a cluster. *)
(* It loads the traffic that mimics would exchange among themselves and    *)
(* schedules a message for each of its packets; then it asks the model of  *)
(* one direction for the fate of each frame, sends the frame on after the  *)
(* predicted latency, and keeps the congestion state that is one of the    *)
(* features of the next prediction.                                        *)
(*                                                                         *)
(* What an LSTM answers is any of a few latencies or a drop; so the rest   *)
(* of what only feeds it (last packet, EWMA, last prediction) is left out. *)
(* ECN marks and priorities are left out for the same reason.  Time is     *)
(* counted in ticks.                                                       *)
(***************************************************************************)
EXTENDS Integers, Sequences, FiniteSets, FiniteSetsExt

CONSTANTS
    Frames,        \* the frames that may arrive
    Frame,         \* by frame: its gate, source and destination (see FrameType)
    ArpRequests,   \* the frames that hold an ARP request
    Hash,          \* murmur3_32 of each frame's flow, by seed
    TorSeeds, AggSeeds,
    ServersPerTor, NumAggs, NumAggIntfs, NumTors,
    Raw,           \* the latencies a model may answer
    MinLatency, MaxLatency,
    TxTime,        \* how long a frame keeps a channel busy
    BinWindow, LatencyMedian, LatencyVariance, DropThreshold,
    Flows,         \* the inter-mimic flows by direction, in the order of the file
    MaxPayload,    \* max_payload_size
    Steps,         \* what pareto_shifted may return
    MaxTime, MaxFrames, \* bounds: the end of the simulation, frames that arrive
    None

Dirs == {"ing", "egr"}
NumIntGates == NumTors * ServersPerTor
NumExtGates == NumAggs * NumAggIntfs
Ports == 0 .. NumIntGates + NumExtGates - 1
Dropped == -1

\* Bytes 1 to 3 of an address are the cluster, the rack and, times 4, the host
HostByte == 0 .. 4 * ServersPerTor - 1
FrameType == [gate: Ports, srcSubtree: Nat, srcToR: 0 .. NumTors - 1, srcByte3: HostByte,
              destSubtree: Nat, destToR: 0 .. NumTors - 1, destByte3: HostByte]

ASSUME MimicAssumption ==
    /\ ServersPerTor \in Nat \ {0} /\ NumTors \in Nat \ {0}
    /\ NumAggs \in Nat \ {0} /\ NumAggIntfs \in Nat \ {0}
    /\ Frame \in [Frames -> FrameType]
    /\ ArpRequests \subseteq Frames
    /\ Len(AggSeeds) = NumAggs /\ Len(TorSeeds) = NumTors
    /\ \A f \in Frames : /\ \A k \in 1 .. NumTors : Hash[f][TorSeeds[k]] \in Nat
                         /\ \A k \in 1 .. NumAggs : Hash[f][AggSeeds[k]] \in Nat
    /\ Raw \subseteq Nat /\ Steps \subseteq Nat \ {0}
    /\ MinLatency \in Nat /\ MaxLatency \in Nat /\ MinLatency =< MaxLatency
    /\ TxTime \in Nat \ {0}
    /\ BinWindow \in Nat /\ DropThreshold \in Nat
    /\ LatencyMedian \in Nat /\ LatencyVariance \in Nat
    /\ MaxTime \in Nat /\ MaxFrames \in Nat
    /\ None \notin Frames \cup Dirs

\* What the file holds of a flow
FlowType == [start: Nat, end: Nat, bytes: Nat]

ASSUME FlowAssumption ==
    /\ \A dir \in Dirs : Flows[dir] \in Seq(FlowType)
    /\ MaxPayload \in Nat

VARIABLES
    now,      \* simTime
    loading,  \* the direction whose traffic is loaded; None when all is
    clock,    \* current_time of the load
    active,   \* active_flows: a set of positions in the file
    left,     \* at(8) of each flow: the bytes it has left
    count,    \* at(9) of each flow: the messages it was given
    messages, \* the PrescheduledMsgs of both directions
    fired,    \* those whose time has come
    arrived,  \* the frames that arrived, with the time
    delayed,  \* the frames that wait for their latency to pass
    busy,     \* the end of the last transmission on each gate
    sent,     \* what left the mimic
    conges,   \* conges_state_ and the current bin of each direction
    log,      \* the packets of each direction: when, the latency, the state given
    asked     \* the server and rack in the features of the last frame

simVars == <<now, fired, arrived, delayed, busy, sent, conges, log, asked>>
loadVars == <<loading, clock, active, left, count, messages>>
vars == <<simVars, loadVars>>

-----------------------------------------------------------------------------
(* Inter-mimic traffic *)

File(dir) == DOMAIN Flows[dir]
Flow(dir, k) == Flows[dir][k]

\* The flows made active by time t: the first to start later stops the reading,
\* and none is active before the first turn of the loop
Read(dir, t) ==
    {k \in File(dir) : t > 0 /\ \A j \in 1 .. k : Flow(dir, j).start =< t}

\* What goes of the active flows. The heap's front is the flow that ends last,
\* so that none goes before all can.
Expired(dir, flows, t) ==
    IF \A k \in flows : Flow(dir, k).end =< t THEN flows ELSE {}

Lesser(a, b) == IF a < b THEN a ELSE b

\* A mutant: the bytes of a flow are not used up
ScheduleUnaccounted(dir, k, t) ==
    LET payload == Lesser(MaxPayload, left[k])
    IN IF payload = 0 THEN UNCHANGED <<left, count, messages>>
       ELSE /\ messages' = messages \cup
                 {[at |-> t, dir |-> dir, flow |-> k, len |-> payload, n |-> count[k]]}
            /\ count' = [count EXCEPT ![k] = @ + 1]
            /\ UNCHANGED left

\* One message of flow k; none, when it has no bytes left
Schedule(dir, k, t) ==
    LET payload == Lesser(MaxPayload, left[k])
    IN IF payload = 0 THEN UNCHANGED <<left, count, messages>>
       ELSE /\ messages' = messages \cup
                 {[at |-> t, dir |-> dir, flow |-> k, len |-> payload, n |-> count[k]]}
            /\ left' = [left EXCEPT ![k] = @ - payload]
            /\ count' = [count EXCEPT ![k] = @ + 1]

\* One turn of the loop of loadAndScheduleInterMimicTraffic
LoadStep(dir, step) ==
    /\ loading = dir
    /\ Read(dir, clock) # File(dir) \/ active # {}
    /\ clock' = clock + step
    /\ LET flows == active \cup (Read(dir, clock') \ Read(dir, clock))
           kept == flows \ Expired(dir, flows, clock')
       IN /\ active' = kept
          /\ IF kept = {} THEN UNCHANGED <<left, count, messages>>
             ELSE \E k \in kept : Schedule(dir, k, clock')
    /\ UNCHANGED <<simVars, loading>>

Sizes(dir) == [k \in File(dir) |-> Flow(dir, k).bytes]
Zeros(dir) == [k \in File(dir) |-> 0]

\* The loop ends; the egress traffic follows the ingress traffic
LoadDone(dir) ==
    /\ loading = dir
    /\ Read(dir, clock) = File(dir) /\ active = {}
    /\ IF dir = "ing"
         THEN /\ loading' = "egr"
              /\ clock' = 0
              /\ left' = Sizes("egr")
              /\ count' = Zeros("egr")
         ELSE loading' = None /\ UNCHANGED <<clock, left, count>>
    /\ UNCHANGED <<simVars, active, messages>>

-----------------------------------------------------------------------------
(* Congestion state *)

NoCongestion == [state |-> "NO", start |-> 0, sum |-> 0, packets |-> 0, drops |-> 0]

\* The state that follows a bin
NextState(bin) ==
    IF bin.drops > bin.packets \div 3 THEN "MAX"
    ELSE IF bin.sum =< bin.packets * (LatencyMedian + LatencyVariance) THEN "NO"
    ELSE IF bin.state \in {"NO", "INCR"} THEN "INCR" ELSE "DECR"

Counted(bin, latency) ==
    [bin EXCEPT !.packets = @ + 1, !.sum = @ + latency,
                !.drops = IF latency < DropThreshold THEN @ + 1 ELSE @]

\* A mutant: the drops of a bin stay for the next
AfterPacketDropsKept(bin, latency) ==
    LET full == Counted(bin, latency)
    IN IF now - bin.start > BinWindow
         THEN [full EXCEPT !.state = NextState(full), !.start = now, !.sum = 0, !.packets = 0]
         ELSE full

\* A bin is closed by the first packet after its window, which it contains
AfterPacket(bin, latency) ==
    LET full == Counted(bin, latency)
    IN IF now - bin.start > BinWindow
         THEN [NoCongestion EXCEPT !.state = NextState(full), !.start = now]
         ELSE full

\* The first feature of the prediction that precedes updateCongesState
GivenState(dir) == conges[dir].state

\* updateCongesState; a drop counts as latency 0
UpdateCongesState(dir, answer) ==
    LET latency == IF answer < 0 THEN 0 ELSE answer
    IN /\ conges' = [conges EXCEPT ![dir] = AfterPacket(@, latency)]
       /\ log' = [log EXCEPT ![dir] =
                     Append(@, [time |-> now, latency |-> latency, given |-> GivenState(dir)])]

-----------------------------------------------------------------------------
(* Prediction *)

\* The bounds on a predicted latency
Clamped(raw) == IF raw < MinLatency THEN MinLatency ELSE Lesser(raw, MaxLatency)

\* predict: the model's answer between the bounds, or a drop
Answers == {Dropped} \cup {Clamped(raw) : raw \in Raw}

HostNumInRack(byte3) == byte3 \div 4

\* The server and the rack that predict gives the model
Features(f, isIncoming) ==
    IF isIncoming
      THEN [server |-> HostNumInRack(Frame[f].destByte3), tor |-> Frame[f].destToR]
      ELSE [server |-> HostNumInRack(Frame[f].srcByte3), tor |-> Frame[f].srcToR]

Ecmp(f, size, seed) == Hash[f][seed] % size

Aggregation(f) == Ecmp(f, NumAggs, TorSeeds[Frame[f].srcToR + 1])
Interface(f) == Ecmp(f, NumAggIntfs, AggSeeds[Aggregation(f) + 1])

-----------------------------------------------------------------------------
(* Events *)

Running == loading = None

\* The frame gets its kind, the gate to leave by, and waits
Wait(f, kind, latency) == delayed' = delayed \cup {[f |-> f, at |-> now + latency, kind |-> kind]}

Predict(dir, f, isIncoming, kind) ==
    \E answer \in Answers :
        /\ asked' = [dir |-> dir, f |-> f, features |-> Features(f, isIncoming)]
        /\ UpdateCongesState(dir, answer)
        /\ IF answer < 0 THEN UNCHANGED delayed ELSE Wait(f, kind, answer)

Arrive(f) ==
    /\ Running
    /\ now < MaxTime
    /\ Cardinality(arrived) < MaxFrames
    /\ \A a \in arrived : a.f # f
    /\ arrived' = arrived \cup {[f |-> f, at |-> now]}

FromHost(f) == Frame[f].gate < NumIntGates

\* A mutant: aggregation and interface change places
EgressKindTransposed(f) == NumIntGates + NumAggs * Interface(f) + Aggregation(f)

EgressKind(f) == NumIntGates + NumAggs * Aggregation(f) + Interface(f)

\* handleEgress: traffic inside the cluster is dropped
HandleEgress(f) ==
    /\ f \notin ArpRequests /\ FromHost(f)
    /\ Arrive(f)
    /\ IF Frame[f].srcSubtree = Frame[f].destSubtree
         THEN UNCHANGED <<delayed, conges, log, asked>>
         ELSE Predict("egr", f, FALSE, EgressKind(f))
    /\ UNCHANGED <<now, fired, busy, sent, loadVars>>

IngressKind(f) == Frame[f].destToR * 4 + HostNumInRack(Frame[f].destByte3)

\* handleIngress asks with isIncoming = false
HandleIngress(f) ==
    /\ f \notin ArpRequests /\ ~FromHost(f)
    /\ Arrive(f)
    /\ Predict("ing", f, FALSE, IngressKind(f))
    /\ UNCHANGED <<now, fired, busy, sent, loadVars>>

\* A mutant: a channel that is busy is not waited for
TransmitAtOnce(f, port) ==
    /\ sent' = sent \cup {[f |-> f, port |-> port, start |-> now]}
    /\ busy' = [busy EXCEPT ![port] = now + TxTime]

\* send, or sendDelayed to the end of what the channel transmits; the channel
\* is taken for the frame in the same event
Transmit(f, port) ==
    LET start == IF busy[port] > now THEN busy[port] ELSE now
    IN /\ sent' = sent \cup {[f |-> f, port |-> port, start |-> start]}
       /\ busy' = [busy EXCEPT ![port] = start + TxTime]

\* handleARPReq: the answer goes back at once
HandleARPReq(f) ==
    /\ f \in ArpRequests
    /\ Arrive(f)
    /\ Transmit(f, Frame[f].gate)
    /\ UNCHANGED <<now, fired, delayed, conges, log, asked, loadVars>>

RouteMsg(e) ==
    /\ e \in delayed
    /\ e.at = now
    /\ delayed' = delayed \ {e}
    /\ Transmit(e.f, e.kind)
    /\ UNCHANGED <<now, fired, arrived, conges, log, asked, loadVars>>

\* A message of the inter-mimic traffic only moves the congestion state
Prescheduled(m) ==
    /\ Running
    /\ m \in messages \ fired
    /\ m.at = now
    /\ fired' = fired \cup {m}
    /\ \E answer \in Answers : UpdateCongesState(m.dir, answer)
    /\ UNCHANGED <<now, arrived, delayed, busy, sent, asked, loadVars>>

\* Time passes when no event is due
Tick ==
    /\ Running
    /\ now < MaxTime \/ delayed # {}
    /\ \A e \in delayed : e.at > now
    /\ \A m \in messages \ fired : m.at > now
    /\ now' = now + 1
    /\ UNCHANGED <<fired, arrived, delayed, busy, sent, conges, log, asked, loadVars>>

Init ==
    /\ now = 0
    /\ loading = "ing"
    /\ clock = 0
    /\ active = {}
    /\ left = Sizes("ing")
    /\ count = Zeros("ing")
    /\ messages = {}
    /\ fired = {}
    /\ arrived = {}
    /\ delayed = {}
    /\ busy = [p \in Ports |-> 0]
    /\ sent = {}
    /\ conges = [d \in Dirs |-> NoCongestion]
    /\ log = [d \in Dirs |-> <<>>]
    /\ asked = None

Next ==
    \/ \E d \in Dirs : LoadDone(d) \/ \E step \in Steps : LoadStep(d, step)
    \/ \E f \in Frames : HandleEgress(f) \/ HandleIngress(f) \/ HandleARPReq(f)
    \/ \E e \in delayed : RouteMsg(e)
    \/ \E m \in messages : Prescheduled(m)
    \/ Tick

Spec == Init /\ [][Next]_vars

-----------------------------------------------------------------------------
(* Properties *)

\* The gate each frame should leave by, as the other end of it reads gates:
\* handleIngress takes gate g of a mimic for interface g % num_agg_intfs_ of
\* aggregation switch g / num_agg_intfs_, and the hosts are numbered by rack.
RightGate(x) ==
    \/ x.f \in ArpRequests /\ x.port = Frame[x.f].gate
    \/ /\ x.f \notin ArpRequests /\ FromHost(x.f)
       /\ x.port >= NumIntGates
       /\ LET g == x.port - NumIntGates
          IN g \div NumAggIntfs = Aggregation(x.f) /\ g % NumAggIntfs = Interface(x.f)
    \/ /\ x.f \notin ArpRequests /\ ~FromHost(x.f)
       /\ x.port = Frame[x.f].destToR * ServersPerTor + HostNumInRack(Frame[x.f].destByte3)

\* A frame leaves the mimic once, by the gate that ECMP or its destination
\* gives, and, unless it is an answered ARP request, no earlier than the least
\* latency; no gate transmits two frames at a time, whatever the number of
\* frames whose latency ends at one time and of ARP requests answered meanwhile.
\* No frame that a model let through is lost.
FramesOnTime ==
    /\ \A x \in sent :
          /\ RightGate(x)
          /\ \E a \in arrived :
                /\ a.f = x.f
                /\ x.start >= a.at + (IF x.f \in ArpRequests THEN 0 ELSE MinLatency)
          /\ \A y \in sent \ {x} :
                /\ x.f # y.f
                /\ x.port = y.port => x.start >= y.start + TxTime \/ y.start >= x.start + TxTime
    /\ \A e \in delayed : e.at >= now /\ \A x \in sent : x.f # e.f

\* The turns of bin_data_by_time.py over these packets: after the first n, the
\* state, the end of the last bin and the first packet of the next
Bins(packets) ==
    LET B[n \in 0 .. Len(packets)] ==
          IF n = 0 THEN [state |-> "NO", ended |-> 0, first |-> 1]
          ELSE LET before == B[n - 1]
                   bin == before.first .. n
                   drops == {j \in bin : packets[j].latency < DropThreshold}
                   sum == MapThenSumSet(LAMBDA j : packets[j].latency, bin)
                   high == sum > Cardinality(bin) * (LatencyMedian + LatencyVariance)
               IN IF packets[n].time - before.ended =< BinWindow THEN before
                  ELSE [state |-> CASE 3 * Cardinality(drops) > Cardinality(bin) -> "MAX"
                                    [] 3 * Cardinality(drops) =< Cardinality(bin) /\ ~high -> "NO"
                                    [] OTHER -> IF before.state \in {"MAX", "DECR"}
                                                THEN "DECR" ELSE "INCR",
                        ended |-> packets[n].time, first |-> n + 1]
    IN B

\* The label it writes for packet j: the state that the turn which closes its
\* bin has computed; of a bin that no turn closes, the last state
Label(packets, j) ==
    LET B == Bins(packets)
        closings == {n \in j .. Len(packets) : B[n].first = n + 1}
    IN B[IF closings = {} THEN Len(packets) ELSE Min(closings)].state

\* The mimic lags the labels of its training data (bin_data_by_time.py) by one
\* bin, neither more nor less: a packet, which that script labels with the state
\* its own bin ends in, is given to the model (predict, then updateCongesState)
\* with the label of the bin before, and the packets of the first bin with "NO".
FeatureLagsOneBin ==
    \A d \in Dirs : \A j \in DOMAIN log[d] :
       LET first == Bins(log[d])[j - 1].first
       IN log[d][j].given = IF first = 1 THEN "NO" ELSE Label(log[d], first - 1)

SentBytes(d, k) ==
    MapThenSumSet(LAMBDA m : m.len, {m \in messages : m.dir = d /\ m.flow = k})

\* A flow of the inter-mimic traffic is never given more bytes than its size
\* and, while it is loaded, what it was given and what it has left are its
\* size; its messages are full but the last, and none is before its start or
\* after the end of every flow that had started.
FlowBytes ==
    \A d \in Dirs : \A k \in File(d) :
       /\ SentBytes(d, k) =< Flow(d, k).bytes
       /\ loading = d => SentBytes(d, k) + left[k] = Flow(d, k).bytes
       /\ \A m \in messages : m.dir = d /\ m.flow = k =>
             /\ m.at >= Flow(d, k).start
             /\ \E j \in Read(d, m.at) : m.at < Flow(d, j).end
             /\ \A o \in messages :
                   o.dir = d /\ o.flow = k /\ o.n > m.n => m.len = MaxPayload /\ o.at > m.at

\* "Incoming Features: ... Destination Server, ... Destination ToR"
\* (MimicDCN.cc:482): the ingress model is asked about the host a frame goes to.
IncomingFeatures ==
    asked # None /\ asked.dir = "ing" =>
        asked.features = [server |-> HostNumInRack(Frame[asked.f].destByte3),
                          tor |-> Frame[asked.f].destToR]

\* "remove expired flows" (MimicDCN.cc:383): no message is given to a flow
\* that has ended.
NoExpiredFlow == \A m \in messages : m.at < Flow(m.dir, m.flow).end
=============================================================================
