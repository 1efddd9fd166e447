---------------------------- MODULE MimicDCNProofs ----------------------------
(***************************************************************************)
(* What is true of the frames that pass a mimic, for any frames, latencies *)
(* and arrivals: each leaves once, by the gate it should, in time, and no  *)
(* gate transmits two at a time.  The gates are right under two conditions *)
(* that the code takes for granted: it multiplies by the number of         *)
(* aggregation switches where the other end divides by the interfaces of   *)
(* one, and it counts four hosts to a rack.                                *)
(*                                                                         *)
(* The inter-mimic traffic gives no flow more bytes than it has, and the   *)
(* model is asked about each packet with the label that the training data  *)
(* of the same packets would have one bin earlier.                         *)
(***************************************************************************)
EXTENDS MimicDCN, FiniteFacts

Arrived == [f: Frames, at: Nat]
Delayed == [f: Frames \ ArpRequests, at: Nat, kind: Ports]
Sent == [f: Frames, port: Ports, start: Nat]

\* What the events read and change of the frames
Types ==
  /\ now \in Nat
  /\ arrived \subseteq Arrived
  /\ delayed \subseteq Delayed
  /\ sent \subseteq Sent
  /\ busy \in [Ports -> Nat]

\* A frame is in one place, and has arrived.
Places ==
  /\ \A e \in delayed : \A d \in delayed : e.f = d.f => e = d
  /\ \A e \in delayed : \A x \in sent : e.f # x.f
  /\ \A x \in sent : \A y \in sent : x.f = y.f => x = y

\* A frame waits for its latency from its arrival on, for a gate that is right.
Waits ==
  \A e \in delayed :
     /\ e.at >= now
     /\ \E a \in arrived : a.f = e.f /\ e.at >= a.at + MinLatency
     /\ RightGate([f |-> e.f, port |-> e.kind])

Left ==
  \A x \in sent :
     /\ RightGate(x)
     /\ \E a \in arrived :
           a.f = x.f /\ x.start >= a.at + (IF x.f \in ArpRequests THEN 0 ELSE MinLatency)

\* A gate is busy until the last of its transmissions ends, and they follow
\* each other.
Channels ==
  /\ \A x \in sent : x.start + TxTime =< busy[x.port]
  /\ \A x \in sent : \A y \in sent : x # y /\ x.port = y.port =>
        x.start >= y.start + TxTime \/ y.start >= x.start + TxTime

Inv == Types /\ Places /\ Waits /\ Left /\ Channels

-----------------------------------------------------------------------------
(* Gates *)

\* Euclid's division
LEMMA DivMod ==
  ASSUME NEW n \in Nat \ {0}, NEW q \in Nat, NEW r \in 0 .. n - 1
  PROVE  (n * q + r) \div n = q /\ (n * q + r) % n = r
OBVIOUS

\* The hashes choose an aggregation switch and one of its interfaces.
LEMMA EcmpType ==
  ASSUME NEW f \in Frames
  PROVE  Aggregation(f) \in 0 .. NumAggs - 1 /\ Interface(f) \in 0 .. NumAggIntfs - 1
<1>1. Frame[f] \in FrameType
  BY MimicAssumption
<1>2. Frame[f].srcToR + 1 \in 1 .. NumTors
  BY <1>1, MimicAssumption DEF FrameType
<1>3. Hash[f][TorSeeds[Frame[f].srcToR + 1]] \in Nat
  BY <1>2, MimicAssumption
<1>4. Aggregation(f) \in 0 .. NumAggs - 1
  BY <1>3, MimicAssumption DEF Aggregation, Ecmp
<1>5. Aggregation(f) + 1 \in 1 .. NumAggs
  BY <1>4, MimicAssumption
<1>6. Hash[f][AggSeeds[Aggregation(f) + 1]] \in Nat
  BY <1>5, MimicAssumption
<1> QED BY <1>4, <1>6, MimicAssumption DEF Interface, Ecmp

\* The gates of an egress frame
LEMMA EgressGate ==
  ASSUME NumAggs = NumAggIntfs, NEW f \in Frames, f \notin ArpRequests, FromHost(f)
  PROVE  /\ EgressKind(f) \in Ports
         /\ RightGate([f |-> f, port |-> EgressKind(f)])
<1> DEFINE a == Aggregation(f)
           i == Interface(f)
           n == NumAggs
<1>1. a \in 0 .. n - 1 /\ i \in 0 .. n - 1 /\ n \in Nat \ {0}
  BY EcmpType, MimicAssumption
<1>2. NumIntGates \in Nat
  BY MimicAssumption DEF NumIntGates
<1> HIDE DEF a, i, n
<1>3. n * a \in Nat /\ n * a + i \in Nat /\ n * a + i =< n * n - 1
  <2>1. n * (n - 1 - a) \in Nat
    BY <1>1
  <2>2. n * n = n * a + n * (n - 1 - a) + n
    BY <1>1
  <2>3. n * a \in Nat
    BY <1>1
  <2>4. n * a \in Nat /\ n * (n - 1 - a) \in Nat /\ n * n \in Nat
    BY <1>1, <2>1
  <2> QED BY <1>1, <2>2, <2>4
<1>4. (n * a + i) \div n = a /\ (n * a + i) % n = i
  BY <1>1, DivMod
<1>5. EgressKind(f) = NumIntGates + (n * a + i)
  <2>1. n * a \in Int /\ i \in Int
    BY <1>1, <1>3
  <2>2. EgressKind(f) = NumIntGates + n * a + i
    BY DEF EgressKind, a, i, n
  <2> QED BY <1>2, <2>1, <2>2
<1>6. EgressKind(f) \in Ports
  <2>1. NumExtGates = n * n
    BY DEF NumExtGates, n
  <2>2. n * n \in Nat
    BY <1>1
  <2> QED BY <1>2, <1>3, <1>5, <2>1, <2>2 DEF Ports
<1>7. EgressKind(f) - NumIntGates = n * a + i /\ EgressKind(f) >= NumIntGates
  BY <1>2, <1>3, <1>5
<1> QED BY <1>4, <1>6, <1>7 DEF RightGate, a, i, n

\* The gates of an ingress frame
LEMMA IngressGate ==
  ASSUME ServersPerTor = 4, NEW f \in Frames, f \notin ArpRequests, ~FromHost(f)
  PROVE  /\ IngressKind(f) \in Ports
         /\ RightGate([f |-> f, port |-> IngressKind(f)])
<1> DEFINE t == Frame[f].destToR
           h == HostNumInRack(Frame[f].destByte3)
<1>1. t \in 0 .. NumTors - 1 /\ Frame[f].destByte3 \in 0 .. 15
  BY MimicAssumption DEF FrameType, HostByte
<1>2. h \in 0 .. 3
  BY <1>1 DEF HostNumInRack
<1>3. NumExtGates \in Nat /\ NumIntGates = NumTors * 4 /\ NumTors \in Nat
  BY MimicAssumption DEF NumExtGates, NumIntGates
<1>4. IngressKind(f) \in Ports
  BY <1>1, <1>2, <1>3 DEF IngressKind, Ports
<1> QED BY <1>4 DEF RightGate, IngressKind

-----------------------------------------------------------------------------
(* The parts of an event.                                                   *)

\* A latency that is not a drop is within the bounds.
LEMMA AnswersBounded ==
  ASSUME NEW answer \in Answers
  PROVE  answer = Dropped \/ (answer \in Nat /\ answer >= MinLatency)
<1>1. ASSUME NEW raw \in Raw
      PROVE  Clamped(raw) \in Nat /\ Clamped(raw) >= MinLatency
  BY MimicAssumption DEF Clamped, Lesser
<1> QED BY <1>1 DEF Answers

\* A frame that arrives has not been seen before.
LEMMA ArriveFresh ==
  ASSUME Inv, NEW f \in Frames, Arrive(f)
  PROVE  /\ arrived' = arrived \cup {[f |-> f, at |-> now]}
         /\ arrived' \subseteq Arrived
         /\ \A e \in delayed : e.f # f
         /\ \A x \in sent : x.f # f
<1>1. /\ arrived' = arrived \cup {[f |-> f, at |-> now]}
      /\ \A a \in arrived : a.f # f
  BY DEF Arrive
<1>2. arrived' \subseteq Arrived
  <2>1. arrived \subseteq Arrived /\ now \in Nat
    BY DEF Inv, Types
  <2>2. [f |-> f, at |-> now] \in Arrived
    BY <2>1 DEF Arrived
  <2> QED BY <1>1, <2>1, <2>2
<1>3. \A e \in delayed : \E a \in arrived : a.f = e.f
  BY DEF Inv, Waits
<1>4. \A x \in sent : \E a \in arrived : a.f = x.f
  BY DEF Inv, Left
<1> QED BY <1>1, <1>2, <1>3, <1>4

\* A new arrival takes nothing away.
LEMMA ArrivedGrows ==
  ASSUME Inv, arrived \subseteq arrived', arrived' \subseteq Arrived,
         UNCHANGED <<now, delayed, sent, busy>>
  PROVE  Inv'
<1>1. Types' /\ Places' /\ Channels'
  BY DEF Inv, Types, Places, Channels
<1>2. Waits'
  BY DEF Inv, Waits, RightGate
<1>3. Left'
  BY DEF Inv, Left, RightGate
<1> QED BY <1>1, <1>2, <1>3 DEF Inv

\* A frame that arrives waits for its latency, or is dropped.
LEMMA PredictStep ==
  ASSUME Inv, NEW f \in Frames, f \notin ArpRequests, NEW dir, NEW isIncoming,
         NEW kind \in Ports, RightGate([f |-> f, port |-> kind]),
         Arrive(f), Predict(dir, f, isIncoming, kind), UNCHANGED <<now, sent, busy>>
  PROVE  Inv'
<1>1. /\ arrived' = arrived \cup {[f |-> f, at |-> now]}
      /\ arrived' \subseteq Arrived
      /\ \A e \in delayed : e.f # f
      /\ \A x \in sent : x.f # f
  BY ArriveFresh
<1>2. PICK answer \in Answers :
        IF answer < 0 THEN UNCHANGED delayed ELSE Wait(f, kind, answer)
  BY DEF Predict
<1>3. CASE UNCHANGED delayed
  BY <1>1, <1>3, ArrivedGrows
<1>4. CASE ~(answer < 0) /\ Wait(f, kind, answer)
  <2> DEFINE new == [f |-> f, at |-> now + answer, kind |-> kind]
  <2>1. answer \in Nat /\ answer >= MinLatency /\ now \in Nat /\ MinLatency \in Nat
    BY <1>4, AnswersBounded, MimicAssumption DEF Dropped, Inv, Types
  <2>2. new \in Delayed
    BY <2>1 DEF Delayed
  <2>3. delayed' = delayed \cup {new}
    BY <1>4 DEF Wait
  <2>4. new.f = f /\ new.at = now + answer /\ new.kind = kind
    OBVIOUS
  <2> HIDE DEF new
  <2>5. Types'
    BY <1>1, <2>2, <2>3 DEF Inv, Types
  <2>6. Places'
    BY <1>1, <2>3, <2>4 DEF Inv, Places
  <2>7. Left' /\ Channels'
    BY <1>1 DEF Inv, Left, Channels, RightGate
  <2>8. Waits'
    <3> SUFFICES ASSUME NEW e \in delayed'
                 PROVE  /\ e.at >= now
                        /\ \E a \in arrived' : a.f = e.f /\ e.at >= a.at + MinLatency
                        /\ RightGate([f |-> e.f, port |-> e.kind])
      BY DEF Waits, RightGate
    <3>1. CASE e \in delayed
      BY <1>1, <3>1 DEF Inv, Waits
    <3>2. CASE e = new
      <4>1. e.at >= now /\ e.at >= now + MinLatency
        BY <2>1, <2>4, <3>2
      <4>2. [f |-> f, at |-> now] \in arrived'
        BY <1>1
      <4> QED BY <2>4, <3>2, <4>1, <4>2
    <3> QED BY <2>3, <3>1, <3>2
  <2> QED BY <2>5, <2>6, <2>7, <2>8 DEF Inv
<1> QED BY <1>2, <1>3, <1>4

\* What is sent starts when the gate is free, and takes it.
LEMMA TransmitStep ==
  ASSUME Inv, NEW f \in Frames, NEW port \in Ports, Transmit(f, port)
  PROVE  \E new \in Sent :
            /\ new.f = f /\ new.port = port /\ new.start >= now
            /\ sent' = sent \cup {new}
            /\ busy' = [busy EXCEPT ![port] = new.start + TxTime]
            /\ busy' \in [Ports -> Nat]
            /\ (\A x \in sent : x.f # f) => Channels'
<1> DEFINE start == IF busy[port] > now THEN busy[port] ELSE now
           new == [f |-> f, port |-> port, start |-> start]
<1>1. /\ now \in Nat /\ busy \in [Ports -> Nat] /\ busy[port] \in Nat /\ TxTime \in Nat
      /\ sent \subseteq Sent
  BY MimicAssumption DEF Inv, Types
<1>2. start \in Nat /\ start >= now /\ start >= busy[port]
  BY <1>1
<1>3. sent' = sent \cup {new} /\ busy' = [busy EXCEPT ![port] = start + TxTime]
  BY DEF Transmit
<1>4. new \in Sent /\ new.f = f /\ new.port = port /\ new.start = start
  BY <1>2 DEF Sent
<1> HIDE DEF start, new
<1>5. busy' \in [Ports -> Nat] /\ busy'[port] = start + TxTime
  BY <1>1, <1>2, <1>3
<1>6. \A p \in Ports \ {port} : busy'[p] = busy[p]
  BY <1>1, <1>3
<1>7. ASSUME \A x \in sent : x.f # f
      PROVE  Channels'
  <2>1. \A x \in sent : /\ x.port \in Ports /\ x.start \in Nat
                        /\ x.start + TxTime =< busy[x.port]
    BY <1>1 DEF Sent, Inv, Channels
  <2>2. \A x \in sent' : x.start + TxTime =< busy'[x.port]
    <3> TAKE x \in sent'
    <3>1. CASE x = new
      BY <1>1, <1>2, <1>4, <1>5, <3>1
    <3>2. CASE x \in sent /\ x.port = port
      BY <1>1, <1>2, <1>5, <2>1, <3>2
    <3>3. CASE x \in sent /\ x.port # port
      BY <1>6, <2>1, <3>3
    <3> QED BY <1>3, <3>1, <3>2, <3>3
  <2>3. \A x \in sent : x.port = port => start >= x.start + TxTime
    BY <1>1, <1>2, <2>1
  <2>4. \A x \in sent' : \A y \in sent' : x # y /\ x.port = y.port =>
           x.start >= y.start + TxTime \/ y.start >= x.start + TxTime
    BY <1>3, <1>4, <2>3 DEF Inv, Channels
  <2> QED BY <2>2, <2>4 DEF Channels
<1> QED BY <1>2, <1>3, <1>4, <1>5, <1>7

-----------------------------------------------------------------------------
(* The events.                                                              *)

\* Nothing has arrived at first.
LEMMA InitInv == Init => Inv
BY DEF Init, Inv, Types, Places, Waits, Left, Channels

\* A frame leaves for another cluster, or is dropped within its own.
LEMMA HandleEgressStep ==
  ASSUME NumAggs = NumAggIntfs, Inv, NEW f \in Frames, HandleEgress(f)
  PROVE  Inv'
<1>1. /\ f \notin ArpRequests /\ FromHost(f) /\ Arrive(f)
      /\ UNCHANGED <<now, busy, sent>>
  BY DEF HandleEgress
<1>2. EgressKind(f) \in Ports /\ RightGate([f |-> f, port |-> EgressKind(f)])
  BY <1>1, EgressGate
<1>3. CASE UNCHANGED delayed
  BY <1>1, <1>3, ArriveFresh, ArrivedGrows
<1>4. CASE Predict("egr", f, FALSE, EgressKind(f))
  BY <1>1, <1>2, <1>4, PredictStep
<1> QED BY <1>3, <1>4 DEF HandleEgress

\* A frame comes in for a host of the cluster.
LEMMA HandleIngressStep ==
  ASSUME ServersPerTor = 4, Inv, NEW f \in Frames, HandleIngress(f)
  PROVE  Inv'
<1>1. /\ f \notin ArpRequests /\ ~FromHost(f) /\ Arrive(f)
      /\ UNCHANGED <<now, busy, sent>>
      /\ Predict("ing", f, FALSE, IngressKind(f))
  BY DEF HandleIngress
<1>2. IngressKind(f) \in Ports /\ RightGate([f |-> f, port |-> IngressKind(f)])
  BY <1>1, IngressGate
<1> QED BY <1>1, <1>2, PredictStep

\* An ARP request is answered in the same event.
LEMMA HandleARPReqStep ==
  ASSUME Inv, NEW f \in Frames, HandleARPReq(f)
  PROVE  Inv'
<1>1. /\ f \in ArpRequests /\ Arrive(f) /\ Transmit(f, Frame[f].gate)
      /\ UNCHANGED <<now, delayed>>
  BY DEF HandleARPReq
<1>2. /\ arrived' = arrived \cup {[f |-> f, at |-> now]}
      /\ arrived' \subseteq Arrived
      /\ \A e \in delayed : e.f # f
      /\ \A x \in sent : x.f # f
  BY <1>1, ArriveFresh
<1>3. Frame[f].gate \in Ports
  BY MimicAssumption DEF FrameType
<1>4. PICK new \in Sent :
        /\ new.f = f /\ new.port = Frame[f].gate /\ new.start >= now
        /\ sent' = sent \cup {new}
        /\ busy' \in [Ports -> Nat]
        /\ (\A x \in sent : x.f # f) => Channels'
  BY <1>1, <1>3, TransmitStep
<1>5. Types'
  BY <1>1, <1>2, <1>4 DEF Inv, Types
<1>6. Places'
  BY <1>1, <1>2, <1>4 DEF Inv, Places
<1>7. Waits'
  BY <1>1, <1>2 DEF Inv, Waits, RightGate
<1>8. Left'
  <2>1. RightGate(new)
    BY <1>1, <1>4 DEF RightGate
  <2>2. [f |-> f, at |-> now] \in arrived' /\ now \in Nat
    BY <1>2 DEF Inv, Types
  <2>3. new.start >= now + 0
    BY <1>4, <2>2 DEF Sent
  <2>4. \E a \in arrived' : a.f = new.f /\ new.start >= a.at + 0
    BY <1>4, <2>2, <2>3
  <2> QED BY <1>1, <1>2, <1>4, <2>1, <2>4 DEF Inv, Left, RightGate
<1> QED BY <1>2, <1>4, <1>5, <1>6, <1>7, <1>8 DEF Inv

\* A frame whose latency has passed is sent.
LEMMA RouteMsgStep ==
  ASSUME Inv, NEW e \in delayed, RouteMsg(e)
  PROVE  Inv'
<1>1. /\ e.at = now /\ delayed' = delayed \ {e} /\ Transmit(e.f, e.kind)
      /\ UNCHANGED <<now, arrived>>
  BY DEF RouteMsg
<1>2. /\ e.f \in Frames /\ e.f \notin ArpRequests /\ e.kind \in Ports /\ e.at \in Nat
      /\ \A x \in sent : x.f # e.f
  BY DEF Inv, Types, Delayed, Places
<1>3. PICK new \in Sent :
        /\ new.f = e.f /\ new.port = e.kind /\ new.start >= now
        /\ sent' = sent \cup {new}
        /\ busy' \in [Ports -> Nat]
        /\ (\A x \in sent : x.f # e.f) => Channels'
  BY <1>1, <1>2, TransmitStep
<1>4. Types'
  BY <1>1, <1>3 DEF Inv, Types
<1>5. Places'
  BY <1>1, <1>2, <1>3 DEF Inv, Places
<1>6. Waits'
  BY <1>1 DEF Inv, Waits, RightGate
<1>7. Left'
  <2>1. /\ RightGate([f |-> e.f, port |-> e.kind])
        /\ \E a \in arrived : a.f = e.f /\ e.at >= a.at + MinLatency
    BY DEF Inv, Waits
  <2>2. RightGate(new)
    BY <1>3, <2>1 DEF RightGate
  <2>3. PICK a \in arrived : a.f = e.f /\ e.at >= a.at + MinLatency
    BY <2>1
  <2>4. new.start \in Nat /\ a.at \in Nat /\ MinLatency \in Nat
    BY MimicAssumption DEF Sent, Inv, Types, Arrived
  <2>5. new.start >= a.at + MinLatency
    BY <1>1, <1>2, <1>3, <2>3, <2>4
  <2> QED BY <1>1, <1>2, <1>3, <2>2, <2>3, <2>5 DEF Inv, Left, RightGate
<1> QED BY <1>2, <1>3, <1>4, <1>5, <1>6, <1>7 DEF Inv

\* Time does not pass what is due.
LEMMA TickStep ==
  ASSUME Inv, Tick
  PROVE  Inv'
<1>1. /\ now' = now + 1 /\ \A e \in delayed : e.at > now
      /\ UNCHANGED <<arrived, delayed, busy, sent>>
  BY DEF Tick
<1>2. now \in Nat /\ \A e \in delayed : e.at \in Nat
  BY DEF Inv, Types, Delayed
<1>3. \A e \in delayed : e.at >= now'
  BY <1>1, <1>2
<1>4. Types' /\ Places' /\ Channels'
  BY <1>1, <1>2 DEF Inv, Types, Places, Channels
<1>5. Waits'
  BY <1>1, <1>3 DEF Inv, Waits, RightGate
<1>6. Left'
  BY <1>1 DEF Inv, Left, RightGate
<1> QED BY <1>4, <1>5, <1>6 DEF Inv

-----------------------------------------------------------------------------
(* The theorem.                                                             *)

\* Every step keeps the invariant, when the gates add up.
LEMMA NextInv ==
  ASSUME NumAggs = NumAggIntfs, ServersPerTor = 4
  PROVE  Inv /\ [Next]_vars => Inv'
<1> SUFFICES ASSUME Inv, [Next]_vars PROVE Inv'
  OBVIOUS
<1>1. ASSUME UNCHANGED <<now, arrived, delayed, busy, sent>>
      PROVE  Inv'
  BY <1>1, ArrivedGrows DEF Inv, Types
<1>2. ASSUME NEW d \in Dirs, LoadDone(d) \/ \E step \in Steps : LoadStep(d, step)
      PROVE  Inv'
  BY <1>1, <1>2 DEF LoadDone, LoadStep, simVars
<1>3. ASSUME NEW m \in messages, Prescheduled(m)
      PROVE  Inv'
  BY <1>1, <1>3 DEF Prescheduled
<1>4. CASE UNCHANGED vars
  BY <1>1, <1>4 DEF vars, simVars
<1> QED BY <1>2, <1>3, <1>4, HandleEgressStep, HandleIngressStep, HandleARPReqStep,
           RouteMsgStep, TickStep DEF Next

\* With as many interfaces to an aggregation switch as there are such switches,
\* and four hosts to a rack: each frame leaves the mimic at most once, by the
\* gate of its path, not before its latency has passed, and while no other frame
\* is on that gate.
THEOREM FramesLeaveOnTime ==
  ASSUME NumAggs = NumAggIntfs, ServersPerTor = 4
  PROVE  Spec => []FramesOnTime
<1>1. Inv => FramesOnTime
  BY DEF Inv, Places, Waits, Left, Channels, FramesOnTime
<1>2. Inv /\ [Next]_vars => Inv'
  BY NextInv
<1> QED BY <1>1, <1>2, InitInv, PTL DEF Spec

-----------------------------------------------------------------------------
(* Inter-mimic traffic                                                      *)

Message == [at: Nat, dir: Dirs, flow: Nat, len: Nat, n: Nat]
Given(d, k) == {m \in messages : m.dir = d /\ m.flow = k}
GivenBytes(d, k) == Total(Lens(Given(d, k)), Given(d, k))

LoadTypes ==
  /\ loading \in Dirs \cup {None}
  /\ clock \in Nat
  /\ IsFiniteSet(messages) /\ messages \subseteq Message
  /\ \A m \in messages : m.flow \in File(m.dir)
  /\ loading # None => /\ active \subseteq Read(loading, clock)
                       /\ left \in [File(loading) -> Nat]
                       /\ count \in [File(loading) -> Nat]

\* The messages of the direction that is loaded are numbered below the next of
\* their flow, none is in the future, and one that is not full was the last.
Past ==
  \A m \in messages :
     /\ loading # "ing" \/ m.dir = "ing"
     /\ m.dir = loading => /\ m.n < count[m.flow] /\ m.at =< clock
                           /\ m.len # MaxPayload => left[m.flow] = 0

\* What FlowBytes says of the times of the messages
Timed ==
  \A m \in messages :
     /\ m.at >= Flow(m.dir, m.flow).start
     /\ \E j \in Read(m.dir, m.at) : m.at < Flow(m.dir, j).end
     /\ \A o \in messages :
           o.dir = m.dir /\ o.flow = m.flow /\ o.n > m.n => m.len = MaxPayload /\ o.at > m.at

\* What a flow was given, and has left while it is loaded, is its size.
Used ==
  \A d \in Dirs : \A k \in File(d) :
     /\ GivenBytes(d, k) =< Flow(d, k).bytes
     /\ loading = d => GivenBytes(d, k) + left[k] = Flow(d, k).bytes

FlowInv == LoadTypes /\ Past /\ Timed /\ Used

\* The flows read, and what the file says of them.
LEMMA ReadTypes ==
  ASSUME NEW d \in Dirs, NEW s \in Nat, NEW t \in Nat, s =< t
  PROVE  /\ Read(d, s) \subseteq Read(d, t)
         /\ Read(d, t) \subseteq File(d)
         /\ \A k \in File(d) : k \in Nat /\ Flow(d, k) \in FlowType
         /\ \A k \in Read(d, t) : Flow(d, k).start =< t
<1>1. Flows[d] \in Seq(FlowType)
  BY FlowAssumption
<1>2. File(d) = 1 .. Len(Flows[d]) /\ Len(Flows[d]) \in Nat
  BY <1>1 DEF File
<1>3. \A k \in File(d) : Flow(d, k) \in FlowType
  BY <1>1 DEF File, Flow
<1>4. ASSUME NEW k \in File(d)
      PROVE  k \in 1 .. k /\ 1 .. k \subseteq File(d)
  BY <1>2
<1>5. \A k \in Read(d, t) : Flow(d, k).start =< t
  BY <1>4 DEF Read
<1>6. ASSUME NEW k \in Read(d, s)
      PROVE  k \in Read(d, t)
  <2>1. k \in File(d) /\ s > 0 /\ \A j \in 1 .. k : Flow(d, j).start =< s
    BY DEF Read
  <2>2. \A j \in 1 .. k : Flow(d, j).start \in Nat
    BY <1>3, <1>4, <2>1 DEF FlowType
  <2>3. \A j \in 1 .. k : Flow(d, j).start =< t
    BY <2>1, <2>2
  <2> QED BY <2>1, <2>3 DEF Read
<1> QED BY <1>2, <1>3, <1>5, <1>6 DEF Read

\* The sum of the lengths with one message more.
LEMMA LensAdd ==
  ASSUME NEW S, NEW x, IsFiniteSet(S), x \notin S, \A y \in S \cup {x} : y.len \in Nat
  PROVE  Total(Lens(S \cup {x}), S \cup {x}) = Total(Lens(S), S) + x.len
<1> DEFINE f == Lens(S \cup {x})
<1>1. /\ \A y \in S \cup {x} : f[y] = y.len /\ f[y] \in Nat
      /\ \A y \in S : f[y] = Lens(S)[y]
  BY DEF Lens
<1> HIDE DEF f
<1>2. Total(f, S \cup {x}) = Total(f, S) + f[x]
  BY <1>1, TotalAdd
<1>3. Total(f, S) = Total(Lens(S), S)
  BY <1>1, TotalSame
<1> QED BY <1>1, <1>2, <1>3 DEF f

\* A message is taken from the bytes that its flow has left.
LEMMA ScheduleStep ==
  ASSUME FlowInv, NEW d \in Dirs, loading = d, NEW t \in Nat, t > clock, clock' = t,
         active' \subseteq Read(d, t), NEW k \in active',
         \E j \in Read(d, t) : t < Flow(d, j).end,
         Schedule(d, k, t), UNCHANGED loading
  PROVE  FlowInv'
<1> DEFINE payload == Lesser(MaxPayload, left[k])
           new == [at |-> t, dir |-> d, flow |-> k, len |-> payload, n |-> count[k]]
<1>1. /\ d # None /\ clock \in Nat
      /\ IsFiniteSet(messages) /\ messages \subseteq Message
      /\ \A m \in messages : m.flow \in File(m.dir)
      /\ left \in [File(d) -> Nat] /\ count \in [File(d) -> Nat]
  BY MimicAssumption DEF FlowInv, LoadTypes
<1>2. /\ k \in File(d) /\ k \in Nat /\ Flow(d, k).start =< t
      /\ \A i \in File(d) : Flow(d, i).bytes \in Nat
  BY ReadTypes DEF FlowType
<1>3. left[k] \in Nat /\ count[k] \in Nat /\ payload \in Nat /\ payload =< left[k]
      /\ (payload # MaxPayload => payload = left[k])
  BY <1>1, <1>2, FlowAssumption DEF Lesser
<1>4. /\ loading' = d
      /\ \A m \in messages : m.dir = d =>
           m.n \in Nat /\ m.n < count[m.flow] /\ m.at \in Nat /\ m.at =< clock
      /\ \A m \in messages : m.dir = d /\ m.len # MaxPayload => left[m.flow] = 0
      /\ d = "ing" => \A m \in messages : m.dir = "ing"
  BY <1>1 DEF FlowInv, Past, Message
<1>5. CASE payload = 0
  <2>1. UNCHANGED <<left, count, messages>>
    BY <1>5 DEF Schedule
  <2>2. LoadTypes'
    BY <1>1, <1>4, <2>1 DEF FlowInv, LoadTypes
  <2>3. Past'
    BY <1>1, <1>4, <2>1 DEF FlowInv, Past
  <2>4. Timed'
    BY <2>1 DEF FlowInv, Timed
  <2>5. Used'
    BY <2>1 DEF FlowInv, Used, GivenBytes, Given
  <2> QED BY <2>2, <2>3, <2>4, <2>5 DEF FlowInv
<1>6. CASE payload # 0
  <2>1. /\ messages' = messages \cup {new}
        /\ left' = [left EXCEPT ![k] = @ - payload]
        /\ count' = [count EXCEPT ![k] = @ + 1]
    BY <1>6 DEF Schedule
  <2>2. /\ new \in Message /\ new.at = t /\ new.dir = d /\ new.flow = k
        /\ new.len = payload /\ new.n = count[k]
    BY <1>2, <1>3 DEF Message
  <2> HIDE DEF new, payload
  <2>3. /\ left' \in [File(d) -> Nat] /\ left'[k] = left[k] - payload
        /\ \A i \in File(d) \ {k} : left'[i] = left[i] /\ count'[i] = count[i]
        /\ count' \in [File(d) -> Nat] /\ count'[k] = count[k] + 1
    BY <1>1, <1>2, <1>3, <2>1
  <2>4. IsFiniteSet(messages')
    BY <1>1, <2>1, FS_AddElement
  <2>5. LoadTypes'
    BY <1>1, <1>2, <1>4, <2>1, <2>2, <2>3, <2>4 DEF LoadTypes
  <2>6. \A m \in Given(d, k) : m.n < new.n /\ m.at < t /\ m.len = MaxPayload
    <3> TAKE m \in Given(d, k)
    <3>1. m \in messages /\ m.dir = d /\ m.flow = k
      BY DEF Given
    <3>2. left[k] # 0
      BY <1>3, <1>6
    <3> QED BY <1>1, <1>3, <1>4, <2>2, <3>1, <3>2
  <2>7. new \notin messages
    <3>1. new.n \in Nat
      BY <1>3, <2>2
    <3> QED BY <2>2, <2>6, <3>1 DEF Given
  <2>8. Past'
    <3> SUFFICES ASSUME NEW m \in messages', loading' = "ing" => m.dir = "ing",
                        m.dir = d
                 PROVE  /\ m.n < count'[m.flow] /\ m.at =< clock'
                        /\ m.len # MaxPayload => left'[m.flow] = 0
      BY <1>4, <2>1, <2>2 DEF Past
    <3>1. CASE m = new
      BY <1>3, <2>2, <2>3, <3>1
    <3>2. CASE m \in Given(d, k)
      <4>1. m.n \in Nat /\ m.at \in Nat /\ m.flow = k
        BY <1>1, <3>2 DEF Given, Message
      <4> QED BY <1>1, <1>3, <2>2, <2>3, <2>6, <3>2, <4>1
    <3>3. CASE m \in messages /\ m.flow # k
      <4>1. m.flow \in File(d) \ {k} /\ m.at \in Nat
        BY <1>1, <3>3 DEF Message
      <4> QED BY <1>1, <1>4, <2>3, <3>3, <4>1
    <3> QED BY <2>1, <3>1, <3>2, <3>3 DEF Given
  <2>9. Timed'
    <3> SUFFICES ASSUME NEW m \in messages'
                 PROVE  /\ m.at >= Flow(m.dir, m.flow).start
                        /\ \E j \in Read(m.dir, m.at) : m.at < Flow(m.dir, j).end
                        /\ \A o \in messages' :
                              o.dir = m.dir /\ o.flow = m.flow /\ o.n > m.n =>
                                m.len = MaxPayload /\ o.at > m.at
      BY DEF Timed
    <3>1. CASE m = new
      <4>1. \A o \in Given(d, k) : o.n \in Nat /\ ~(o.n > m.n)
        BY <1>1, <1>3, <2>2, <2>6, <3>1 DEF Given, Message
      <4>2. ~(m.n > m.n) /\ t >= Flow(d, k).start
        BY <1>2, <1>3, <2>2, <3>1, ReadTypes DEF FlowType
      <4> QED BY <2>1, <2>2, <3>1, <4>1, <4>2 DEF Given
    <3>2. CASE m \in messages
      <4>1. \A o \in messages : o.dir = m.dir /\ o.flow = m.flow /\ o.n > m.n =>
               m.len = MaxPayload /\ o.at > m.at
        BY <3>2 DEF FlowInv, Timed
      <4>2. m.dir = d /\ m.flow = k => m.len = MaxPayload /\ new.at > m.at
        <5>1. m.at \in Nat
          BY <1>1, <3>2 DEF Message
        <5> QED BY <2>2, <2>6, <3>2, <5>1 DEF Given
      <4>3. /\ m.at >= Flow(m.dir, m.flow).start
            /\ \E j \in Read(m.dir, m.at) : m.at < Flow(m.dir, j).end
        BY <3>2 DEF FlowInv, Timed
      <4> QED BY <2>1, <2>2, <4>1, <4>2, <4>3
    <3> QED BY <2>1, <3>1, <3>2
  <2>10. GivenBytes(d, k)' = GivenBytes(d, k) + payload /\ GivenBytes(d, k) \in Nat
    <3> DEFINE S == Given(d, k)
    <3>1. /\ Given(d, k)' = S \cup {new} /\ new \notin S /\ IsFiniteSet(S)
          /\ \A y \in S \cup {new} : y.len \in Nat
      <4>1. Given(d, k)' = S \cup {new} /\ new \notin S
        BY <2>1, <2>2, <2>7 DEF Given
      <4>2. IsFiniteSet(S)
        BY <1>1, FS_Subset DEF Given
      <4>3. \A y \in S \cup {new} : y.len \in Nat
        BY <1>1, <1>3, <2>2 DEF Given, Message
      <4> QED BY <4>1, <4>2, <4>3
    <3> HIDE DEF S
    <3>2. Total(Lens(S \cup {new}), S \cup {new}) = Total(Lens(S), S) + new.len
      BY <3>1, LensAdd
    <3>3. Total(Lens(S), S) \in Nat
      <4>1. \A y \in S : Lens(S)[y] \in Nat
        BY <3>1 DEF Lens
      <4> QED BY <3>1, <4>1, TotalType
    <3>4. GivenBytes(d, k) = Total(Lens(S), S)
      BY DEF GivenBytes, S
    <3>5. GivenBytes(d, k)' = Total(Lens(S \cup {new}), S \cup {new})
      BY <3>1 DEF GivenBytes
    <3> QED BY <2>2, <3>2, <3>3, <3>4, <3>5
  <2>11. ASSUME NEW e \in Dirs, NEW i \in File(e), e # d \/ i # k
         PROVE  GivenBytes(e, i)' = GivenBytes(e, i)
    <3>1. Given(e, i)' = Given(e, i)
      BY <2>1, <2>2, <2>11 DEF Given
    <3> QED BY <3>1 DEF GivenBytes
  <2>12. Used'
    <3> SUFFICES ASSUME NEW e \in Dirs, NEW i \in File(e)
                 PROVE  /\ GivenBytes(e, i)' =< Flow(e, i).bytes
                        /\ d = e => GivenBytes(e, i)' + left'[i] = Flow(e, i).bytes
      BY <1>4 DEF Used
    <3>1. /\ GivenBytes(e, i) =< Flow(e, i).bytes
          /\ d = e => GivenBytes(e, i) + left[i] = Flow(e, i).bytes
      BY DEF FlowInv, Used
    <3>2. CASE e = d /\ i = k
      <4>1. GivenBytes(d, k) + left[k] = Flow(d, k).bytes
        BY <3>1, <3>2
      <4>2. payload \in Nat /\ left[k] \in Nat /\ payload =< left[k]
        BY <1>3
      <4> QED BY <2>3, <2>10, <3>2, <4>1, <4>2
    <3>3. CASE e # d \/ i # k
      BY <2>3, <2>11, <3>1, <3>3
    <3> QED BY <3>2, <3>3
  <2> QED BY <2>5, <2>8, <2>9, <2>12 DEF FlowInv
<1> QED BY <1>5, <1>6

\* A turn of the loop reads the flows that have started, drops them all when
\* all have ended, and otherwise gives a message to one of them.
LEMMA LoadStepFlows ==
  ASSUME FlowInv, NEW d \in Dirs, NEW step \in Steps, LoadStep(d, step)
  PROVE  FlowInv'
<1> DEFINE t == clock + step
           flows == active \cup (Read(d, t) \ Read(d, clock))
           kept == flows \ Expired(d, flows, t)
<1>1. /\ loading = d /\ clock' = t /\ active' = kept
      /\ UNCHANGED loading
      /\ IF kept = {} THEN UNCHANGED <<left, count, messages>>
         ELSE \E k \in kept : Schedule(d, k, t)
  BY DEF LoadStep
<1>2. /\ d # None /\ clock \in Nat /\ t \in Nat /\ t > clock /\ active \subseteq Read(d, clock)
  BY <1>1, MimicAssumption DEF FlowInv, LoadTypes
<1> HIDE DEF t
<1>3. /\ Read(d, clock) \subseteq Read(d, t) /\ Read(d, t) \subseteq File(d)
      /\ \A k \in File(d) : Flow(d, k) \in FlowType
  BY <1>2, ReadTypes
<1>4. flows \subseteq Read(d, t)
  BY <1>2, <1>3
<1>5. kept # {} => \E j \in Read(d, t) : t < Flow(d, j).end
  <2>1. \A j \in flows : Flow(d, j).end \in Nat
    BY <1>3, <1>4 DEF FlowType
  <2> HIDE DEF flows
  <2>2. kept # {} => \E j \in flows : ~(Flow(d, j).end =< t)
    BY DEF Expired
  <2> QED BY <1>2, <1>4, <2>1, <2>2
<1> HIDE DEF flows
<1>6. kept \subseteq Read(d, t)
  BY <1>4
<1> HIDE DEF kept
<1>7. CASE kept = {}
  <2>1. LoadTypes'
    BY <1>1, <1>2, <1>7 DEF FlowInv, LoadTypes
  <2>2. Past'
    <3>1. \A m \in messages : m.at \in Nat /\ (m.at =< clock => m.at =< t)
      BY <1>2 DEF FlowInv, LoadTypes, Message
    <3> QED BY <1>1, <1>7, <3>1 DEF FlowInv, Past
  <2>3. Timed' /\ Used'
    BY <1>1, <1>7 DEF FlowInv, Timed, Used, GivenBytes, Given
  <2> QED BY <2>1, <2>2, <2>3 DEF FlowInv
<1>8. CASE kept # {}
  <2>1. PICK k \in kept : Schedule(d, k, t)
    BY <1>1, <1>8
  <2> QED BY <1>1, <1>2, <1>5, <1>6, <1>8, <2>1, ScheduleStep
<1> QED BY <1>7, <1>8

\* The egress traffic starts with what the file says, and no message.
LEMMA LoadDoneFlows ==
  ASSUME FlowInv, NEW d \in Dirs, LoadDone(d)
  PROVE  FlowInv'
<1>1. /\ loading = d /\ active = {} /\ UNCHANGED <<active, messages>>
      /\ IF d = "ing" THEN /\ loading' = "egr" /\ clock' = 0
                           /\ left' = Sizes("egr") /\ count' = Zeros("egr")
         ELSE loading' = None /\ UNCHANGED <<clock, left, count>>
  BY DEF LoadDone
<1>2. Timed'
  BY <1>1 DEF FlowInv, Timed
<1>3. CASE d = "ing"
  <2>1. /\ loading' = "egr" /\ clock' = 0
        /\ left' = Sizes("egr") /\ count' = Zeros("egr")
    BY <1>1, <1>3
  <2>2. \A m \in messages : m.dir = "ing"
    BY <1>1, <1>3 DEF FlowInv, Past
  <2>3. \A k \in File("egr") : Flow("egr", k).bytes \in Nat
    <3>1. "egr" \in Dirs
      BY DEF Dirs
    <3> QED BY <3>1, ReadTypes DEF FlowType
  <2>4. LoadTypes'
    BY <1>1, <2>1, <2>3 DEF FlowInv, LoadTypes, Sizes, Zeros, Dirs
  <2>5. Past'
    BY <1>1, <2>1, <2>2 DEF Past
  <2>6. ASSUME NEW k \in File("egr")
        PROVE  GivenBytes("egr", k)' = 0
    <3>1. Given("egr", k)' = {}
      BY <1>1, <2>2 DEF Given
    <3> QED BY <3>1, TotalEmpty DEF GivenBytes
  <2>7. \A e \in Dirs : \A k \in File(e) : GivenBytes(e, k)' = GivenBytes(e, k)
    BY <1>1 DEF GivenBytes, Given
  <2>8. Used'
    BY <2>1, <2>3, <2>6, <2>7 DEF FlowInv, Used, Sizes
  <2> QED BY <1>2, <2>4, <2>5, <2>8 DEF FlowInv
<1>4. CASE d # "ing"
  <2>1. loading' = None /\ UNCHANGED <<clock, left, count, messages>> /\ None \notin Dirs
    BY <1>1, <1>4, MimicAssumption
  <2>2. LoadTypes'
    BY <2>1 DEF FlowInv, LoadTypes
  <2>3. Past'
    <3>1. \A m \in messages : m.dir # None
      BY <2>1 DEF FlowInv, LoadTypes, Message
    <3>2. None # "ing"
      BY <2>1 DEF Dirs
    <3> QED BY <2>1, <3>1, <3>2 DEF Past
  <2>4. Used'
    BY <2>1 DEF FlowInv, Used, GivenBytes, Given
  <2> QED BY <1>2, <2>2, <2>3, <2>4 DEF FlowInv
<1> QED BY <1>3, <1>4

LEMMA NextFlows == FlowInv /\ [Next]_vars => FlowInv'
<1> SUFFICES ASSUME FlowInv, [Next]_vars PROVE FlowInv'
  OBVIOUS
<1>1. ASSUME UNCHANGED loadVars
      PROVE  FlowInv'
  BY <1>1 DEF loadVars, FlowInv, LoadTypes, Past, Timed, Used, GivenBytes, Given
<1>2. CASE \E d \in Dirs : LoadDone(d) \/ \E step \in Steps : LoadStep(d, step)
  BY <1>2, LoadDoneFlows, LoadStepFlows
<1>3. CASE UNCHANGED loadVars
  BY <1>1, <1>3
<1>4. CASE UNCHANGED vars
  BY <1>1, <1>4 DEF vars
<1> QED BY <1>2, <1>3, <1>4 DEF Next, HandleEgress, HandleIngress, HandleARPReq, RouteMsg,
           Prescheduled, Tick

LEMMA InitFlows == Init => FlowInv
<1> SUFFICES ASSUME Init PROVE FlowInv
  OBVIOUS
<1>1. "ing" \in Dirs /\ \A k \in File("ing") : Flow("ing", k).bytes \in Nat
  <2>1. "ing" \in Dirs
    BY DEF Dirs
  <2> QED BY <2>1, ReadTypes DEF FlowType
<1>2. IsFiniteSet(messages)
  BY FS_EmptySet DEF Init
<1>3. LoadTypes
  BY <1>1, <1>2 DEF Init, LoadTypes, Sizes, Zeros
<1>4. Past /\ Timed
  BY DEF Init, Past, Timed
<1>5. ASSUME NEW d \in Dirs, NEW k \in File(d)
      PROVE  GivenBytes(d, k) = 0 /\ Flow(d, k).bytes \in Nat
  <2>1. Given(d, k) = {}
    BY DEF Init, Given
  <2> QED BY <2>1, TotalEmpty, ReadTypes DEF GivenBytes, FlowType
<1>6. Used
  BY <1>1, <1>5 DEF Init, Used, Sizes
<1> QED BY <1>3, <1>4, <1>6 DEF FlowInv

\* The inter-mimic traffic that is loaded: no flow is given more bytes than its
\* size, however the turns of the loop fall and whichever flow each one
\* chooses; its messages are full but the last, in the order of their times,
\* none before the flow starts, and none when every flow read has ended.
THEOREM FlowsGetTheirBytes == Spec => []FlowBytes
<1>1. FlowInv => FlowBytes
  <2> SUFFICES ASSUME FlowInv, NEW d \in Dirs, NEW k \in File(d)
               PROVE  /\ SentBytes(d, k) =< Flow(d, k).bytes
                      /\ loading = d => SentBytes(d, k) + left[k] = Flow(d, k).bytes
                      /\ \A m \in messages : m.dir = d /\ m.flow = k =>
                           /\ m.at >= Flow(d, k).start
                           /\ \E j \in Read(d, m.at) : m.at < Flow(d, j).end
                           /\ \A o \in messages :
                                 o.dir = d /\ o.flow = k /\ o.n > m.n =>
                                   m.len = MaxPayload /\ o.at > m.at
    BY DEF FlowBytes
  <2>1. SentBytes(d, k) = GivenBytes(d, k)
    <3> DEFINE S == {m \in messages : m.dir = d /\ m.flow = k}
    <3>1. IsFiniteSet(S) /\ \A m \in S : m.len \in Nat
      BY FS_Subset DEF FlowInv, LoadTypes, Message
    <3> HIDE DEF S
    <3>2. MapThenSumSet(LAMBDA m : m.len, S) = Total(Lens(S), S)
      BY <3>1, LenSum
    <3> QED BY <3>2 DEF S, SentBytes, GivenBytes, Given
  <2> QED BY <2>1 DEF FlowInv, Used, Timed
<1> QED BY <1>1, InitFlows, NextFlows, PTL DEF Spec

-----------------------------------------------------------------------------
(* Congestion state                                                         *)

State == {"NO", "INCR", "DECR", "MAX"}
Packet == [time: Nat, latency: Nat, given: State]
Conges == [state: State, start: Nat, sum: Nat, packets: Nat, drops: Nat]
Latencies(packets, S) == [j \in S |-> packets[j].latency]
Drops(packets, S) == {j \in S : packets[j].latency < DropThreshold}

\* The turn of Bins: what packet n makes of the bins before
NextBin(packets, before, n) ==
  LET bin == before.first .. n
      drops == {j \in bin : packets[j].latency < DropThreshold}
      sum == MapThenSumSet(LAMBDA j : packets[j].latency, bin)
      high == sum > Cardinality(bin) * (LatencyMedian + LatencyVariance)
  IN IF packets[n].time - before.ended =< BinWindow THEN before
     ELSE [state |-> CASE 3 * Cardinality(drops) > Cardinality(bin) -> "MAX"
                       [] 3 * Cardinality(drops) =< Cardinality(bin) /\ ~high -> "NO"
                       [] OTHER -> IF before.state \in {"MAX", "DECR"}
                                   THEN "DECR" ELSE "INCR",
           ended |-> packets[n].time, first |-> n + 1]

IsBinning(B, packets) ==
  B = [n \in 0 .. Len(packets) |->
         IF n = 0 THEN [state |-> "NO", ended |-> 0, first |-> 1]
         ELSE NextBin(packets, B[n - 1], n)]

\* The same with the values that the proof computes with
ThisBin(before, time, n, drops, packets, sum) ==
  IF time - before.ended =< BinWindow THEN before
  ELSE [state |-> CASE 3 * drops > packets -> "MAX"
                    [] 3 * drops =< packets /\ ~(sum > packets * (LatencyMedian + LatencyVariance)) -> "NO"
                    [] OTHER -> IF before.state \in {"MAX", "DECR"} THEN "DECR" ELSE "INCR",
        ended |-> time, first |-> n + 1]

\* The bin of the running mimic is the last bin of a binning of what it has seen,
\* which has all the states that the model was given; and the packet before the
\* first one of a bin is where the bin before was closed.
BinOf(B, packets, c) ==
  LET n == Len(packets)
      bin == n - c.packets + 1 .. n
  IN  /\ packets \in Seq(Packet)
      /\ c \in Conges /\ c.packets =< n
      /\ IsBinning(B, packets)
      /\ \A i \in 0 .. n : B[i].first \in 1 .. i + 1 /\ B[B[i].first - 1] = B[i]
      /\ \A i \in 1 .. n : packets[i].given = B[i - 1].state
      /\ B[n] = [state |-> c.state, ended |-> c.start, first |-> n - c.packets + 1]
      /\ c.sum = Total(Latencies(packets, bin), bin)
      /\ c.drops = Cardinality(Drops(packets, bin))

BinInv ==
  /\ now \in Nat
  /\ conges \in [Dirs -> Conges] /\ log \in [Dirs -> Seq(Packet)]
  /\ \A d \in Dirs : \E B : BinOf(B, log[d], conges[d])

LEMMA LatencySum ==
  ASSUME NEW packets, NEW S, IsFiniteSet(S), \A j \in S : packets[j].latency \in Nat
  PROVE  MapThenSumSet(LAMBDA j : packets[j].latency, S) = Total(Latencies(packets, S), S)
<1> DEFINE f == Latencies(packets, S)
           Rec(g) == g = [s \in SUBSET S |-> IF s = {} THEN 0
                            ELSE packets[CHOOSE x \in s : TRUE].latency
                                    + g[s \ {CHOOSE x \in s : TRUE}]]
<1>1. \A s \in SUBSET S : s # {} =>
        f[CHOOSE x \in s : TRUE] = packets[CHOOSE x \in s : TRUE].latency
  BY DEF Latencies
<1>2. \A g : AddsUp(g, f, S) <=> Rec(g)
  <2> HIDE DEF f
  <2> QED BY <1>1 DEF AddsUp
<1>3. \A x \in S : f[x] \in Nat
  BY DEF Latencies
<1>4. MapThenSumSet(LAMBDA j : packets[j].latency, S) = (CHOOSE g : Rec(g))[S]
  BY DEF MapThenSumSet, MapThenFoldSet
<1> HIDE DEF f, Rec
<1>5. \E g : Rec(g)
  BY <1>2, <1>3, TotalsAddUp
<1>6. AddsUp(CHOOSE g : Rec(g), f, S)
  BY <1>2, <1>5
<1>7. (CHOOSE g : Rec(g))[S] = Total(f, S)
  BY <1>3, <1>6, AddsUpTotal
<1> QED BY <1>4, <1>7 DEF f

\* Bins is a function that satisfies its equation, if there is one.
LEMMA BinsUnfold ==
  ASSUME NEW packets
  PROVE  Bins(packets) = CHOOSE B : IsBinning(B, packets)
BY DEF Bins, IsBinning, NextBin

\* A binning is determined by the packets.
LEMMA BinningUnique ==
  ASSUME NEW packets, Len(packets) \in Nat, NEW B, NEW C,
         IsBinning(B, packets), IsBinning(C, packets)
  PROVE  B = C
<1> DEFINE N == 0 .. Len(packets)
           Wrong == {n \in N : B[n] # C[n]}
           First == [state |-> "NO", ended |-> 0, first |-> 1]
<1>1. /\ \A n \in N : B[n] = IF n = 0 THEN First ELSE NextBin(packets, B[n - 1], n)
      /\ \A n \in N : C[n] = IF n = 0 THEN First ELSE NextBin(packets, C[n - 1], n)
  <2> HIDE DEF First
  <2>1. /\ B = [n \in N |-> IF n = 0 THEN First ELSE NextBin(packets, B[n - 1], n)]
        /\ C = [n \in N |-> IF n = 0 THEN First ELSE NextBin(packets, C[n - 1], n)]
    BY DEF IsBinning, First
  <2> HIDE DEF N
  <2> QED BY <2>1
<1> DEFINE Turn(X, n) == IF n = 0 THEN First ELSE NextBin(packets, X[n - 1], n)
<1>2. SUFFICES ASSUME Wrong # {}
               PROVE  FALSE
  <2>1. B = [n \in N |-> Turn(B, n)] /\ C = [n \in N |-> Turn(C, n)]
    BY DEF IsBinning
  <2> HIDE DEF N, Turn
  <2>2. B = [n \in N |-> B[n]] /\ C = [n \in N |-> C[n]]
    BY <2>1
  <2> QED BY <2>2
<1> HIDE DEF First
<1>3. PICK n \in Wrong : \A k \in Wrong : n =< k
  <2>1. Wrong \in SUBSET Nat
    OBVIOUS
  <2> HIDE DEF Wrong
  <2> QED BY <1>2, <2>1, LeastElement
<1>4. n \in N /\ n # 0
  BY <1>1
<1>5. n - 1 \in N /\ n - 1 \notin Wrong
  BY <1>3, <1>4
<1> QED BY <1>1, <1>4, <1>5

LEMMA NextBinValues ==
  ASSUME NEW packets \in Seq(Packet), NEW n \in 1 .. Len(packets), NEW before,
         before.first \in 1 .. n
  PROVE  LET bin == before.first .. n
         IN  /\ NextBin(packets, before, n) =
                  ThisBin(before, packets[n].time, n, Cardinality(Drops(packets, bin)),
                          Cardinality(bin), Total(Latencies(packets, bin), bin))
             /\ IsFiniteSet(bin)
<1> DEFINE bin == before.first .. n
<1>1. IsFiniteSet(bin)
  <2>1. before.first \in Int /\ n \in Int
    OBVIOUS
  <2> QED BY <2>1, FS_Interval
<1>2. \A j \in bin : packets[j].latency \in Nat
  <2>1. \A j \in bin : packets[j] \in Packet
    OBVIOUS
  <2> QED BY <2>1 DEF Packet
<1> HIDE DEF bin
<1>3. MapThenSumSet(LAMBDA j : packets[j].latency, bin) = Total(Latencies(packets, bin), bin)
  BY <1>1, <1>2, LatencySum
<1>4. NextBin(packets, before, n) =
        ThisBin(before, packets[n].time, n, Cardinality(Drops(packets, bin)),
                Cardinality(bin), MapThenSumSet(LAMBDA j : packets[j].latency, bin))
  BY DEF NextBin, ThisBin, Drops, bin
<1> QED BY <1>1, <1>3, <1>4 DEF bin

\* A bin does not look at later packets.
LEMMA NextBinAppend ==
  ASSUME NEW packets \in Seq(Packet), NEW x \in Packet, NEW n \in 1 .. Len(packets),
         NEW before, before.first \in 1 .. n
  PROVE  NextBin(Append(packets, x), before, n) = NextBin(packets, before, n)
<1> DEFINE longer == Append(packets, x)
           bin == before.first .. n
<1>1. /\ longer \in Seq(Packet) /\ n \in 1 .. Len(longer)
      /\ \A j \in 1 .. n : longer[j] = packets[j]
  OBVIOUS
<1> HIDE DEF longer
<1>2. \A j \in bin : longer[j] = packets[j] /\ longer[n] = packets[n]
  BY <1>1
<1>3. /\ NextBin(packets, before, n) =
           ThisBin(before, packets[n].time, n, Cardinality(Drops(packets, bin)),
                   Cardinality(bin), Total(Latencies(packets, bin), bin))
      /\ NextBin(longer, before, n) =
           ThisBin(before, longer[n].time, n, Cardinality(Drops(longer, bin)),
                   Cardinality(bin), Total(Latencies(longer, bin), bin))
  BY <1>1, NextBinValues
<1>4. longer[n] = packets[n]
  BY <1>1
<1> HIDE DEF bin
<1>5. Drops(longer, bin) = Drops(packets, bin) /\ Latencies(longer, bin) = Latencies(packets, bin)
  BY <1>2 DEF Drops, Latencies
<1> QED BY <1>3, <1>4, <1>5 DEF longer

\* The latencies of a bin with one packet more
LEMMA BinGrows ==
  ASSUME NEW packets \in Seq(Packet), NEW x \in Packet, NEW k \in 1 .. Len(packets) + 1
  PROVE  LET n == Len(packets)
             longer == Append(packets, x)
             bin == k .. n
             more == k .. n + 1
         IN  /\ Cardinality(more) = n + 2 - k
             /\ Total(Latencies(longer, more), more) =
                  Total(Latencies(packets, bin), bin) + x.latency
             /\ Cardinality(Drops(longer, more)) =
                  Cardinality(Drops(packets, bin)) + (IF x.latency < DropThreshold THEN 1 ELSE 0)
             /\ Total(Latencies(packets, bin), bin) \in Nat
             /\ Cardinality(Drops(packets, bin)) \in Nat
<1> DEFINE n == Len(packets)
           longer == Append(packets, x)
           bin == k .. n
           more == k .. n + 1
<1>1. /\ n \in Nat /\ k \in Nat /\ longer \in Seq(Packet)
      /\ \A j \in 1 .. n : longer[j] = packets[j] /\ packets[j].latency \in Nat
      /\ longer[n + 1] = x /\ x.latency \in Nat
  <2>1. /\ \A j \in 1 .. n : longer[j] = packets[j] /\ packets[j] \in Packet
        /\ longer[n + 1] = x /\ longer \in Seq(Packet)
    OBVIOUS
  <2> HIDE DEF longer
  <2>2. n \in Nat /\ k \in Nat
    OBVIOUS
  <2> HIDE DEF n
  <2> QED BY <2>1, <2>2 DEF Packet
<1>2. more = bin \cup {n + 1} /\ n + 1 \notin bin /\ bin \subseteq 1 .. n
  BY <1>1
<1>3. IsFiniteSet(bin) /\ IsFiniteSet(more) /\ Cardinality(more) = n + 2 - k
  <2>1. n \in Int /\ n + 1 \in Int /\ k \in Int /\ k <= n + 1
    BY <1>1
  <2> HIDE DEF n
  <2>2. /\ IsFiniteSet(k .. n) /\ IsFiniteSet(k .. n + 1)
        /\ Cardinality(k .. n + 1) = IF k > n + 1 THEN 0 ELSE (n + 1) - k + 1
    BY <2>1, FS_Interval
  <2> QED BY <2>1, <2>2
<1> HIDE DEF n, longer, bin, more
<1>4. /\ Total(Latencies(longer, more), more) =
           Total(Latencies(packets, bin), bin) + x.latency
      /\ Total(Latencies(packets, bin), bin) \in Nat
  <2> DEFINE f == Latencies(longer, more)
             g == Latencies(packets, bin)
  <2>1. /\ \A j \in bin \cup {n + 1} : f[j] \in Nat
        /\ \A j \in bin : f[j] = g[j] /\ g[j] \in Nat
        /\ f[n + 1] = x.latency
    BY <1>1, <1>2 DEF Latencies
  <2> HIDE DEF f, g
  <2>2. Total(f, bin \cup {n + 1}) = Total(f, bin) + f[n + 1]
    BY <1>2, <1>3, <2>1, TotalAdd
  <2>3. Total(f, bin) = Total(g, bin)
    BY <2>1, TotalSame
  <2>4. Total(g, bin) \in Nat
    BY <1>3, <2>1, TotalType
  <2> QED BY <1>2, <2>1, <2>2, <2>3, <2>4 DEF f, g
<1>5. /\ Cardinality(Drops(longer, more)) =
           Cardinality(Drops(packets, bin)) + (IF x.latency < DropThreshold THEN 1 ELSE 0)
      /\ Cardinality(Drops(packets, bin)) \in Nat
  <2> DEFINE D == Drops(packets, bin)
  <2>1. IsFiniteSet(D) /\ n + 1 \notin D
    BY <1>2, <1>3, FS_Subset DEF Drops
  <2>2. Drops(longer, more) = IF x.latency < DropThreshold THEN D \cup {n + 1} ELSE D
    BY <1>1, <1>2 DEF Drops
  <2> HIDE DEF D
  <2>3. Cardinality(D \cup {n + 1}) = Cardinality(D) + 1
    BY <2>1, FS_AddElement
  <2>4. Cardinality(D) \in Nat
    BY <2>1, FS_CardinalityType
  <2> QED BY <2>2, <2>3, <2>4 DEF D
<1> QED BY <1>3, <1>4, <1>5 DEF n, longer, bin, more

\* A turn closes a bin when updateCongesState does, with the state that it
\* computes.
LEMMA TurnIsUpdate ==
  ASSUME now \in Nat, NEW c \in Conges, NEW latency \in Nat, NEW n \in Nat
  PROVE  LET before == [state |-> c.state, ended |-> c.start, first |-> n - c.packets + 1]
             drops == c.drops + (IF latency < DropThreshold THEN 1 ELSE 0)
             after == AfterPacket(c, latency)
         IN  /\ ThisBin(before, now, n + 1, drops, c.packets + 1, c.sum + latency) =
                  [state |-> after.state, ended |-> after.start,
                   first |-> (n + 1) - after.packets + 1]
             /\ after \in Conges
             /\ \/ after.packets = 0 /\ after.sum = 0 /\ after.drops = 0
                \/ after.packets = c.packets + 1 /\ after.sum = c.sum + latency
                     /\ after.drops = drops
<1> DEFINE before == [state |-> c.state, ended |-> c.start, first |-> n - c.packets + 1]
           drops == c.drops + (IF latency < DropThreshold THEN 1 ELSE 0)
           full == Counted(c, latency)
           after == AfterPacket(c, latency)
           turn == ThisBin(before, now, n + 1, drops, c.packets + 1, c.sum + latency)
<1>1. /\ c.state \in {"NO", "INCR", "DECR", "MAX"} /\ c.start \in Nat /\ c.sum \in Nat
      /\ c.packets \in Nat /\ c.drops \in Nat
      /\ BinWindow \in Nat /\ DropThreshold \in Nat
      /\ LatencyMedian \in Nat /\ LatencyVariance \in Nat
  BY MimicAssumption DEF Conges, State
<1>2. /\ full.state = c.state /\ full.start = c.start /\ full.packets = c.packets + 1
      /\ full.sum = c.sum + latency /\ full.drops = drops
      /\ full \in Conges
  <2>1. drops \in Nat
    BY <1>1
  <2>2. full = [c EXCEPT !.packets = c.packets + 1, !.sum = c.sum + latency, !.drops = drops]
    <3>1. c.drops + 0 = c.drops
      BY <1>1
    <3>2. CASE latency < DropThreshold
      BY <3>2 DEF Counted
    <3>3. CASE ~(latency < DropThreshold)
      BY <3>1, <3>3 DEF Counted
    <3> QED BY <3>2, <3>3
  <2>3. c.packets + 1 \in Nat /\ c.sum + latency \in Nat
    BY <1>1
  <2> DEFINE p == c.packets + 1
             t == c.sum + latency
  <2>4. full = [c EXCEPT !.packets = p, !.sum = t, !.drops = drops]
    BY <2>2
  <2> HIDE DEF full, drops, p, t
  <2>5. p \in Nat /\ t \in Nat
    BY <2>3 DEF p, t
  <2>6. /\ full.state = c.state /\ full.start = c.start
        /\ full.packets = p /\ full.sum = t /\ full.drops = drops
        /\ full \in Conges
    BY <2>1, <2>4, <2>5 DEF Conges
  <2> QED BY <2>6 DEF p, t
<1>3. before.state = c.state /\ before.ended = c.start /\ before.first = n - c.packets + 1
  OBVIOUS
<1>4. drops \in Nat
  BY <1>1
<1> HIDE DEF full, before, drops
<1>5. CASE now - c.start =< BinWindow
  <2>1. after = full
    BY <1>1, <1>2, <1>5 DEF AfterPacket, full
  <2>2. turn = before
    BY <1>3, <1>5 DEF ThisBin
  <2>3. before = [state |-> full.state, ended |-> full.start,
                  first |-> (n + 1) - full.packets + 1]
    <3>1. (n + 1) - full.packets + 1 = n - c.packets + 1
      BY <1>1, <1>2
    <3> QED BY <1>2, <3>1 DEF before
  <2> HIDE DEF turn, after
  <2> QED BY <1>2, <2>1, <2>2, <2>3 DEF turn, after, drops, before
<1>6. CASE ~(now - c.start =< BinWindow)
  <2> DEFINE s == NextState(full)
  <2>1. after = [NoCongestion EXCEPT !.state = s, !.start = now]
    BY <1>1, <1>2, <1>6 DEF AfterPacket, full
  <2>2. /\ after.state = s /\ after.start = now /\ after.packets = 0 /\ after.sum = 0
        /\ after.drops = 0
    BY <2>1 DEF NoCongestion
  <2>3. s \in {"NO", "INCR", "DECR", "MAX"}
    BY DEF NextState
  <2>4. after \in Conges
    <3> HIDE DEF s, after
    <3> QED BY <2>1, <2>3 DEF NoCongestion, Conges, State
  <2> DEFINE p == c.packets + 1
             q == p * (LatencyMedian + LatencyVariance)
             total == c.sum + latency
             other == CASE 3 * drops > p -> "MAX"
                        [] 3 * drops =< p /\ ~(total > q) -> "NO"
                        [] OTHER -> IF c.state \in {"MAX", "DECR"} THEN "DECR" ELSE "INCR"
  <2>5. turn = [state |-> other, ended |-> now, first |-> n + 1 + 1]
    BY <1>3, <1>6 DEF ThisBin
  <2>6. p \in Nat /\ q \in Nat /\ total \in Nat
    <3>1. p \in Nat /\ total \in Nat /\ LatencyMedian + LatencyVariance \in Nat
      BY <1>1
    <3> DEFINE w == LatencyMedian + LatencyVariance
    <3> HIDE DEF p, w
    <3>2. p * w \in Nat
      BY <3>1 DEF w
    <3> QED BY <3>1, <3>2 DEF w
  <2>7. s = IF drops > p \div 3 THEN "MAX"
            ELSE IF total =< q THEN "NO"
            ELSE IF c.state \in {"NO", "INCR"} THEN "INCR" ELSE "DECR"
    BY <1>2 DEF NextState
  <2> HIDE DEF s, turn, after, p, q, total
  <2>8. drops > p \div 3 <=> 3 * drops > p
    BY <1>4, <2>6
  <2>9. other = s
    BY <1>1, <1>4, <2>6, <2>7, <2>8
  <2>10. (n + 1) - after.packets + 1 = n + 1 + 1
    BY <2>2
  <2> HIDE DEF other
  <2> QED BY <2>2, <2>4, <2>5, <2>9, <2>10 DEF turn, after, before, drops
<1> QED BY <1>1, <1>5, <1>6

\* updateCongesState adds the turn of its packet to the binning.
LEMMA UpdateBins ==
  ASSUME now \in Nat, NEW B, NEW packets, NEW c, BinOf(B, packets, c), NEW latency \in Nat
  PROVE  \E C : BinOf(C, Append(packets, [time |-> now, latency |-> latency, given |-> c.state]),
                      AfterPacket(c, latency))
<1> DEFINE n == Len(packets)
           x == [time |-> now, latency |-> latency, given |-> c.state]
           longer == Append(packets, x)
           after == AfterPacket(c, latency)
           First == [state |-> "NO", ended |-> 0, first |-> 1]
           Turn(i) == NextBin(longer, B[i - 1], i)
           C == [i \in 0 .. n + 1 |-> IF i = n + 1 THEN Turn(n + 1) ELSE B[i]]
           bin == n - c.packets + 1 .. n
           drops == c.drops + (IF latency < DropThreshold THEN 1 ELSE 0)
<1>1. /\ packets \in Seq(Packet) /\ n \in Nat /\ c \in Conges /\ c.packets \in Nat
      /\ c.packets =< n
      /\ \A i \in 0 .. n : B[i].first \in 1 .. i + 1 /\ B[B[i].first - 1] = B[i]
      /\ \A i \in 1 .. n : packets[i].given = B[i - 1].state
      /\ B[n] = [state |-> c.state, ended |-> c.start, first |-> n - c.packets + 1]
      /\ c.sum = Total(Latencies(packets, bin), bin)
      /\ c.drops = Cardinality(Drops(packets, bin))
  BY DEF BinOf, Conges
<1>2. \A i \in 0 .. n : B[i] = IF i = 0 THEN First ELSE NextBin(packets, B[i - 1], i)
  <2> HIDE DEF First
  <2>1. B = [i \in 0 .. n |-> IF i = 0 THEN First ELSE NextBin(packets, B[i - 1], i)]
    BY DEF BinOf, IsBinning, First
  <2> HIDE DEF n
  <2> QED BY <2>1
<1>3. x \in Packet /\ x.latency = latency /\ x.time = now /\ x.given = c.state
  BY <1>1 DEF Packet, Conges
<1> HIDE DEF x
<1>4. longer \in Seq(Packet) /\ Len(longer) = n + 1 /\ longer[n + 1] = x
  BY <1>1, <1>3
<1>5. \A i \in 1 .. n : NextBin(longer, B[i - 1], i) = NextBin(packets, B[i - 1], i)
  <2> TAKE i \in 1 .. n
  <2>1. i \in 1 .. Len(packets) /\ i - 1 \in 0 .. n /\ (i - 1) + 1 = i
    BY <1>1
  <2> DEFINE b == B[i - 1]
  <2>2. b.first \in 1 .. i
    BY <1>1, <2>1
  <2> HIDE DEF b
  <2>3. NextBin(Append(packets, x), b, i) = NextBin(packets, b, i)
    BY <1>1, <1>3, <2>1, <2>2, NextBinAppend
  <2> QED BY <2>3 DEF b
<1>6. IsBinning(C, longer)
  <2>1. \A i \in 0 .. n + 1 : C[i] = IF i = 0 THEN First ELSE Turn(i)
    <3> SUFFICES ASSUME NEW i \in 0 .. n + 1
                 PROVE  C[i] = IF i = 0 THEN First ELSE Turn(i)
      OBVIOUS
    <3>1. CASE i = n + 1
      BY <1>1, <3>1
    <3>2. CASE i # n + 1
      <4>1. i \in 0 .. n /\ (i # 0 => i \in 1 .. n)
        BY <1>1, <3>2
      <4> HIDE DEF First, Turn, n, longer
      <4>2. C[i] = B[i]
        BY <3>2
      <4> QED BY <1>2, <1>5, <4>1, <4>2 DEF Turn
    <3> QED BY <3>1, <3>2
  <2>2. \A i \in 0 .. n + 1 : i # 0 => Turn(i) = NextBin(longer, C[i - 1], i)
    <3> SUFFICES ASSUME NEW i \in 0 .. n + 1, i # 0
                 PROVE  Turn(i) = NextBin(longer, C[i - 1], i)
      OBVIOUS
    <3>1. i - 1 \in 0 .. n + 1 /\ i - 1 # n + 1
      BY <1>1
    <3> HIDE DEF n, longer
    <3>2. C[i - 1] = B[i - 1]
      BY <3>1
    <3> QED BY <3>2
  <2> DEFINE M == 0 .. n + 1
             V(i) == IF i = 0 THEN First ELSE NextBin(longer, C[i - 1], i)
  <2>3. C = [i \in M |-> C[i]]
    OBVIOUS
  <2>4. \A i \in M : C[i] = V(i)
    <3> HIDE DEF First, n, longer, C
    <3> QED BY <2>1, <2>2
  <2>5. C = [i \in M |-> V(i)]
    <3> HIDE DEF C, M, V
    <3> QED BY <2>3, <2>4
  <2>6. M = 0 .. Len(longer)
    BY <1>4
  <2> HIDE DEF C, M, longer
  <2> QED BY <2>5, <2>6 DEF IsBinning
<1> DEFINE k == n - c.packets + 1
           more == k .. n + 1
           turn == ThisBin(B[n], now, n + 1, drops, c.packets + 1, c.sum + latency)
<1>7. /\ k \in 1 .. Len(packets) + 1 /\ k \in 1 .. n + 1 /\ B[n].first = k
      /\ n + 2 - k = c.packets + 1
  <2>1. /\ n \in Nat /\ c.packets \in Nat /\ c.packets =< n
        /\ B[n] = [state |-> c.state, ended |-> c.start, first |-> n - c.packets + 1]
    BY <1>1
  <2> QED BY <2>1
<1>8. /\ Cardinality(more) = c.packets + 1
      /\ Total(Latencies(longer, more), more) = c.sum + latency
      /\ Cardinality(Drops(longer, more)) = drops
  <2> HIDE DEF k
  <2>1. LET m == Len(packets)
            l == Append(packets, x)
            b == k .. m
            a == k .. m + 1
        IN  /\ Cardinality(a) = m + 2 - k
            /\ Total(Latencies(l, a), a) = Total(Latencies(packets, b), b) + x.latency
            /\ Cardinality(Drops(l, a)) =
                 Cardinality(Drops(packets, b)) + (IF x.latency < DropThreshold THEN 1 ELSE 0)
    BY <1>1, <1>3, <1>7, BinGrows
  <2> QED BY <1>1, <1>3, <1>7, <2>1 DEF k
<1>9. Turn(n + 1) = turn
  <2>1. n + 1 \in 1 .. Len(longer) /\ (n + 1) - 1 = n
    BY <1>1, <1>4
  <2> DEFINE b == B[n]
             m == n + 1
             t == longer[n + 1].time
  <2>2. b.first = k /\ k \in 1 .. m /\ m \in 1 .. Len(longer) /\ t = now
    BY <1>3, <1>4, <1>7, <2>1
  <2> HIDE DEF b, m, k, longer, t
  <2>3. NextBin(longer, b, m) =
          ThisBin(b, longer[m].time, m, Cardinality(Drops(longer, k .. m)),
                  Cardinality(k .. m), Total(Latencies(longer, k .. m), k .. m))
    BY <1>4, <2>2, NextBinValues
  <2> QED BY <1>8, <2>1, <2>2, <2>3 DEF b, m, k, t
<1>10. /\ turn = [state |-> after.state, ended |-> after.start,
                  first |-> (n + 1) - after.packets + 1]
       /\ after \in Conges
       /\ \/ after.packets = 0 /\ after.sum = 0 /\ after.drops = 0
          \/ after.packets = c.packets + 1 /\ after.sum = c.sum + latency
               /\ after.drops = drops
  BY <1>1, TurnIsUpdate
<1>11. /\ after.packets =< n + 1 /\ after.packets \in Nat
       /\ (n + 1) - after.packets + 1 \in 1 .. (n + 1) + 1
  <2> HIDE DEF n, after, drops
  <2> QED BY <1>1, <1>10, SMTT(30) DEF Conges
<1>12. /\ \A i \in 0 .. n + 1 : C[i].first \in 1 .. i + 1 /\ C[C[i].first - 1] = C[i]
       /\ \A i \in 1 .. n + 1 : longer[i].given = C[i - 1].state
  <2>1. C[n + 1] = turn
    BY <1>1, <1>9
  <2>2. turn.first = (n + 1) - after.packets + 1
    <3> HIDE DEF turn, after
    <3> QED BY <1>10
  <2>3. \A i \in 0 .. n : C[i] = B[i]
    <3> HIDE DEF Turn
    <3> QED BY <1>1
  <2>4. turn = B[n] \/ turn.first = n + 2
    <3>1. turn = B[n] \/ turn.first = (n + 1) + 1
      BY DEF ThisBin
    <3> QED BY <1>1, <3>1
  <2>5. \A i \in 1 .. n : longer[i] = packets[i]
    BY <1>1, <1>3
  <2> HIDE DEF C, turn, after, n, longer
  <2>6. \A i \in 0 .. n : C[i].first \in 1 .. i + 1 /\ C[C[i].first - 1] = C[i]
    <3> TAKE i \in 0 .. n
    <3>1. B[i].first \in 1 .. i + 1 /\ B[i].first - 1 \in 0 .. n /\ B[B[i].first - 1] = B[i]
      BY <1>1
    <3> QED BY <2>3, <3>1
  <2>7. C[turn.first - 1] = turn
    <3>1. CASE turn = B[n]
      <4>1. n \in 0 .. n
        BY <1>1
      <4> QED BY <2>3, <2>6, <3>1, <4>1
    <3>2. CASE turn.first = n + 2
      <4>1. turn.first - 1 = n + 1
        BY <1>1, <3>2
      <4> QED BY <2>1, <4>1
    <3> QED BY <2>4, <3>1, <3>2
  <2>8. \A i \in 0 .. n + 1 : i = n + 1 \/ i \in 0 .. n
    BY <1>1
  <2>9. \A i \in 0 .. n + 1 : C[i].first \in 1 .. i + 1 /\ C[C[i].first - 1] = C[i]
    BY <1>11, <2>1, <2>2, <2>6, <2>7, <2>8
  <2>10. \A i \in 1 .. n : longer[i].given = C[i - 1].state
    <3> TAKE i \in 1 .. n
    <3>1. i - 1 \in 0 .. n
      BY <1>1
    <3> QED BY <1>1, <2>3, <2>5, <3>1
  <2>11. longer[n + 1].given = C[(n + 1) - 1].state
    <3>1. (n + 1) - 1 = n /\ n \in 0 .. n
      BY <1>1
    <3>2. B[n].state = c.state
      BY <1>1
    <3> QED BY <1>3, <1>4, <2>3, <3>1, <3>2
  <2>12. \A i \in 1 .. n + 1 : i = n + 1 \/ i \in 1 .. n
    BY <1>1
  <2> QED BY <2>9, <2>10, <2>11, <2>12
<1>13. LET last == (n + 1) - after.packets + 1 .. n + 1
       IN  /\ after.sum = Total(Latencies(longer, last), last)
           /\ after.drops = Cardinality(Drops(longer, last))
  <2> DEFINE last == (n + 1) - after.packets + 1 .. n + 1
  <2> SUFFICES /\ after.sum = Total(Latencies(longer, last), last)
               /\ after.drops = Cardinality(Drops(longer, last))
    OBVIOUS
  <2>1. CASE after.packets = 0 /\ after.sum = 0 /\ after.drops = 0
    <3>1. last = {}
      BY <1>1, <2>1
    <3>2. Total(Latencies(longer, {}), {}) = 0
      BY TotalEmpty
    <3>3. Drops(longer, {}) = {} /\ Cardinality({}) = 0
      BY FS_EmptySet DEF Drops
    <3> HIDE DEF last
    <3> QED BY <2>1, <3>1, <3>2, <3>3
  <2>2. CASE /\ after.packets = c.packets + 1 /\ after.sum = c.sum + latency
             /\ after.drops = drops
    <3>1. last = more
      BY <1>1, <2>2
    <3> HIDE DEF last, more, after, drops
    <3> QED BY <1>8, <2>2, <3>1
  <2> HIDE DEF last, after, drops, longer
  <2> QED BY <1>10, <2>1, <2>2
<1>14. C[n + 1] = turn
  BY <1>1, <1>9
<1> HIDE DEF C, turn, after, n, longer, drops
<1>15. BinOf(C, longer, after)
  BY <1>4, <1>6, <1>10, <1>11, <1>12, <1>13, <1>14 DEF BinOf
<1> QED BY <1>15 DEF x, after, longer

LEMMA AnswersInt == Answers \subseteq Nat \cup {-1}
<1>1. \A raw \in Raw : Clamped(raw) \in Nat
  BY MimicAssumption DEF Clamped, Lesser
<1> QED BY <1>1 DEF Answers, Dropped

\* The congestion state that has seen no packet
LEMMA NothingBinned == \E B : BinOf(B, <<>>, NoCongestion)
<1> DEFINE First == [state |-> "NO", ended |-> 0, first |-> 1]
           B == [n \in 0 .. 0 |-> First]
           none == <<>>
<1>1. none \in Seq(Packet) /\ Len(none) = 0
  OBVIOUS
<1>2. IsBinning(B, none)
  <2> DEFINE M == 0 .. Len(none)
             V(n) == IF n = 0 THEN First ELSE NextBin(none, B[n - 1], n)
  <2>1. M = 0 .. 0 /\ B = [n \in M |-> First]
    BY <1>1
  <2>2. \A n \in M : V(n) = First
    BY <2>1
  <2>3. B = [n \in M |-> V(n)]
    <3> HIDE DEF B, M, V
    <3> QED BY <2>1, <2>2
  <2> HIDE DEF B, none
  <2> QED BY <2>3 DEF IsBinning
<1>3. B[0] = First /\ 0 .. 0 = {0}
  OBVIOUS
<1>4. /\ NoCongestion \in Conges /\ NoCongestion.packets = 0 /\ NoCongestion.sum = 0
      /\ NoCongestion.drops = 0
      /\ NoCongestion.state = "NO" /\ NoCongestion.start = 0
  BY DEF NoCongestion, Conges, State
<1> DEFINE n == Len(none)
           bin == n - NoCongestion.packets + 1 .. n
<1>5. n = 0 /\ bin = {} /\ n - NoCongestion.packets + 1 = 1
  BY <1>1, <1>4
<1>6. Total(Latencies(none, bin), bin) = 0
  <2> HIDE DEF bin
  <2> QED BY <1>5, TotalEmpty
<1>7. Cardinality(Drops(none, bin)) = 0
  <2>1. Drops(none, bin) = {}
    BY <1>5 DEF Drops
  <2> QED BY <2>1, FS_EmptySet
<1>8. /\ \A i \in 0 .. n : B[i].first \in 1 .. i + 1 /\ B[B[i].first - 1] = B[i]
      /\ \A i \in 1 .. n : none[i].given = B[i - 1].state
  <2> HIDE DEF B, n
  <2> QED BY <1>3, <1>5
<1>9. BinOf(B, none, NoCongestion)
  <2> HIDE DEF B, n, bin
  <2>1. /\ none \in Seq(Packet)
        /\ NoCongestion \in Conges /\ NoCongestion.packets =< n
        /\ IsBinning(B, none)
        /\ \A i \in 0 .. n : B[i].first \in 1 .. i + 1 /\ B[B[i].first - 1] = B[i]
        /\ \A i \in 1 .. n : none[i].given = B[i - 1].state
        /\ B[n] = [state |-> NoCongestion.state, ended |-> NoCongestion.start,
                   first |-> n - NoCongestion.packets + 1]
        /\ NoCongestion.sum = Total(Latencies(none, bin), bin)
        /\ NoCongestion.drops = Cardinality(Drops(none, bin))
    BY <1>1, <1>2, <1>3, <1>4, <1>5, <1>6, <1>7, <1>8
  <2> HIDE DEF none
  <2> QED BY <2>1 DEF BinOf, n, bin
<1> QED BY <1>9 DEF none

LEMMA UpdateKeepsBins ==
  ASSUME BinInv, NEW d \in Dirs, NEW answer \in Answers, UpdateCongesState(d, answer),
         UNCHANGED now
  PROVE  BinInv'
<1> DEFINE latency == IF answer < 0 THEN 0 ELSE answer
           x == [time |-> now, latency |-> latency, given |-> conges[d].state]
           after == AfterPacket(conges[d], latency)
           longer == Append(log[d], x)
<1>1. latency \in Nat /\ now \in Nat
  BY AnswersInt DEF BinInv
<1>2. /\ conges' = [conges EXCEPT ![d] = after] /\ log' = [log EXCEPT ![d] = longer]
  BY DEF UpdateCongesState, GivenState
<1> HIDE DEF latency
<1>3. PICK C : BinOf(C, longer, after)
  <2>1. PICK B : BinOf(B, log[d], conges[d])
    BY DEF BinInv
  <2> QED BY <1>1, <2>1, UpdateBins
<1> HIDE DEF after, longer
<1>4. longer \in Seq(Packet) /\ after \in Conges
  BY <1>3 DEF BinOf
<1>5. /\ conges \in [Dirs -> Conges] /\ log \in [Dirs -> Seq(Packet)]
      /\ \A e \in Dirs : \E B : BinOf(B, log[e], conges[e])
  BY DEF BinInv
<1>6. /\ conges' \in [Dirs -> Conges] /\ log' \in [Dirs -> Seq(Packet)]
      /\ \A e \in Dirs : /\ log'[e] = IF e = d THEN longer ELSE log[e]
                         /\ conges'[e] = IF e = d THEN after ELSE conges[e]
  <2> DEFINE S == Seq(Packet)
  <2> HIDE DEF S
  <2>1. longer \in S /\ log \in [Dirs -> S]
    BY <1>4, <1>5 DEF S
  <2>2. /\ conges' \in [Dirs -> Conges] /\ log' \in [Dirs -> S]
      /\ \A e \in Dirs : /\ log'[e] = IF e = d THEN longer ELSE log[e]
                         /\ conges'[e] = IF e = d THEN after ELSE conges[e]
    BY <1>2, <1>4, <1>5, <2>1
  <2> QED BY <2>2 DEF S
<1>7. \A e \in Dirs : \E B : BinOf(B, log'[e], conges'[e])
  <2> TAKE e \in Dirs
  <2>1. CASE e = d
    BY <1>3, <1>6, <2>1
  <2>2. CASE e # d
    BY <1>5, <1>6, <2>2
  <2> QED BY <2>1, <2>2
<1>8. now' \in Nat
  BY <1>1
<1> QED BY <1>6, <1>7, <1>8 DEF BinInv

LEMMA StayBinned ==
  ASSUME BinInv, now' \in Nat, UNCHANGED <<conges, log>>
  PROVE  BinInv'
BY DEF BinInv

LEMMA InitBins == Init => BinInv
<1> SUFFICES ASSUME Init
             PROVE  BinInv
  OBVIOUS
<1>1. now = 0 /\ conges = [d \in Dirs |-> NoCongestion] /\ log = [d \in Dirs |-> <<>>]
  BY DEF Init
<1>2. PICK B : BinOf(B, <<>>, NoCongestion)
  BY NothingBinned
<1>3. <<>> \in Seq(Packet) /\ NoCongestion \in Conges
  BY DEF NoCongestion, Conges, State
<1>4. \A d \in Dirs : BinOf(B, log[d], conges[d])
  BY <1>1, <1>2
<1>5. conges \in [Dirs -> Conges] /\ log \in [Dirs -> Seq(Packet)]
  BY <1>1, <1>3
<1> QED BY <1>1, <1>4, <1>5 DEF BinInv

LEMMA NextBins == FlowInv /\ BinInv /\ [Next]_vars => BinInv'
<1> SUFFICES ASSUME FlowInv, BinInv, [Next]_vars
             PROVE  BinInv'
  OBVIOUS
<1>1. now \in Nat
  BY DEF BinInv
<1>2. ASSUME NEW d \in Dirs, LoadDone(d)
      PROVE  BinInv'
  BY <1>1, <1>2, StayBinned DEF LoadDone, simVars
<1>3. ASSUME NEW d \in Dirs, NEW step \in Steps, LoadStep(d, step)
      PROVE  BinInv'
  BY <1>1, <1>3, StayBinned DEF LoadStep, simVars
<1>4. ASSUME NEW f \in Frames, HandleEgress(f)
      PROVE  BinInv'
  <2>1. UNCHANGED now
    BY <1>4 DEF HandleEgress
  <2>2. CASE Frame[f].srcSubtree = Frame[f].destSubtree
    BY <1>1, <1>4, <2>1, <2>2, StayBinned DEF HandleEgress
  <2>3. CASE Frame[f].srcSubtree # Frame[f].destSubtree
    <3>1. Predict("egr", f, FALSE, EgressKind(f))
      BY <1>4, <2>3 DEF HandleEgress
    <3>2. PICK answer \in Answers : UpdateCongesState("egr", answer)
      BY <3>1 DEF Predict
    <3>3. "egr" \in Dirs
      BY DEF Dirs
    <3> QED BY <2>1, <3>2, <3>3, UpdateKeepsBins
  <2> QED BY <2>2, <2>3
<1>5. ASSUME NEW f \in Frames, HandleIngress(f)
      PROVE  BinInv'
  <2>1. UNCHANGED now /\ Predict("ing", f, FALSE, IngressKind(f))
    BY <1>5 DEF HandleIngress
  <2>2. PICK answer \in Answers : UpdateCongesState("ing", answer)
    BY <2>1 DEF Predict
  <2>3. "ing" \in Dirs
    BY DEF Dirs
  <2> QED BY <2>1, <2>2, <2>3, UpdateKeepsBins
<1>6. ASSUME NEW f \in Frames, HandleARPReq(f)
      PROVE  BinInv'
  BY <1>1, <1>6, StayBinned DEF HandleARPReq
<1>7. ASSUME NEW e \in delayed, RouteMsg(e)
      PROVE  BinInv'
  BY <1>1, <1>7, StayBinned DEF RouteMsg
<1>8. ASSUME NEW m \in messages, Prescheduled(m)
      PROVE  BinInv'
  <2>1. PICK answer \in Answers : UpdateCongesState(m.dir, answer)
    BY <1>8 DEF Prescheduled
  <2>2. UNCHANGED now
    BY <1>8 DEF Prescheduled
  <2> DEFINE d == m.dir
  <2>3. d \in Dirs /\ UpdateCongesState(d, answer)
    BY <2>1 DEF FlowInv, LoadTypes, Message
  <2> HIDE DEF d
  <2> QED BY <2>2, <2>3, UpdateKeepsBins
<1>9. ASSUME Tick
      PROVE  BinInv'
  BY <1>1, <1>9, StayBinned DEF Tick
<1>10. CASE UNCHANGED vars
  BY <1>1, <1>10, StayBinned DEF vars, simVars
<1> QED BY <1>2, <1>3, <1>4, <1>5, <1>6, <1>7, <1>8, <1>9, <1>10 DEF Next

\* A binning determines what the model was given: of the bin that ends before
\* the bin of packet j, the closing packet is first - 1.
LEMMA BinsLag == BinInv => FeatureLagsOneBin
<1> SUFFICES ASSUME BinInv, NEW d \in Dirs, NEW j \in DOMAIN log[d]
             PROVE  LET first == Bins(log[d])[j - 1].first
                    IN  log[d][j].given = IF first = 1 THEN "NO" ELSE Label(log[d], first - 1)
  BY DEF FeatureLagsOneBin
<1> DEFINE packets == log[d]
           n == Len(packets)
           C == CHOOSE B : IsBinning(B, packets)
           F == [state |-> "NO", ended |-> 0, first |-> 1]
<1>1. PICK B : BinOf(B, packets, conges[d])
  BY DEF BinInv
<1>2. packets \in Seq(Packet) /\ n \in Nat /\ j \in 1 .. n
  BY <1>1 DEF BinOf
<1> HIDE DEF packets
<1>3. /\ IsBinning(B, packets)
      /\ \A i \in 0 .. n : B[i].first \in 1 .. i + 1 /\ B[B[i].first - 1] = B[i]
      /\ \A i \in 1 .. n : packets[i].given = B[i - 1].state
  BY <1>1 DEF BinOf
<1>4. Bins(packets) = B
  <2>1. IsBinning(C, packets)
    <3> DEFINE P(X) == IsBinning(X, packets)
    <3>1. \E X : P(X)
      BY <1>3
    <3> HIDE DEF P
    <3>2. P(CHOOSE X : P(X))
      BY <3>1
    <3> QED BY <3>2 DEF P
  <2>2. Bins(packets) = C
    BY BinsUnfold
  <2> HIDE DEF C
  <2> QED BY <1>2, <1>3, <2>1, <2>2, BinningUnique
<1>5. B[0].state = "NO"
  <2> HIDE DEF F
  <2>1. B = [i \in 0 .. n |-> IF i = 0 THEN F ELSE NextBin(packets, B[i - 1], i)]
    BY <1>3 DEF IsBinning, F
  <2>2. 0 \in 0 .. n
    BY <1>2
  <2> HIDE DEF n
  <2>3. B[0] = F
    BY <2>1, <2>2
  <2> QED BY <2>3 DEF F
<1> DEFINE first == B[j - 1].first
<1>6. first \in 1 .. j /\ B[first - 1] = B[j - 1]
  <2>1. j - 1 \in 0 .. n /\ (j - 1) + 1 = j
    BY <1>2
  <2> QED BY <1>3, <2>1
<1>7. packets[j].given = B[j - 1].state
  BY <1>2, <1>3
<1>8. CASE first = 1
  <2>1. B[0] = B[j - 1]
    BY <1>6, <1>8
  <2> QED BY <1>4, <1>5, <1>7, <1>8, <2>1 DEF packets
<1>9. CASE first # 1
  <2> DEFINE k == first - 1
             closings == {i \in k .. n : B[i].first = i + 1}
  <2>1. k \in 0 .. n /\ k + 1 = first /\ B[k].first = first
    BY <1>2, <1>6
  <2> HIDE DEF first
  <2>2. k \in closings /\ \A i \in closings : k =< i
    <3> HIDE DEF k
    <3> QED BY <1>2, <2>1
  <2>3. Min(closings) = k
    <3>1. closings \subseteq Int
      BY <1>2
    <3> HIDE DEF closings, k
    <3>2. \A m \in closings : (\A i \in closings : m =< i) => m = k
      BY <2>2, <3>1
    <3> QED BY <2>2, <3>2 DEF Min
  <2>4. closings # {}
    BY <2>2
  <2>5. Label(packets, k) = B[IF closings = {} THEN n ELSE Min(closings)].state
    BY <1>4 DEF Label
  <2> HIDE DEF closings
  <2>6. Label(packets, k) = B[k].state
    BY <2>3, <2>4, <2>5
  <2>7. B[k].state = packets[j].given
    BY <1>6, <1>7 DEF first
  <2> QED BY <1>4, <1>9, <2>6, <2>7 DEF packets, first
<1> QED BY <1>8, <1>9

\* Each packet is given to the model (predict) with the label that
\* bin_data_by_time.py gives the packets of the bin before its own, however
\* many packets there were, in whatever bins, and whatever the model answered:
\* the feature lags the label that the models are trained on by just one bin.
THEOREM FeatureIsLastLabel == Spec => []FeatureLagsOneBin
<1>1. Init => FlowInv /\ BinInv
  BY InitFlows, InitBins
<1>2. FlowInv /\ BinInv /\ [Next]_vars => FlowInv' /\ BinInv'
  BY NextFlows, NextBins
<1> QED BY <1>1, <1>2, BinsLag, PTL DEF Spec
=============================================================================
