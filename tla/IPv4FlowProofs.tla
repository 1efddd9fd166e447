---------------------------- MODULE IPv4FlowProofs ----------------------------
(***************************************************************************)
(* What is true of the network layer for any datagrams, routes, hooks and  *)
(* next hops: its types, that nothing waits for an address that nobody     *)
(* asks for, that datagrams for one next hop keep their order, and that    *)
(* every byte of a unicast datagram is in one place.                       *)
(***************************************************************************)
EXTENDS IPv4Flow, SequenceTheorems, FiniteFacts

\* What the hooks queue: only a datagram that goes out or goes up may have no
\* interface to go on with.
QueuedDatagram ==
  {x \in [p: Piece, at: HookPoints, ie: Ifaces \cup {HL}, hop: Hops \cup {Wire}] :
     x.at \in {"LOCALIN", "LOCALOUT"} \/ x.ie \in Ifaces}

Plan == [hop: Hops \cup {Wire}, send: Seq(Piece), loop: Seq(Piece), wire: SUBSET Piece,
         local: SUBSET Piece, hook: SUBSET QueuedDatagram, lost: SUBSET Piece]

Inv == TypeOK /\ hooked \subseteq QueuedDatagram /\ PendingAwaitsArp

-----------------------------------------------------------------------------
(* The plans are well formed.                                               *)

\* The plans that most branches end in.
LEMMA SimplePlans ==
  /\ Nothing \in Plan
  /\ \A p \in Piece : Lose(p) \in Plan /\ Deliver(p) \in Plan
<1>1. <<>> \in Seq(Piece) /\ Wire \in Hops \cup {Wire}
  OBVIOUS
<1>2. Nothing \in Plan
  BY <1>1 DEF Nothing, Plan
<1> QED BY <1>2 DEF Lose, Deliver, Plan

\* Send hands the pieces to one way out.
LEMMA SendPlan ==
  ASSUME NEW ps \in Seq(Piece), NEW ie \in Ifaces, NEW hop \in Hops \cup {Wire}
  PROVE  Send(ps, ie, hop) \in Plan
<1>1. Range(ps) \subseteq Piece
  BY DEF Range
<1>2. Nothing \in Plan
  BY SimplePlans
<1> QED BY <1>1, <1>2 DEF Send, Plan

\* The fragments of a datagram are datagrams.
LEMMA FragmentsType ==
  ASSUME NEW p \in Piece, NEW size \in Nat \ {0}
  PROVE  Fragments(p, size) \in Seq(Piece)
<1> DEFINE n == (p.len + size - 1) \div size
<1>1. p.len \in Nat /\ p.off \in Nat /\ p.more \in BOOLEAN
  BY DEF Piece
<1>2. n \in Nat
  BY <1>1
<1>3. n * size <= p.len + size - 1
  BY <1>1
<1>4. ASSUME NEW k \in 1 .. n
      PROVE  /\ (k - 1) * size \in Nat
             /\ p.len - (k - 1) * size \in Nat
  <2>1. k \in Nat /\ k - 1 \in Nat /\ n - k \in Nat
    BY <1>2
  <2>2. (k - 1) * size \in Nat /\ (n - k) * size \in Nat
    BY <2>1
  <2>3. n * size = (k - 1) * size + size + (n - k) * size
    BY <1>2, <2>1
  <2> QED BY <1>1, <1>3, <2>2, <2>3
<1>5. ASSUME NEW k \in 1 .. n
      PROVE  Fragments(p, size)[k] \in Piece
  <2> DEFINE offset == (k - 1) * size
  <2>1. PICK more \in BOOLEAN, len \in Nat :
          Fragments(p, size)[k] = [p EXCEPT !.off = p.off + offset, !.len = len,
                                            !.more = more]
    <3> DEFINE last == offset + size >= p.len
    <3>1. Fragments(p, size)[k] =
            [p EXCEPT !.off = p.off + offset,
                      !.len = IF last THEN p.len - offset ELSE size,
                      !.more = IF last THEN p.more ELSE TRUE]
      BY DEF Fragments
    <3>2. (IF last THEN p.len - offset ELSE size) \in Nat
      BY <1>4
    <3>3. (IF last THEN p.more ELSE TRUE) \in BOOLEAN
      BY <1>1
    <3> HIDE DEF last
    <3> QED BY <3>1, <3>2, <3>3
  <2>2. p.off + offset \in Nat
    BY <1>1, <1>4
  <2> HIDE DEF offset
  <2> QED BY <2>1, <2>2 DEF Piece
<1>6. Fragments(p, size) = [k \in 1 .. n |-> Fragments(p, size)[k]]
  BY DEF Fragments
<1> DEFINE f == Fragments(p, size)
<1> HIDE DEF f, n
<1>7. f \in [1 .. n -> Piece]
  BY <1>5, <1>6 DEF f
<1>8. f \in Seq(Piece)
  BY <1>2, <1>7, SeqDef
<1> QED BY <1>8 DEF f

\* fragmentAndSend: the TTL is not counted down below zero, and a fragment
\* holds at least eight bytes.
LEMMA FragmentAndSendPlan ==
  ASSUME NEW p \in Piece, NEW ie \in Ifaces, NEW hop \in Hops \cup {Wire}
  PROVE  FragmentAndSend(p, ie, hop) \in Plan
<1>1. CASE ie # Loopback /\ p.ttl = 0
  BY <1>1, SimplePlans DEF FragmentAndSend
<1>2. CASE ~(ie # Loopback /\ p.ttl = 0)
  <2> DEFINE q == IF ie = Loopback THEN p ELSE [p EXCEPT !.ttl = @ - 1]
  <2>1. q \in Piece
    BY <1>2 DEF Piece
  <2>2. <<q>> \in Seq(Piece)
    BY <2>1
  <2> HIDE DEF q
  <2>3. FragmentAndSend(p, ie, hop) =
          IF Mtu[ie] = 0 \/ Header + q.len =< Mtu[ie] THEN Send(<<q>>, ie, hop)
          ELSE IF q.id \in DontFragment THEN Lose(q)
          ELSE Send(Fragments(q, FragmentLength(Mtu[ie])), ie, hop)
    BY <1>2 DEF FragmentAndSend, q
  <2>4. CASE Mtu[ie] # 0
    <3>1. Mtu[ie] \in Nat /\ Header \in Nat /\ Mtu[ie] >= Header + 8
      BY <2>4, IPAssumption
    <3>2. FragmentLength(Mtu[ie]) \in Nat \ {0}
      BY <3>1 DEF FragmentLength
    <3>3. Fragments(q, FragmentLength(Mtu[ie])) \in Seq(Piece)
      BY <2>1, <3>2, FragmentsType
    <3> QED BY <2>1, <2>2, <2>3, <3>3, SendPlan, SimplePlans
  <2>5. CASE Mtu[ie] = 0
    BY <2>2, <2>3, <2>5, SendPlan
  <2> QED BY <2>4, <2>5
<1> QED BY <1>1, <1>2

\* A hook point lets a plan go on, or queues or takes the datagram.
LEMMA HookedPlan ==
  ASSUME NEW p \in Piece, NEW at \in HookPoints, NEW ie \in Ifaces \cup {HL},
         NEW hop \in Hops \cup {Wire}, NEW v, NEW plan \in Plan,
         at \in {"LOCALIN", "LOCALOUT"} \/ ie \in Ifaces
  PROVE  Hooked(at, p, ie, hop, v, plan) \in Plan
<1>1. Entry(p, at, ie, hop) \in QueuedDatagram
  BY DEF Entry, QueuedDatagram
<1>2. [Nothing EXCEPT !.hook = {Entry(p, at, ie, hop)}] \in Plan
  <2> HIDE DEF Entry
  <2> QED BY <1>1, SimplePlans DEF Plan
<1> QED BY <1>2, SimplePlans DEF Hooked

\* Going out over one interface.
LEMMA PostRoutingPlan ==
  ASSUME NEW p \in Piece, NEW ie \in Ifaces, NEW hop \in Hops \cup {Wire}, NEW v
  PROVE  PostRouting(p, ie, hop, v) \in Plan
BY FragmentAndSendPlan, HookedPlan DEF PostRouting, HookPoints

\* A copy over each of a set of interfaces: at most that over lo0 is looped.
LEMMA PostRoutingAllPlan ==
  ASSUME NEW p \in Piece, NEW ies \in SUBSET Ifaces, NEW v
  PROVE  PostRoutingAll(p, ies, v) \in Plan
<1> DEFINE plans == {PostRouting(p, ie, Wire, v) : ie \in ies}
           loop == IF Loopback \in ies THEN PostRouting(p, Loopback, Wire, v).loop ELSE <<>>
<1>1. \A ie \in Ifaces : PostRouting(p, ie, Wire, v) \in Plan
  BY PostRoutingPlan
<1>2. plans \subseteq Plan
  BY <1>1
<1>3. loop \in Seq(Piece)
  BY <1>1, IPAssumption DEF Plan
<1>4. PostRoutingAll(p, ies, v) =
        [Nothing EXCEPT !.loop = loop,
                        !.wire = UNION {plan.wire : plan \in plans},
                        !.hook = UNION {plan.hook : plan \in plans},
                        !.lost = UNION {plan.lost : plan \in plans}]
  BY DEF PostRoutingAll
<1> HIDE DEF plans, loop
<1>5. /\ UNION {plan.wire : plan \in plans} \subseteq Piece
      /\ UNION {plan.hook : plan \in plans} \subseteq QueuedDatagram
      /\ UNION {plan.lost : plan \in plans} \subseteq Piece
  BY <1>2 DEF Plan
<1> QED BY <1>3, <1>4, <1>5, SimplePlans DEF Plan

-----------------------------------------------------------------------------
(* Routing *)

RouteAnswer == RouteTo \cup {NoRoute}

\* A unicast datagram takes the route it is given, or is lost.
LEMMA UnicastPlan ==
  ASSUME NEW p \in Piece, NEW from \in Ifaces \cup {HL}, NEW route \in RouteAnswer, NEW v
  PROVE  RouteUnicastPacket(p, from, route, v) \in Plan
<1>1. CASE route = NoRoute
  BY <1>1, SimplePlans DEF RouteUnicastPacket
<1>2. CASE route # NoRoute
  <2>1. route.ie \in Ifaces /\ route.hop \in Hops \cup {Wire}
    BY <1>2 DEF RouteAnswer, RouteTo
  <2>2. PostRouting(p, route.ie, route.hop, v) \in Plan
    BY <2>1, PostRoutingPlan
  <2>3. Hooked("FORWARD", p, route.ie, route.hop, v,
               PostRouting(p, route.ie, route.hop, v)) \in Plan
    BY <2>1, <2>2, HookedPlan DEF HookPoints
  <2> QED BY <1>2, <2>2, <2>3 DEF RouteUnicastPacket
<1> QED BY <1>1, <1>2

\* A datagram of a higher layer, whatever its destination.
LEMMA LocalOutPlan ==
  ASSUME NEW p \in Piece, NEW route \in RouteAnswer, NEW v
  PROVE  DatagramLocalOut(p, route, v) \in Plan
<1>1. route # NoRoute => route.ie \in Ifaces
  BY DEF RouteAnswer, RouteTo
<1>2. PostRouting(p, Loopback, Wire, v) \in Plan
  BY PostRoutingPlan, IPAssumption
<1>3. MulticastOut(p, route, v) \in Plan
  <2>1. route # NoRoute => {Loopback, route.ie} \in SUBSET Ifaces
    BY <1>1, IPAssumption
  <2>2. PostRoutingAll(p, {Loopback}, v) \in Plan
    BY IPAssumption, PostRoutingAllPlan
  <2>3. ASSUME NEW plan \in Plan
        PROVE  [plan EXCEPT !.lost = @ \cup {p}] \in Plan
    BY DEF Plan
  <2> QED BY <1>2, <2>1, <2>2, <2>3, PostRoutingAllPlan DEF MulticastOut
<1>4. RouteLocalBroadcastPacket(p, route, v) \in Plan
  BY <1>1, SimplePlans, PostRoutingPlan, PostRoutingAllPlan DEF RouteLocalBroadcastPacket
<1>5. RouteUnicastPacket(p, HL, route, v) \in Plan
  BY UnicastPlan
<1> QED BY <1>2, <1>3, <1>4, <1>5 DEF DatagramLocalOut

\* A datagram of an interface, whatever its destination.
LEMMA PreroutingPlan ==
  ASSUME NEW p \in Piece, NEW from \in Ifaces, NEW route \in RouteAnswer, NEW v
  PROVE  PreroutingFinish(p, from, route, v) \in Plan
<1>1. p.id \in Ids
  BY DEF Piece
<1>2. ForwardMulticastPacket(p, from, v) \in Plan
  <2>1. MRouteOuts[p.id] \ {from} \in SUBSET Ifaces
    BY <1>1, IPAssumption
  <2> QED BY <2>1, SimplePlans, PostRoutingAllPlan DEF ForwardMulticastPacket
<1>3. ASSUME NEW plan \in Plan
      PROVE  [plan EXCEPT !.local = {p}] \in Plan
  BY DEF Plan
<1>4. MulticastIn(p, from, v) \in Plan
  BY <1>2, <1>3, SimplePlans DEF MulticastIn
<1>5. BroadcastIn(p, from, v) \in Plan
  <2>1. PostRouting(p, Subnet[p.id], Wire, v) \in Plan
    BY <1>1, IPAssumption, PostRoutingPlan
  <2> QED BY <1>3, <2>1, SimplePlans DEF BroadcastIn
<1>6. RouteUnicastPacket(p, from, route, v) \in Plan
  BY UnicastPlan
<1> QED BY <1>4, <1>5, <1>6, SimplePlans DEF PreroutingFinish

\* The first hook, and what follows it.
LEMMA HandlePlan ==
  ASSUME NEW p \in Piece, NEW from \in Ifaces \cup {HL}, NEW route \in RouteAnswer, NEW v
  PROVE  Handle(p, from, route, v) \in Plan
<1>1. DatagramLocalOut(p, route, v) \in Plan
  BY LocalOutPlan
<1>2. Hooked("LOCALOUT", p, HL, Wire, v, DatagramLocalOut(p, route, v)) \in Plan
  BY <1>1, HookedPlan DEF HookPoints
<1>3. from \in Ifaces => PreroutingFinish(p, from, route, v) \in Plan
  BY PreroutingPlan
<1>4. from \in Ifaces =>
        Hooked("PREROUTING", p, from, Wire, v, PreroutingFinish(p, from, route, v)) \in Plan
  BY <1>3, HookedPlan DEF HookPoints
<1> QED BY <1>2, <1>4 DEF Handle

\* What follows the hook that queued a datagram.
LEMMA ResumePlan ==
  ASSUME NEW x \in QueuedDatagram, NEW route \in RouteAnswer, NEW v, x.at # "LOCALIN"
  PROVE  Resume(x, route, v) \in Plan
<1>1. x.p \in Piece /\ x.hop \in Hops \cup {Wire} /\ x.at \in HookPoints
  BY DEF QueuedDatagram
<1>2. x.at # "LOCALOUT" => x.ie \in Ifaces
  BY DEF QueuedDatagram
<1>3. DatagramLocalOut(x.p, route, v) \in Plan
  BY <1>1, LocalOutPlan
<1>4. x.ie \in Ifaces => /\ PreroutingFinish(x.p, x.ie, route, v) \in Plan
                         /\ PostRouting(x.p, x.ie, x.hop, v) \in Plan
                         /\ FragmentAndSend(x.p, x.ie, x.hop) \in Plan
  BY <1>1, PreroutingPlan, PostRoutingPlan, FragmentAndSendPlan
<1> QED BY <1>1, <1>2, <1>3, <1>4 DEF Resume, HookPoints

-----------------------------------------------------------------------------
(* A plan is carried out.                                                   *)

\* Reassembly yields datagrams: whoever completes a datagram has its last part.
LEMMA ReassembledType ==
  ASSUME TypeOK, NEW ps \in SUBSET Piece, NEW v, NEW stale
  PROVE  LET in == ReassembleAndDeliver(ps, v, stale)
         IN /\ in.fragbuf \subseteq Piece
            /\ in.up \subseteq Piece
            /\ in.hook \subseteq QueuedDatagram
            /\ in.lost \subseteq Piece
<1> DEFINE buf == Kept(stale)
           parts == {p \in ps : IsFragment(p)}
           whole == {Whole(p, buf) : p \in {q \in parts : Completes(q, buf)}}
           done == whole \cup (ps \ parts)
<1>1. buf \subseteq Piece
  BY DEF Kept, TypeOK
<1>2. ASSUME NEW p \in Piece, Completes(p, buf)
      PROVE  Whole(p, buf) \in Piece
  <2> DEFINE last == CHOOSE f \in Parts(p, buf) : ~f.more
  <2>1. last \in Parts(p, buf)
    BY <1>2 DEF Completes
  <2>2. last \in Piece
    BY <1>1, <2>1 DEF Parts
  <2>3. last.off + last.len \in Nat
    BY <2>2 DEF Piece
  <2>4. PICK len \in Nat : Whole(p, buf) = [p EXCEPT !.off = 0, !.len = len, !.more = FALSE]
    BY <2>3 DEF Whole
  <2>5. [p EXCEPT !.off = 0, !.len = len, !.more = FALSE] \in Piece
    BY DEF Piece
  <2> QED BY <2>4, <2>5
<1>3. whole \subseteq Piece /\ parts \subseteq Piece
  BY <1>2
<1> HIDE DEF whole, parts, buf
<1>4. done \subseteq Piece
  BY <1>3
<1>5. \A p \in Piece : Entry(p, "LOCALIN", HL, Wire) \in QueuedDatagram
  BY DEF Entry, QueuedDatagram, HookPoints
<1> DEFINE in == ReassembleAndDeliver(ps, v, stale)
<1>6. /\ in.fragbuf = {f \in buf \cup parts : \A w \in whole : w.id # f.id}
      /\ in.up = {p \in done : v["LOCALIN"] = "ACCEPT"}
      /\ in.hook = {Entry(p, "LOCALIN", HL, Wire) : p \in {q \in done : v["LOCALIN"] = "QUEUE"}}
      /\ in.lost = {p \in done : v["LOCALIN"] \in {"DROP", "STOLEN"}}
  BY DEF ReassembleAndDeliver, whole, parts, buf
<1> HIDE DEF in, done
<1>7. in.hook \subseteq QueuedDatagram
  <2> HIDE DEF Entry
  <2> QED BY <1>4, <1>5, <1>6
<1>8. /\ in.fragbuf \subseteq Piece
      /\ in.up \subseteq Piece
      /\ in.lost \subseteq Piece
  BY <1>1, <1>3, <1>4, <1>6
<1> QED BY <1>7, <1>8 DEF in

\* A sequence is a prefix of what it is extended to.
LEMMA PrefixOfConcat ==
  ASSUME NEW S, NEW s \in Seq(S), NEW t \in Seq(S)
  PROVE  IsPrefix(s, s \o t)
<1>1. /\ s \o t \in Seq(S) /\ Len(s \o t) = Len(s) + Len(t)
      /\ \A k \in 1 .. Len(s) : (s \o t)[k] = s[k]
      /\ Len(s) \in Nat /\ Len(t) \in Nat
  OBVIOUS
<1>2. SubSeq(s, 1, Len(s)) = SubSeq(s \o t, 1, Len(s))
  BY <1>1
<1> QED BY <1>1, <1>2 DEF IsPrefix

\* sendDatagramToOutput appends to what was sent, or to what waits with ARP at
\* work: since nothing waits for a known address, nothing is overtaken.
LEMMA SendDatagramToOutputStep ==
  ASSUME TypeOK, PendingAwaitsArp, NEW plan \in Plan, SendDatagramToOutput(plan)
  PROVE  /\ out' \in [Hops -> Seq(Piece)]
         /\ pending' \in [Hops -> Seq(Piece)]
         /\ arp' \in [Hops -> {"none", "pending", "known", "expired"}]
         /\ retries' \in [Hops -> 0 .. RetryCount - 1]
         /\ \A h \in Hops : pending'[h] # <<>> => arp'[h] = "pending"
         /\ \A h \in Hops : IsPrefix(out[h] \o pending[h], out'[h] \o pending'[h])
<1> DEFINE hop == plan.hop
<1>1. /\ out \in [Hops -> Seq(Piece)] /\ pending \in [Hops -> Seq(Piece)]
      /\ arp \in [Hops -> {"none", "pending", "known", "expired"}]
      /\ retries \in [Hops -> 0 .. RetryCount - 1]
      /\ \A h \in Hops : pending[h] # <<>> => arp[h] = "pending"
  BY DEF TypeOK, PendingAwaitsArp
<1>2. plan.send \in Seq(Piece) /\ 0 \in 0 .. RetryCount - 1
  BY IPAssumption DEF Plan
<1> DEFINE send == plan.send
<1> HIDE DEF hop, send
<1>3. \A h \in Hops : /\ out[h] \o send \in Seq(Piece)
                      /\ pending[h] \o send \in Seq(Piece)
                      /\ out[h] \o pending[h] \in Seq(Piece)
  BY <1>1, <1>2 DEF send
<1>4. \A h \in Hops : IsPrefix(out[h] \o pending[h], out[h] \o pending[h])
  <2> TAKE h \in Hops
  <2>1. out[h] \o pending[h] \in Seq(Piece) /\ <<>> \in Seq(Piece)
    BY <1>1
  <2>2. (out[h] \o pending[h]) \o <<>> = out[h] \o pending[h]
    BY <2>1
  <2> QED BY <2>1, <2>2, PrefixOfConcat
<1>5. CASE send = <<>>
  BY <1>1, <1>4, <1>5 DEF SendDatagramToOutput, send
<1>6. CASE send # <<>> /\ arp[hop] = "known"
  <2>1. /\ out' = [out EXCEPT ![hop] = @ \o send]
        /\ UNCHANGED <<pending, arp, retries>>
    BY <1>6 DEF SendDatagramToOutput, hop, send
  <2>2. out' \in [Hops -> Seq(Piece)]
    BY <1>1, <1>3, <2>1
  <2>3. ASSUME NEW h \in Hops
        PROVE  IsPrefix(out[h] \o pending[h], out'[h] \o pending'[h])
    <3>1. CASE h # hop
      BY <1>1, <1>4, <2>1, <3>1
    <3>2. CASE h = hop
      <4>1. pending[h] = <<>> /\ pending'[h] = <<>> /\ out'[h] = out[h] \o send
        BY <1>1, <1>6, <2>1, <3>2
      <4>2. /\ out[h] \o pending[h] = out[h]
            /\ out'[h] \o pending'[h] = out[h] \o send
        BY <1>1, <1>3, <4>1
      <4>3. IsPrefix(out[h], out[h] \o send)
        BY <1>1, <1>2, PrefixOfConcat DEF send
      <4> QED BY <4>2, <4>3
    <3> QED BY <3>1, <3>2
  <2> QED BY <1>1, <2>1, <2>2, <2>3
<1>7. CASE send # <<>> /\ arp[hop] # "known"
  <2>1. /\ pending' = [pending EXCEPT ![hop] = @ \o send]
        /\ arp' = [arp EXCEPT ![hop] = "pending"]
        /\ retries' = [retries EXCEPT ![hop] = IF arp[hop] = "pending" THEN @ ELSE 0]
        /\ out' = out
    BY <1>7 DEF SendDatagramToOutput, hop, send
  <2>2. pending' \in [Hops -> Seq(Piece)]
    BY <1>1, <1>3, <2>1
  <2>3. /\ arp' \in [Hops -> {"none", "pending", "known", "expired"}]
        /\ retries' \in [Hops -> 0 .. RetryCount - 1]
    BY <1>1, <1>2, <2>1
  <2>4. \A h \in Hops : pending'[h] # <<>> => arp'[h] = "pending"
    BY <1>1, <2>1
  <2>5. ASSUME NEW h \in Hops
        PROVE  IsPrefix(out[h] \o pending[h], out'[h] \o pending'[h])
    <3>1. CASE h # hop
      BY <1>1, <1>4, <2>1, <3>1
    <3>2. CASE h = hop
      <4>1. out'[h] \o pending'[h] = out[h] \o (pending[h] \o send)
        BY <1>1, <2>1, <3>2
      <4>2. (out[h] \o pending[h]) \o send = out[h] \o (pending[h] \o send)
        <5>1. out[h] \in Seq(Piece) /\ pending[h] \in Seq(Piece) /\ send \in Seq(Piece)
          BY <1>1, <1>2 DEF send
        <5>2. \A s, t, u \in Seq(Piece) : (s \o t) \o u = s \o (t \o u)
          BY ConcatAssociative
        <5> QED BY <5>1, <5>2, Zenon
      <4>3. IsPrefix(out[h] \o pending[h], (out[h] \o pending[h]) \o send)
        BY <1>2, <1>3, PrefixOfConcat DEF send
      <4> QED BY <4>1, <4>2, <4>3
    <3> QED BY <3>1, <3>2
  <2> QED BY <1>1, <2>1, <2>2, <2>3, <2>4, <2>5
<1> QED BY <1>5, <1>6, <1>7

\* What NoOvertaking asks of one step
KeepsOrder ==
  \A h \in Hops : \/ IsPrefix(out[h] \o pending[h], out'[h] \o pending'[h])
                  \/ out'[h] = out[h] /\ pending'[h] = <<>>

\* A step that moves no datagram of a next hop overtakes none.
LEMMA NothingSent ==
  ASSUME TypeOK, out' = out, pending' = pending
  PROVE  KeepsOrder
<1> SUFFICES ASSUME NEW h \in Hops
             PROVE  IsPrefix(out[h] \o pending[h], out'[h] \o pending'[h])
  BY DEF KeepsOrder
<1>1. out[h] \o pending[h] \in Seq(Piece) /\ <<>> \in Seq(Piece)
  BY DEF TypeOK
<1>2. (out[h] \o pending[h]) \o <<>> = out[h] \o pending[h]
  BY <1>1
<1>3. IsPrefix(out[h] \o pending[h], out[h] \o pending[h])
  BY <1>1, <1>2, PrefixOfConcat
<1> QED BY <1>3

\* A plan carried out keeps the types, the wait for ARP and the order.
LEMMA CarryStep ==
  ASSUME Inv, up, NEW plan \in Plan, NEW v, NEW stale, NEW rest \in Seq(Item), NEW done,
         Carry(plan, v, stale, rest, done), UNCHANGED <<up, todo, mapping>>
  PROVE  Inv' /\ KeepsOrder
<1> DEFINE in == ReassembleAndDeliver(plan.local, v, stale)
           looped == [k \in DOMAIN plan.loop |-> [p |-> plan.loop[k], from |-> Loopback]]
<1>1. TypeOK /\ PendingAwaitsArp /\ hooked \subseteq QueuedDatagram
  BY DEF Inv
<1>2. /\ plan.local \subseteq Piece /\ plan.wire \subseteq Piece /\ plan.lost \subseteq Piece
      /\ plan.hook \subseteq QueuedDatagram /\ plan.loop \in Seq(Piece)
  BY DEF Plan
<1>3. /\ in.fragbuf \subseteq Piece /\ in.up \subseteq Piece
      /\ in.hook \subseteq QueuedDatagram /\ in.lost \subseteq Piece
  BY <1>1, <1>2, ReassembledType
<1>4. /\ queue' = rest \o looped
      /\ fragbuf' = in.fragbuf
      /\ delivered' = delivered \cup Registered(in.up)
      /\ hooked' = (hooked \ done) \cup plan.hook \cup in.hook
      /\ gone' = gone \cup plan.lost \cup plan.wire \cup in.lost
                      \cup (in.up \ Registered(in.up)) \cup (fragbuf \ Kept(stale))
      /\ SendDatagramToOutput(plan)
  BY DEF Carry
<1>5. looped \in Seq(Item)
  <2>1. plan.loop \in [1 .. Len(plan.loop) -> Piece] /\ Len(plan.loop) \in Nat
    BY <1>2
  <2>2. DOMAIN plan.loop = 1 .. Len(plan.loop)
    BY <1>2
  <2>3. \A p \in Piece : [p |-> p, from |-> Loopback] \in Item
    BY IPAssumption DEF Item
  <2>4. looped \in [1 .. Len(plan.loop) -> Item]
    BY <2>1, <2>2, <2>3
  <2> HIDE DEF looped
  <2> QED BY <2>1, <2>4, SeqDef
<1> HIDE DEF in, looped
<1>6. queue' \in Seq(Item)
  BY <1>4, <1>5
<1>7. /\ out' \in [Hops -> Seq(Piece)]
      /\ pending' \in [Hops -> Seq(Piece)]
      /\ arp' \in [Hops -> {"none", "pending", "known", "expired"}]
      /\ retries' \in [Hops -> 0 .. RetryCount - 1]
      /\ \A h \in Hops : pending'[h] # <<>> => arp'[h] = "pending"
      /\ \A h \in Hops : IsPrefix(out[h] \o pending[h], out'[h] \o pending'[h])
  BY <1>1, <1>4, SendDatagramToOutputStep
<1>8. hooked' \subseteq QueuedDatagram
  BY <1>1, <1>2, <1>3, <1>4
<1>9. fragbuf' \subseteq Piece /\ delivered' \subseteq Piece /\ gone' \subseteq Piece
  BY <1>1, <1>2, <1>3, <1>4 DEF TypeOK, Registered, Kept
<1>10. TypeOK'
  <2>1. QueuedDatagram \subseteq
          [p: Piece, at: HookPoints, ie: Ifaces \cup {HL}, hop: Hops \cup {Wire}]
    BY DEF QueuedDatagram
  <2> QED BY <1>1, <1>6, <1>7, <1>8, <1>9, <2>1 DEF TypeOK
<1>11. PendingAwaitsArp'
  BY <1>7 DEF PendingAwaitsArp
<1> QED BY <1>7, <1>8, <1>10, <1>11 DEF Inv, KeepsOrder

-----------------------------------------------------------------------------
(* The steps.                                                               *)

\* The initial state.
LEMMA InitInv == Init => Inv
<1> SUFFICES ASSUME Init PROVE Inv
  OBVIOUS
<1>1. Inputs \subseteq Item /\ 0 \in 0 .. RetryCount - 1
  BY IPAssumption DEF Item
<1> QED BY <1>1 DEF Init, Inv, TypeOK, PendingAwaitsArp

\* A packet joins the service queue.
LEMMA ArriveStep ==
  ASSUME Inv, NEW x \in todo, Arrive(x)
  PROVE  Inv' /\ KeepsOrder
<1>1. queue' \in Seq(Item) /\ todo' \subseteq Item
  BY DEF Arrive, Inv, TypeOK
<1>2. TypeOK' /\ PendingAwaitsArp'
  BY <1>1 DEF Arrive, Inv, TypeOK, PendingAwaitsArp
<1> QED BY <1>2, NothingSent DEF Arrive, Inv

\* The service of a packet ends, and its plan is carried out.
LEMMA EndServiceStep ==
  ASSUME Inv, EndService
  PROVE  Inv' /\ KeepsOrder
<1>1. PICK v \in HookVerdicts, stale \in Stale, route \in Routes[Head(queue).p.id] :
        Carry(Handle(Head(queue).p, Head(queue).from, route, v), v, stale, Tail(queue), {})
  BY DEF EndService
<1>2. Head(queue) \in Item /\ Tail(queue) \in Seq(Item)
  BY DEF EndService, Inv, TypeOK
<1>3. /\ Head(queue).p \in Piece /\ Head(queue).from \in Ifaces \cup {HL}
      /\ Head(queue).p.id \in Ids
  BY <1>2 DEF Item, Piece
<1>4. route \in RouteAnswer
  BY <1>3, IPAssumption DEF RouteAnswer
<1>5. Handle(Head(queue).p, Head(queue).from, route, v) \in Plan
  BY <1>3, <1>4, HandlePlan
<1> QED BY <1>1, <1>2, <1>5, CarryStep DEF EndService

\* A hook lets go of a datagram it queued.
LEMMA ReinjectStep ==
  ASSUME Inv, NEW x \in hooked, Reinject(x)
  PROVE  Inv' /\ KeepsOrder
<1>1. x \in QueuedDatagram /\ x.p \in Piece /\ x.p.id \in Ids
  BY DEF Inv, QueuedDatagram, Piece
<1>2. CASE x.at = "LOCALIN"
  <2>1. /\ delivered' \subseteq Piece /\ gone' \subseteq Piece
        /\ hooked' \subseteq hooked
        /\ UNCHANGED <<up, todo, queue, pending, arp, retries, fragbuf, mapping, out>>
    BY <1>1, <1>2 DEF Reinject, Inv, TypeOK, Registered
  <2>2. TypeOK' /\ PendingAwaitsArp' /\ hooked' \subseteq QueuedDatagram
    BY <2>1 DEF Inv, TypeOK, PendingAwaitsArp
  <2> QED BY <2>1, <2>2, NothingSent DEF Inv
<1>3. CASE x.at # "LOCALIN"
  <2>1. PICK v \in HookVerdicts, stale \in Stale, route \in Routes[x.p.id] :
          Carry(Resume(x, route, v), v, stale, queue, {x})
    BY <1>3 DEF Reinject
  <2>2. route \in RouteAnswer
    BY <1>1, IPAssumption DEF RouteAnswer
  <2>3. Resume(x, route, v) \in Plan
    BY <1>1, <1>3, <2>2, ResumePlan
  <2>4. queue \in Seq(Item)
    BY DEF Inv, TypeOK
  <2> QED BY <2>1, <2>3, <2>4, CarryStep DEF Reinject
<1> QED BY <1>2, <1>3

\* What moves no datagram towards a next hop.
LEMMA QuietStep ==
  ASSUME Inv,
         \/ \E x \in hooked : DropQueued(x)
         \/ \E protocol \in Protocols : RegisterProtocol(protocol)
         \/ \E h \in Hops : ArpExpires(h)
         \/ Start
         \/ UNCHANGED vars
  PROVE  Inv' /\ KeepsOrder
<1>1. out' = out /\ pending' = pending
  BY DEF DropQueued, RegisterProtocol, ArpExpires, Start, vars
<1>2. ASSUME NEW x \in hooked, DropQueued(x)
      PROVE  Inv'
  <2>1. x.p \in Piece
    BY DEF Inv, TypeOK
  <2> QED BY <1>2, <2>1 DEF DropQueued, Inv, TypeOK, PendingAwaitsArp
<1>3. ASSUME NEW protocol \in Protocols, RegisterProtocol(protocol)
      PROVE  Inv'
  BY <1>3 DEF RegisterProtocol, Inv, TypeOK, PendingAwaitsArp
<1>4. ASSUME NEW h \in Hops, ArpExpires(h)
      PROVE  Inv'
  BY <1>4 DEF ArpExpires, Inv, TypeOK, PendingAwaitsArp
<1>5. ASSUME Start
      PROVE  Inv'
  <2>1. up' \in BOOLEAN /\ up'
    BY <1>5, Zenon DEF Start
  <2>2. UNCHANGED <<todo, queue, pending, arp, retries, hooked, fragbuf, mapping, out,
                    delivered, gone>>
    BY <1>5 DEF Start
  <2>3. TypeOK' /\ hooked' \subseteq QueuedDatagram
    BY <2>1, <2>2 DEF Inv, TypeOK
  <2>4. PendingAwaitsArp'
    <3>1. \A h \in Hops : pending'[h] # <<>> => arp'[h] = "pending"
      BY <2>2 DEF Inv, PendingAwaitsArp
    <3> QED BY <2>1, <3>1, Zenon DEF PendingAwaitsArp
  <2> QED BY <2>3, <2>4 DEF Inv
<1>6. ASSUME UNCHANGED vars
      PROVE  Inv'
  <2>1. UNCHANGED <<up, todo, queue, pending, arp, retries, hooked, fragbuf, mapping,
                    out, delivered, gone>>
    BY <1>6 DEF vars
  <2>2. TypeOK' /\ hooked' \subseteq QueuedDatagram
    BY <2>1 DEF Inv, TypeOK
  <2>3. PendingAwaitsArp'
    <3>1. \A h \in Hops : pending'[h] # <<>> => arp'[h] = "pending"
      BY <2>1 DEF Inv, PendingAwaitsArp
    <3>2. ~up' => queue' = <<>>
      BY <2>1, Zenon DEF Inv, PendingAwaitsArp
    <3> QED BY <3>1, <3>2, Zenon DEF PendingAwaitsArp
  <2> QED BY <2>2, <2>3 DEF Inv
<1>7. Inv'
  BY <1>2, <1>3, <1>4, <1>5, <1>6
<1> QED BY <1>1, <1>7, NothingSent DEF Inv

\* A link address is known: what waited for it goes out, in order.
LEMMA ArpPacketStep ==
  ASSUME Inv, NEW hop \in Hops, ArpPacket(hop)
  PROVE  Inv' /\ KeepsOrder
<1>1. /\ out \in [Hops -> Seq(Piece)] /\ pending \in [Hops -> Seq(Piece)]
      /\ out' = [out EXCEPT ![hop] = @ \o pending[hop]]
      /\ pending' = [pending EXCEPT ![hop] = <<>>]
  BY DEF ArpPacket, ArpResolutionCompleted, Inv, TypeOK
<1>2. out' \in [Hops -> Seq(Piece)] /\ pending' \in [Hops -> Seq(Piece)]
  <2>1. out[hop] \o pending[hop] \in Seq(Piece) /\ <<>> \in Seq(Piece)
    BY <1>1
  <2> QED BY <1>1, <2>1
<1>3. 0 \in 0 .. RetryCount - 1
  BY IPAssumption
<1>4. Inv'
  BY <1>1, <1>2, <1>3 DEF ArpPacket, Inv, TypeOK, PendingAwaitsArp
<1>5. ASSUME NEW h \in Hops
      PROVE  IsPrefix(out[h] \o pending[h], out'[h] \o pending'[h])
  <2>1. out[h] \o pending[h] \in Seq(Piece) /\ <<>> \in Seq(Piece)
    BY <1>1
  <2>2. (out[h] \o pending[h]) \o <<>> = out[h] \o pending[h]
    BY <2>1
  <2>3. out'[h] \o pending'[h] = (out[h] \o pending[h])
    <3>1. CASE h = hop
      BY <1>1, <2>1, <2>2, <3>1
    <3>2. CASE h # hop
      BY <1>1, <3>2
    <3> QED BY <3>1, <3>2
  <2> QED BY <2>1, <2>2, <2>3, PrefixOfConcat
<1> QED BY <1>4, <1>5 DEF KeepsOrder

\* A request is sent again, or what waited for its answer is given up.
LEMMA RequestTimedOutStep ==
  ASSUME Inv, NEW hop \in Hops, RequestTimedOut(hop)
  PROVE  Inv' /\ KeepsOrder
<1>1. CASE retries[hop] + 1 < RetryCount
  <2>1. /\ retries' = [retries EXCEPT ![hop] = @ + 1]
        /\ UNCHANGED <<arp, pending, gone, out>>
    BY <1>1 DEF RequestTimedOut
  <2>2. retries' \in [Hops -> 0 .. RetryCount - 1]
    BY <1>1, <2>1, IPAssumption DEF Inv, TypeOK
  <2>3. Inv'
    BY <2>1, <2>2 DEF RequestTimedOut, Inv, TypeOK, PendingAwaitsArp
  <2> QED BY <2>1, <2>3, NothingSent DEF Inv
<1>2. CASE ~(retries[hop] + 1 < RetryCount)
  <2>1. /\ arp' = [arp EXCEPT ![hop] = "none"]
        /\ retries' = [retries EXCEPT ![hop] = 0]
        /\ pending' = [pending EXCEPT ![hop] = <<>>]
        /\ gone' = gone \cup Range(pending[hop])
        /\ out' = out
    BY <1>2 DEF RequestTimedOut, ArpResolutionTimedOut
  <2>2. pending \in [Hops -> Seq(Piece)] /\ 0 \in 0 .. RetryCount - 1
    BY IPAssumption DEF Inv, TypeOK
  <2>3. Range(pending[hop]) \subseteq Piece
    BY <2>2 DEF Range
  <2>4. pending' \in [Hops -> Seq(Piece)]
    BY <2>1, <2>2
  <2>5. Inv'
    BY <2>1, <2>2, <2>3, <2>4 DEF RequestTimedOut, Inv, TypeOK, PendingAwaitsArp
  <2>6. ASSUME NEW h \in Hops, h # hop
        PROVE  IsPrefix(out[h] \o pending[h], out'[h] \o pending'[h])
    <3>1. out[h] \o pending[h] \in Seq(Piece) /\ <<>> \in Seq(Piece)
      BY <2>2 DEF Inv, TypeOK
    <3>2. (out[h] \o pending[h]) \o <<>> = out[h] \o pending[h]
      BY <3>1
    <3>3. out'[h] \o pending'[h] = out[h] \o pending[h]
      BY <2>1, <2>2, <2>6
    <3> QED BY <3>1, <3>2, <3>3, PrefixOfConcat
  <2>7. out'[hop] = out[hop] /\ pending'[hop] = <<>>
    BY <2>1, <2>2
  <2> QED BY <2>5, <2>6, <2>7 DEF KeepsOrder
<1> QED BY <1>1, <1>2

\* A node that goes down drops what waits.
LEMMA StopStep ==
  ASSUME Inv, Stop
  PROVE  Inv' /\ KeepsOrder
<1>1. /\ queue' = <<>> /\ pending' = [h \in Hops |-> <<>>]
      /\ gone' = gone \cup Waiting /\ out' = out
      /\ arp' = [h \in Hops |-> "none"] /\ retries' = [h \in Hops |-> 0]
      /\ up' = FALSE
      /\ UNCHANGED <<todo, hooked, fragbuf, mapping, delivered>>
  BY DEF Stop, Flush
<1>2. Waiting \subseteq Piece
  <2>1. \A k \in DOMAIN queue : queue[k].p \in Piece
    <3>1. \A k \in DOMAIN queue : queue[k] \in Item
      BY DEF Inv, TypeOK
    <3> QED BY <3>1 DEF Item
  <2>2. \A h \in Hops : Range(pending[h]) \subseteq Piece
    <3>1. \A h \in Hops : pending[h] \in Seq(Piece)
      BY DEF Inv, TypeOK
    <3> QED BY <3>1 DEF Range
  <2> QED BY <2>1, <2>2 DEF Waiting
<1>3. 0 \in 0 .. RetryCount - 1
  BY IPAssumption
<1>4. Inv'
  <2>1. up' \in BOOLEAN
    BY <1>1, Zenon
  <2>2. queue' \in Seq(Item) /\ pending' \in [Hops -> Seq(Piece)]
    BY <1>1
  <2>3. TypeOK' /\ hooked' \subseteq QueuedDatagram
    BY <1>1, <1>2, <1>3, <2>1, <2>2 DEF Inv, TypeOK
  <2>4. PendingAwaitsArp'
    BY <1>1 DEF PendingAwaitsArp
  <2> QED BY <2>3, <2>4 DEF Inv
<1> QED BY <1>1, <1>4 DEF KeepsOrder

-----------------------------------------------------------------------------
(* Types, ARP and order.                                                    *)

\* Every step keeps the invariant and the order.
LEMMA NextInv == Inv /\ [Next]_vars => Inv' /\ KeepsOrder
<1> SUFFICES ASSUME Inv, [Next]_vars PROVE Inv' /\ KeepsOrder
  OBVIOUS
<1> QED
  BY ArriveStep, EndServiceStep, ReinjectStep, QuietStep, ArpPacketStep,
     RequestTimedOutStep, StopStep DEF Next

\* The invariant holds in every state of every behaviour.
LEMMA InvAlways == Spec => []Inv
<1>1. Inv /\ [Next]_vars => Inv'
  BY NextInv
<1> QED BY <1>1, InitInv, PTL DEF Spec

\* Every field keeps its type; no TTL and no length gets negative, however often
\* a datagram is cut up, looped back and reassembled.
THEOREM TypeCorrect == Spec => []TypeOK
<1>1. Inv => TypeOK
  BY DEF Inv
<1> QED BY <1>1, InvAlways, PTL

\* No datagram waits for an address that nobody asks for, through expiry, retry,
\* failure, crash and restart: the assertions of sendDatagramToOutput and of
\* start cannot fail.
THEOREM NothingWaitsForNothing == Spec => []PendingAwaitsArp
<1>1. Inv => PendingAwaitsArp
  BY DEF Inv
<1> QED BY <1>1, InvAlways, PTL

\* Datagrams for one next hop leave in the order they were routed in.
THEOREM OrderKept == Spec => NoOvertaking
<1>1. Inv /\ [Next]_vars =>
        [\A h \in Hops : \/ IsPrefix(out[h] \o pending[h], out'[h] \o pending'[h])
                         \/ out'[h] = out[h] /\ pending'[h] = <<>>]_vars
  BY NextInv DEF KeepsOrder
<1> QED BY <1>1, InvAlways, PTL DEF Spec, NoOvertaking

-----------------------------------------------------------------------------
(* Counting the places of a byte.  A set counts 0, 1, or 2 when it has more *)
(* elements than one.                                                        *)

One(S) == \E e : S = {e}
Num(S) == IF S = {} THEN 0 ELSE IF One(S) THEN 1 ELSE 2

\* A piece of datagram d with the byte
Has(p, d, byte) == p.id = d /\ Holds(p, byte)

\* How many of the pieces have it, of a set, of records with a piece, of a
\* sequence, of the service queue, and of the sequences of the next hops
NumSet(S, d, byte) == Num({p \in S : Has(p, d, byte)})
NumAt(S, d, byte) == Num({x \in S : Has(x.p, d, byte)})
NumSeq(s, d, byte) == Num({k \in DOMAIN s : Has(s[k], d, byte)})
PiecesOf(q) == [k \in DOMAIN q |-> q[k].p]
NumQueue(q, d, byte) == NumSeq(PiecesOf(q), d, byte)
SpotsHops(f, d, byte) ==
  {y \in Hops \X Nat : y[2] \in DOMAIN f[y[1]] /\ Has(f[y[1]][y[2]], d, byte)}
NumHops(f, d, byte) == Num(SpotsHops(f, d, byte))

\* A set counts 0, 1 or 2.
LEMMA NumType ==
  ASSUME NEW S
  PROVE  Num(S) \in 0 .. 2
BY DEF Num

\* It counts 0 when it is empty,
LEMMA NumZero ==
  ASSUME NEW S
  PROVE  Num(S) = 0 <=> S = {}
BY DEF Num

\* and 1 when it has one element.
LEMMA NumOne ==
  ASSUME NEW S
  PROVE  Num(S) = 1 <=> \E e : S = {e}
<1>1. One(S) => S # {}
  BY DEF One
<1> QED BY <1>1 DEF Num, One

\* A singleton counts 1.
LEMMA NumSingle ==
  ASSUME NEW e
  PROVE  Num({e}) = 1
<1>1. \E f : {e} = {f}
  OBVIOUS
<1> QED BY <1>1, NumOne

\* A union counts as much as its parts, when those count one at most. 
LEMMA NumUnion ==
  ASSUME NEW A, NEW B, Num(A) + Num(B) <= 1
  PROVE  Num(A \cup B) = Num(A) + Num(B)
<1>1. Num(A) \in 0 .. 2 /\ Num(B) \in 0 .. 2
  BY NumType
<1>2. Num(A) = 0 \/ Num(B) = 0
  BY <1>1
<1>3. CASE Num(A) = 0
  <2>1. A = {}
    BY <1>3, NumZero
  <2>2. A \cup B = B
    BY <2>1
  <2> QED BY <1>1, <1>3, <2>2
<1>4. CASE Num(B) = 0
  <2>1. B = {}
    BY <1>4, NumZero
  <2>2. A \cup B = A
    BY <2>1
  <2> QED BY <1>1, <1>4, <2>2
<1> QED BY <1>2, <1>3, <1>4

\* Disjoint parts count as much as their union, when that counts one at most.
LEMMA NumSplit ==
  ASSUME NEW A, NEW B, A \cap B = {}, Num(A \cup B) <= 1
  PROVE  Num(A \cup B) = Num(A) + Num(B)
<1>1. Num(A \cup B) \in 0 .. 2
  BY NumType
<1>2. CASE Num(A \cup B) = 0
  <2>1. A = {} /\ B = {}
    BY <1>2, NumZero
  <2>2. Num(A) = 0 /\ Num(B) = 0
    BY <2>1 DEF Num
  <2> QED BY <1>2, <2>2
<1>3. CASE Num(A \cup B) = 1
  <2>1. PICK e : A \cup B = {e}
    BY <1>3, NumOne
  <2>2. \/ A = {e} /\ B = {}
        \/ A = {} /\ B = {e}
    BY <2>1
  <2>3. Num({}) = 0 /\ Num({e}) = 1
    BY NumZero, NumSingle
  <2>4. CASE A = {e} /\ B = {}
    BY <1>3, <2>3, <2>4
  <2>5. CASE A = {} /\ B = {e}
    BY <1>3, <2>3, <2>5
  <2> QED BY <2>2, <2>4, <2>5
<1> QED BY <1>1, <1>2, <1>3

\* Indices that are shifted count the same.
Shifted(A, n) == {k + n : k \in A}

LEMMA NumShifted ==
  ASSUME NEW A \in SUBSET Int, NEW n \in Int
  PROVE  Num(Shifted(A, n)) = Num(A)
<1>1. A = {} <=> Shifted(A, n) = {}
  BY DEF Shifted
<1>2. ASSUME NEW e, A = {e} PROVE \E f : Shifted(A, n) = {f}
  BY <1>2 DEF Shifted
<1>3. ASSUME NEW f, Shifted(A, n) = {f} PROVE \E e : A = {e}
  <2>1. PICK k \in A : f = k + n
    BY <1>3 DEF Shifted
  <2>2. \A j \in A : j + n = f
    BY <1>3 DEF Shifted
  <2>3. \A j \in A : j = k
    BY <2>1, <2>2
  <2>4. A = {k}
    BY <2>1, <2>3
  <2> QED BY <2>4
<1>4. One(A) <=> One(Shifted(A, n))
  BY <1>2, <1>3 DEF One
<1>5. CASE A = {}
  BY <1>1, <1>5 DEF Num
<1>6. CASE A # {}
  BY <1>1, <1>4, <1>6, Zenon DEF Num
<1> QED BY <1>5, <1>6

Bit(b) == IF b THEN 1 ELSE 0

\* One piece counts 1 if it has the byte, and 0 if not: in a set of pieces,
LEMMA NumSetSingle ==
  ASSUME NEW p, NEW d, NEW byte
  PROVE  NumSet({p}, d, byte) = Bit(Has(p, d, byte))
<1>1. CASE Has(p, d, byte)
  <2>1. {q \in {p} : Has(q, d, byte)} = {p}
    BY <1>1
  <2> QED BY <1>1, <2>1, NumSingle DEF NumSet, Bit
<1>2. CASE ~Has(p, d, byte)
  <2>1. {q \in {p} : Has(q, d, byte)} = {}
    BY <1>2
  <2> QED BY <1>2, <2>1, NumZero DEF NumSet, Bit
<1> QED BY <1>1, <1>2

\* in a set of records,
LEMMA NumAtSingle ==
  ASSUME NEW x, NEW d, NEW byte
  PROVE  NumAt({x}, d, byte) = Bit(Has(x.p, d, byte))
<1>1. CASE Has(x.p, d, byte)
  <2>1. {y \in {x} : Has(y.p, d, byte)} = {x}
    BY <1>1
  <2> QED BY <1>1, <2>1, NumSingle DEF NumAt, Bit
<1>2. CASE ~Has(x.p, d, byte)
  <2>1. {y \in {x} : Has(y.p, d, byte)} = {}
    BY <1>2
  <2> QED BY <1>2, <2>1, NumZero DEF NumAt, Bit
<1> QED BY <1>1, <1>2

\* and in a sequence.
LEMMA NumSeqSingle ==
  ASSUME NEW p, NEW d, NEW byte
  PROVE  NumSeq(<<p>>, d, byte) = Bit(Has(p, d, byte))
<1> DEFINE s == <<p>>
<1>1. DOMAIN s = {1} /\ s[1] = p
  OBVIOUS
<1> HIDE DEF s
<1>2. CASE Has(p, d, byte)
  <2>1. {k \in DOMAIN s : Has(s[k], d, byte)} = {1}
    BY <1>1, <1>2
  <2>2. NumSeq(s, d, byte) = 1
    BY <2>1, NumSingle DEF NumSeq
  <2> QED BY <1>2, <2>2 DEF s, Bit
<1>3. CASE ~Has(p, d, byte)
  <2>1. {k \in DOMAIN s : Has(s[k], d, byte)} = {}
    BY <1>1, <1>3
  <2>2. NumSeq(s, d, byte) = 0
    BY <2>1, NumZero DEF NumSeq
  <2> QED BY <1>3, <2>2 DEF s, Bit
<1> QED BY <1>2, <1>3

\* Nothing counts zero.
LEMMA NumEmpty ==
  ASSUME NEW d, NEW byte
  PROVE  /\ NumSet({}, d, byte) = 0
         /\ NumAt({}, d, byte) = 0
         /\ NumSeq(<<>>, d, byte) = 0
         /\ NumQueue(<<>>, d, byte) = 0
<1>1. /\ {p \in {} : Has(p, d, byte)} = {}
      /\ {x \in {} : Has(x.p, d, byte)} = {}
      /\ {k \in DOMAIN <<>> : Has(<<>>[k], d, byte)} = {}
  OBVIOUS
<1>2. Num({}) = 0
  BY NumZero
<1>3. PiecesOf(<<>>) = <<>>
  BY DEF PiecesOf
<1> QED BY <1>1, <1>2, <1>3 DEF NumSet, NumAt, NumSeq, NumQueue

\* Sets of pieces, and of records, that count 1 at most together, add up.
LEMMA NumSetUnion ==
  ASSUME NEW A, NEW B, NEW d, NEW byte, NumSet(A, d, byte) + NumSet(B, d, byte) <= 1
  PROVE  NumSet(A \cup B, d, byte) = NumSet(A, d, byte) + NumSet(B, d, byte)
<1> DEFINE P == {p \in A : Has(p, d, byte)}
           Q == {p \in B : Has(p, d, byte)}
<1>1. {p \in A \cup B : Has(p, d, byte)} = P \cup Q
  OBVIOUS
<1>2. NumSet(A, d, byte) = Num(P) /\ NumSet(B, d, byte) = Num(Q)
  BY DEF NumSet
<1>3. NumSet(A \cup B, d, byte) = Num(P \cup Q)
  BY <1>1 DEF NumSet
<1> HIDE DEF P, Q
<1>4. Num(P) + Num(Q) <= 1
  BY <1>2
<1>5. Num(P \cup Q) = Num(P) + Num(Q)
  BY <1>4, NumUnion
<1> QED BY <1>2, <1>3, <1>5

\* The same of records.
LEMMA NumAtUnion ==
  ASSUME NEW A, NEW B, NEW d, NEW byte, NumAt(A, d, byte) + NumAt(B, d, byte) <= 1
  PROVE  NumAt(A \cup B, d, byte) = NumAt(A, d, byte) + NumAt(B, d, byte)
<1> DEFINE P == {x \in A : Has(x.p, d, byte)}
           Q == {x \in B : Has(x.p, d, byte)}
<1>1. {x \in A \cup B : Has(x.p, d, byte)} = P \cup Q
  OBVIOUS
<1>2. NumAt(A, d, byte) = Num(P) /\ NumAt(B, d, byte) = Num(Q)
  BY DEF NumAt
<1>3. NumAt(A \cup B, d, byte) = Num(P \cup Q)
  BY <1>1 DEF NumAt
<1> HIDE DEF P, Q
<1>4. Num(P) + Num(Q) <= 1
  BY <1>2
<1>5. Num(P \cup Q) = Num(P) + Num(Q)
  BY <1>4, NumUnion
<1> QED BY <1>2, <1>3, <1>5

\* Disjoint parts of a set
LEMMA NumSetSplit ==
  ASSUME NEW A, NEW B, NEW d, NEW byte, A \cap B = {}, NumSet(A \cup B, d, byte) <= 1
  PROVE  NumSet(A \cup B, d, byte) = NumSet(A, d, byte) + NumSet(B, d, byte)
<1> DEFINE P == {p \in A : Has(p, d, byte)}
           Q == {p \in B : Has(p, d, byte)}
<1>1. {p \in A \cup B : Has(p, d, byte)} = P \cup Q /\ P \cap Q = {}
  OBVIOUS
<1>2. NumSet(A, d, byte) = Num(P) /\ NumSet(B, d, byte) = Num(Q)
  BY DEF NumSet
<1>3. NumSet(A \cup B, d, byte) = Num(P \cup Q)
  BY <1>1 DEF NumSet
<1> HIDE DEF P, Q
<1>4. P \cap Q = {} /\ Num(P \cup Q) <= 1
  BY <1>1, <1>3
<1>5. Num(P \cup Q) = Num(P) + Num(Q)
  BY <1>4, NumSplit
<1> QED BY <1>2, <1>3, <1>5

\* The same of records.
LEMMA NumAtSplit ==
  ASSUME NEW A, NEW B, NEW d, NEW byte, A \cap B = {}, NumAt(A \cup B, d, byte) <= 1
  PROVE  NumAt(A \cup B, d, byte) = NumAt(A, d, byte) + NumAt(B, d, byte)
<1> DEFINE P == {x \in A : Has(x.p, d, byte)}
           Q == {x \in B : Has(x.p, d, byte)}
<1>1. {x \in A \cup B : Has(x.p, d, byte)} = P \cup Q /\ P \cap Q = {}
  OBVIOUS
<1>2. NumAt(A, d, byte) = Num(P) /\ NumAt(B, d, byte) = Num(Q)
  BY DEF NumAt
<1>3. NumAt(A \cup B, d, byte) = Num(P \cup Q)
  BY <1>1 DEF NumAt
<1> HIDE DEF P, Q
<1>4. P \cap Q = {} /\ Num(P \cup Q) <= 1
  BY <1>1, <1>3
<1>5. Num(P \cup Q) = Num(P) + Num(Q)
  BY <1>4, NumSplit
<1> QED BY <1>2, <1>3, <1>5

\* Sequences that are joined
LEMMA NumSeqConcat ==
  ASSUME NEW s \in Seq(Piece), NEW t \in Seq(Piece), NEW d, NEW byte,
         \/ NumSeq(s, d, byte) + NumSeq(t, d, byte) <= 1
         \/ NumSeq(s \o t, d, byte) <= 1
  PROVE  NumSeq(s \o t, d, byte) = NumSeq(s, d, byte) + NumSeq(t, d, byte)
<1> DEFINE P == {k \in DOMAIN s : Has(s[k], d, byte)}
           Q == {k \in DOMAIN t : Has(t[k], d, byte)}
           R == {k \in DOMAIN (s \o t) : Has((s \o t)[k], d, byte)}
<1>1. /\ DOMAIN s = 1 .. Len(s) /\ DOMAIN t = 1 .. Len(t)
      /\ DOMAIN (s \o t) = 1 .. Len(s) + Len(t)
      /\ Len(s) \in Nat /\ Len(t) \in Nat
      /\ \A k \in 1 .. Len(s) : (s \o t)[k] = s[k]
      /\ \A k \in 1 .. Len(t) : (s \o t)[k + Len(s)] = t[k]
  OBVIOUS
<1> DEFINE st == s \o t
<1> HIDE DEF st
<1>2. R = P \cup Shifted(Q, Len(s))
  <2>1. ASSUME NEW k \in R PROVE k \in P \cup Shifted(Q, Len(s))
    <3>1. CASE k <= Len(s)
      BY <1>1, <3>1
    <3>2. CASE k > Len(s)
      <4>1. k - Len(s) \in 1 .. Len(t) /\ k = (k - Len(s)) + Len(s)
        BY <1>1, <3>2
      <4>2. Has(t[k - Len(s)], d, byte)
        BY <1>1, <4>1
      <4>3. k - Len(s) \in Q
        BY <1>1, <4>1, <4>2
      <4> QED BY <4>1, <4>3 DEF Shifted
    <3> QED BY <1>1, <3>1, <3>2
  <2>2. ASSUME NEW k \in P PROVE k \in R
    BY <1>1
  <2>3. ASSUME NEW k \in Q PROVE k + Len(s) \in R
    BY <1>1
  <2>4. Shifted(Q, Len(s)) \subseteq R
    BY <2>3 DEF Shifted
  <2> QED BY <2>1, <2>2, <2>4
<1>3. Q \in SUBSET Int /\ P \cap Shifted(Q, Len(s)) = {}
  BY <1>1 DEF Shifted
<1>4. /\ NumSeq(s, d, byte) = Num(P) /\ NumSeq(t, d, byte) = Num(Q)
      /\ NumSeq(s \o t, d, byte) = Num(R)
  BY DEF NumSeq
<1> HIDE DEF P, Q, R
<1>5. Num(Shifted(Q, Len(s))) = Num(Q)
  BY <1>1, <1>3, NumShifted
<1>6. \/ Num(P) + Num(Shifted(Q, Len(s))) <= 1
      \/ Num(P \cup Shifted(Q, Len(s))) <= 1
  BY <1>2, <1>4, <1>5
<1>7. Num(P \cup Shifted(Q, Len(s))) = Num(P) + Num(Shifted(Q, Len(s)))
  BY <1>3, <1>6, NumUnion, NumSplit
<1> QED BY <1>2, <1>4, <1>5, <1>7

\* The pieces of a queue that grows, or is served
LEMMA PiecesOfType ==
  ASSUME NEW q \in Seq(Item)
  PROVE  /\ PiecesOf(q) \in Seq(Piece)
         /\ \A x \in Item : PiecesOf(Append(q, x)) = PiecesOf(q) \o <<x.p>>
         /\ \A s \in Seq(Piece) :
              PiecesOf(q \o [k \in DOMAIN s |-> [p |-> s[k], from |-> Loopback]])
                = PiecesOf(q) \o s
         /\ q # <<>> => PiecesOf(q) = <<Head(q).p>> \o PiecesOf(Tail(q))
<1>1. q \in [1 .. Len(q) -> Item] /\ DOMAIN q = 1 .. Len(q) /\ Len(q) \in Nat
  OBVIOUS
<1>2. PiecesOf(q) \in [1 .. Len(q) -> Piece]
  BY <1>1 DEF PiecesOf, Item
<1>3. PiecesOf(q) \in Seq(Piece) /\ Len(PiecesOf(q)) = Len(q)
  <2> DEFINE f == PiecesOf(q)
  <2>1. f \in [1 .. Len(q) -> Piece]
    BY <1>2
  <2> HIDE DEF f
  <2>2. f \in Seq(Piece)
    BY <1>1, <2>1, SeqDef
  <2>3. Len(f) = Len(q)
    BY <1>1, <2>1, <2>2
  <2> QED BY <2>2, <2>3 DEF f
<1>4. \A k \in 1 .. Len(q) : PiecesOf(q)[k] = q[k].p
  BY <1>1 DEF PiecesOf
<1>5. ASSUME NEW x \in Item
      PROVE  PiecesOf(Append(q, x)) = PiecesOf(q) \o <<x.p>>
  <2> DEFINE a == PiecesOf(Append(q, x))
             b == PiecesOf(q) \o <<x.p>>
  <2>1. x.p \in Piece
    BY DEF Item
  <2>2. b \in Seq(Piece) /\ Len(b) = Len(q) + 1
    BY <1>3, <2>1
  <2>3. DOMAIN b = 1 .. Len(q) + 1
    BY <2>2
  <2>4. Len(Append(q, x)) = Len(q) + 1 /\ Append(q, x) \in Seq(Item)
    OBVIOUS
  <2>5. DOMAIN a = 1 .. Len(q) + 1
    BY <2>4 DEF PiecesOf
  <2>6. ASSUME NEW k \in 1 .. Len(q) + 1 PROVE a[k] = b[k]
    <3>1. a[k] = Append(q, x)[k].p
      BY <2>4 DEF PiecesOf
    <3>2. CASE k <= Len(q)
      <4>1. Append(q, x)[k] = q[k] /\ b[k] = PiecesOf(q)[k]
        BY <1>1, <1>3, <2>1, <3>2
      <4>2. PiecesOf(q)[k] = q[k].p
        BY <1>1, <1>4, <3>2
      <4> HIDE DEF a, b
      <4> QED BY <3>1, <4>1, <4>2
    <3>3. CASE k = Len(q) + 1
      <4>1. Append(q, x)[k] = x /\ b[k] = x.p
        BY <1>1, <1>3, <2>1, <3>3
      <4> HIDE DEF a, b
      <4> QED BY <3>1, <4>1
    <3> HIDE DEF a, b
    <3> QED BY <1>1, <3>2, <3>3
  <2>7. a = [k \in 1 .. Len(q) + 1 |-> a[k]] /\ b = [k \in 1 .. Len(q) + 1 |-> b[k]]
    <3>1. a = [k \in DOMAIN a |-> a[k]]
      BY DEF PiecesOf
    <3>2. b = [k \in DOMAIN b |-> b[k]]
      <4> HIDE DEF b
      <4> QED BY <2>2
    <3> QED BY <2>3, <2>5, <3>1, <3>2
  <2> HIDE DEF a, b
  <2>8. a = b
    BY <2>6, <2>7
  <2> QED BY <2>8 DEF a, b
<1>6. ASSUME NEW s \in Seq(Piece)
      PROVE  PiecesOf(q \o [k \in DOMAIN s |-> [p |-> s[k], from |-> Loopback]])
               = PiecesOf(q) \o s
  <2> DEFINE t == [k \in DOMAIN s |-> [p |-> s[k], from |-> Loopback]]
             a == PiecesOf(q \o t)
             b == PiecesOf(q) \o s
  <2>1. s \in [1 .. Len(s) -> Piece] /\ DOMAIN s = 1 .. Len(s) /\ Len(s) \in Nat
    OBVIOUS
  <2>2. \A p \in Piece : [p |-> p, from |-> Loopback] \in Item
    BY IPAssumption DEF Item
  <2>3. t \in [1 .. Len(s) -> Item] /\ \A k \in 1 .. Len(s) : t[k].p = s[k]
    BY <2>1, <2>2
  <2> HIDE DEF t
  <2>4. t \in Seq(Item)
    BY <2>1, <2>3, SeqDef
  <2>5. Len(t) = Len(s)
    BY <2>1, <2>3, <2>4
  <2>6. Len(q \o t) = Len(q) + Len(s) /\ q \o t \in Seq(Item)
    BY <2>4, <2>5
  <2>7. DOMAIN a = 1 .. Len(q) + Len(s)
    BY <2>6 DEF PiecesOf
  <2>8. b \in Seq(Piece) /\ DOMAIN b = 1 .. Len(q) + Len(s)
    BY <1>3, <2>1
  <2>9. ASSUME NEW k \in 1 .. Len(q) + Len(s) PROVE a[k] = b[k]
    <3>1. a[k] = (q \o t)[k].p
      BY <2>6 DEF PiecesOf
    <3>2. CASE k <= Len(q)
      <4>1. (q \o t)[k] = q[k] /\ b[k] = PiecesOf(q)[k]
        BY <1>1, <1>3, <2>1, <2>4, <2>5, <3>2
      <4>2. PiecesOf(q)[k] = q[k].p
        BY <1>1, <1>4, <3>2
      <4> HIDE DEF a, b
      <4> QED BY <3>1, <4>1, <4>2
    <3>3. CASE k > Len(q)
      <4>1. (q \o t)[k] = t[k - Len(q)] /\ b[k] = s[k - Len(q)]
        BY <1>1, <1>3, <2>1, <2>4, <2>5, <3>3
      <4>2. k - Len(q) \in 1 .. Len(s)
        BY <1>1, <2>1, <3>3
      <4> HIDE DEF a, b
      <4> QED BY <2>3, <3>1, <4>1, <4>2
    <3> HIDE DEF a, b
    <3> QED BY <1>1, <2>1, <3>2, <3>3
  <2>10. a = [k \in DOMAIN a |-> a[k]] /\ b = [k \in DOMAIN b |-> b[k]]
    <3>1. a = [k \in DOMAIN a |-> a[k]]
      BY DEF PiecesOf
    <3> HIDE DEF b
    <3>2. b = [k \in DOMAIN b |-> b[k]]
      BY <2>8
    <3> QED BY <3>1, <3>2
  <2> HIDE DEF a, b
  <2>11. a = b
    BY <2>7, <2>8, <2>9, <2>10
  <2> QED BY <2>11 DEF a, b, t
<1>7. ASSUME q # <<>>
      PROVE  PiecesOf(q) = <<Head(q).p>> \o PiecesOf(Tail(q))
  <2> DEFINE u == Tail(q)
             x == Head(q)
             a == PiecesOf(q)
             b == <<x.p>> \o PiecesOf(u)
  <2>1. /\ u \in Seq(Item) /\ Len(u) = Len(q) - 1 /\ x = q[1] /\ Len(q) >= 1
        /\ DOMAIN u = 1 .. Len(q) - 1
        /\ \A k \in 1 .. Len(q) - 1 : u[k] = q[k + 1]
    BY <1>1, <1>7
  <2>2. x \in Item /\ x.p \in Piece
    BY <1>1, <2>1 DEF Item
  <2> HIDE DEF u, x
  <2>3. PiecesOf(u) \in [1 .. Len(q) - 1 -> Piece]
    <3>1. PiecesOf(u) = [k \in 1 .. Len(q) - 1 |-> u[k].p]
      BY <2>1 DEF PiecesOf
    <3>2. \A k \in 1 .. Len(q) - 1 : u[k].p \in Piece
      <4>1. \A k \in 1 .. Len(q) - 1 : u[k] \in Item
        BY <2>1
      <4> QED BY <4>1 DEF Item
    <3> QED BY <3>1, <3>2
  <2>4. \A k \in 1 .. Len(q) - 1 : PiecesOf(u)[k] = q[k + 1].p
    BY <2>1 DEF PiecesOf
  <2> DEFINE v == PiecesOf(u)
  <2> HIDE DEF v
  <2>5. v \in Seq(Piece) /\ Len(v) = Len(q) - 1
    <3>1. v \in [1 .. Len(q) - 1 -> Piece] /\ Len(q) - 1 \in Nat
      BY <1>1, <2>1, <2>3 DEF v
    <3>2. v \in Seq(Piece)
      BY <3>1, SeqDef
    <3> QED BY <3>1, <3>2
  <2> DEFINE c == <<x.p>> \o v
  <2>6. c \in Seq(Piece) /\ DOMAIN c = 1 .. Len(q)
    <3>1. <<x.p>> \in Seq(Piece) /\ Len(<<x.p>>) = 1
      BY <2>2
    <3>2. c \in Seq(Piece) /\ Len(c) = 1 + (Len(q) - 1)
      BY <2>5, <3>1
    <3>3. 1 + (Len(q) - 1) = Len(q)
      BY <1>1
    <3> HIDE DEF c
    <3> QED BY <3>2, <3>3
  <2>7. \A k \in 1 .. Len(q) : c[k] = IF k = 1 THEN x.p ELSE v[k - 1]
    BY <1>1, <2>2, <2>5
  <2>8. ASSUME NEW k \in 1 .. Len(q) PROVE a[k] = c[k]
    <3>1. a[k] = q[k].p
      BY <1>4
    <3>2. CASE k = 1
      BY <2>1, <2>7, <3>1, <3>2
    <3>3. CASE k # 1
      <4>1. k - 1 \in 1 .. Len(q) - 1 /\ (k - 1) + 1 = k
        BY <1>1, <3>3
      <4>2. v[k - 1] = q[k].p
        BY <2>4, <4>1 DEF v
      <4> QED BY <2>7, <3>1, <3>3, <4>2
    <3> QED BY <3>2, <3>3
  <2>9. a = [k \in 1 .. Len(q) |-> a[k]]
    BY <1>2
  <2>10. c = [k \in 1 .. Len(q) |-> c[k]]
    <3> HIDE DEF c
    <3> QED BY <2>6
  <2> HIDE DEF a, c
  <2>11. a = c
    BY <2>8, <2>9, <2>10
  <2> QED BY <2>11 DEF a, c, v, u, x
<1> QED BY <1>3, <1>5, <1>6, <1>7

\* The pieces of a sequence in which a byte comes once at most
LEMMA NumRange ==
  ASSUME NEW s, NEW d, NEW byte, NumSeq(s, d, byte) <= 1
  PROVE  NumSet(Range(s), d, byte) = NumSeq(s, d, byte)
<1> DEFINE P == {k \in DOMAIN s : Has(s[k], d, byte)}
           Q == {p \in Range(s) : Has(p, d, byte)}
<1>1. Q = {s[k] : k \in P}
  BY DEF Range
<1>2. NumSeq(s, d, byte) = Num(P) /\ NumSet(Range(s), d, byte) = Num(Q)
  BY DEF NumSeq, NumSet
<1> HIDE DEF P, Q
<1>3. CASE Num(P) = 0
  <2>1. P = {}
    BY <1>3, NumZero
  <2>2. Q = {}
    BY <1>1, <2>1
  <2>3. Num(Q) = 0
    BY <2>2, NumZero
  <2> QED BY <1>2, <1>3, <2>3
<1>4. CASE Num(P) = 1
  <2>1. PICK k : P = {k}
    BY <1>4, NumOne
  <2>2. Q = {s[k]}
    BY <1>1, <2>1
  <2>3. Num(Q) = 1
    BY <2>2, NumSingle
  <2> QED BY <1>2, <1>4, <2>3
<1>5. Num(P) \in 0 .. 2
  BY NumType
<1> QED BY <1>2, <1>3, <1>4, <1>5

\* The places of one next hop
Tagged(h, A) == {<<h, k>> : k \in A}

\* Places at one next hop count as many as their positions there.
LEMMA NumTagged ==
  ASSUME NEW h, NEW A
  PROVE  Num(Tagged(h, A)) = Num(A)
<1>1. A = {} <=> Tagged(h, A) = {}
  BY DEF Tagged
<1>2. ASSUME NEW e, A = {e} PROVE \E f : Tagged(h, A) = {f}
  BY <1>2 DEF Tagged
<1>3. ASSUME NEW f, Tagged(h, A) = {f} PROVE \E e : A = {e}
  <2>1. PICK k \in A : f = <<h, k>>
    BY <1>3 DEF Tagged
  <2>2. \A j \in A : <<h, j>> = f
    BY <1>3 DEF Tagged
  <2>3. \A j \in A : j = k
    BY <2>1, <2>2
  <2>4. A = {k}
    BY <2>1, <2>3
  <2> QED BY <2>4
<1>4. One(A) <=> One(Tagged(h, A))
  BY <1>2, <1>3 DEF One
<1>5. CASE A = {}
  BY <1>1, <1>5 DEF Num
<1>6. CASE A # {}
  BY <1>1, <1>4, <1>6, Zenon DEF Num
<1> QED BY <1>5, <1>6

Lengthened(f, h, s) == [f EXCEPT ![h] = @ \o s]
Emptied(f, h) == [f EXCEPT ![h] = <<>>]

\* Datagrams join those of a next hop.
LEMMA NumHopsJoin ==
  ASSUME NEW f \in [Hops -> Seq(Piece)], NEW h \in Hops, NEW s \in Seq(Piece),
         NEW d, NEW byte, NumHops(f, d, byte) + NumSeq(s, d, byte) <= 1
  PROVE  NumHops(Lengthened(f, h, s), d, byte) = NumHops(f, d, byte) + NumSeq(s, d, byte)
<1> DEFINE g == [f EXCEPT ![h] = @ \o s]
           A == SpotsHops(f, d, byte)
           P == {k \in DOMAIN s : Has(s[k], d, byte)}
           B == Tagged(h, Shifted(P, Len(f[h])))
           C == SpotsHops(g, d, byte)
<1>1. /\ f[h] \in Seq(Piece) /\ Len(f[h]) \in Nat /\ Len(s) \in Nat
      /\ DOMAIN f[h] = 1 .. Len(f[h]) /\ DOMAIN s = 1 .. Len(s)
  OBVIOUS
<1>2. /\ g[h] = f[h] \o s
      /\ \A j \in Hops : j # h => g[j] = f[j]
      /\ DOMAIN g[h] = 1 .. Len(f[h]) + Len(s)
      /\ \A k \in 1 .. Len(f[h]) : g[h][k] = f[h][k]
      /\ \A k \in 1 .. Len(s) : g[h][k + Len(f[h])] = s[k]
  BY <1>1
<1> HIDE DEF g
<1>3. P \in SUBSET Int
  BY <1>1
<1>4. ASSUME NEW y \in C PROVE y \in A \cup B
  <2>1. /\ y \in Hops \X Nat /\ y[1] \in Hops /\ y[2] \in Nat /\ y = <<y[1], y[2]>>
        /\ y[2] \in DOMAIN g[y[1]] /\ Has(g[y[1]][y[2]], d, byte)
    BY DEF SpotsHops
  <2>2. CASE y[1] # h
    BY <1>2, <2>1, <2>2 DEF SpotsHops
  <2>3. CASE y[1] = h /\ y[2] <= Len(f[h])
    BY <1>1, <1>2, <2>1, <2>3 DEF SpotsHops
  <2>4. CASE y[1] = h /\ y[2] > Len(f[h])
    <3> DEFINE k == y[2] - Len(f[h])
    <3>1. k \in 1 .. Len(s) /\ y[2] = k + Len(f[h])
      BY <1>1, <1>2, <2>1, <2>4
    <3>2. Has(s[k], d, byte)
      BY <1>2, <2>1, <2>4, <3>1
    <3>3. k \in P
      BY <1>1, <3>1, <3>2
    <3> HIDE DEF k, P
    <3>4. y[2] \in Shifted(P, Len(f[h]))
      BY <3>1, <3>3 DEF Shifted
    <3> QED BY <2>1, <2>4, <3>4 DEF Tagged
  <2> QED BY <1>1, <2>1, <2>2, <2>3, <2>4
<1>5. ASSUME NEW y \in A PROVE y \in C
  <2>1. y \in Hops \X Nat /\ y[2] \in DOMAIN f[y[1]] /\ Has(f[y[1]][y[2]], d, byte)
    BY DEF SpotsHops
  <2>2. CASE y[1] # h
    BY <1>2, <2>1, <2>2 DEF SpotsHops
  <2>3. CASE y[1] = h
    BY <1>1, <1>2, <2>1, <2>3 DEF SpotsHops
  <2> QED BY <2>2, <2>3
<1>6. ASSUME NEW y \in B PROVE y \in C
  <2>1. PICK k \in P : y = <<h, k + Len(f[h])>>
    BY DEF Tagged, Shifted
  <2>2. /\ y \in Hops \X Nat /\ y[1] = h /\ y[2] = k + Len(f[h])
        /\ k \in 1 .. Len(s) /\ Has(s[k], d, byte)
    BY <1>1, <2>1
  <2>3. y[2] \in DOMAIN g[h] /\ g[h][y[2]] = s[k]
    BY <1>1, <1>2, <2>2
  <2> QED BY <2>2, <2>3 DEF SpotsHops
<1>7. /\ NumHops(f, d, byte) = Num(A) /\ NumSeq(s, d, byte) = Num(P)
      /\ NumHops(g, d, byte) = Num(C)
  BY DEF NumHops, NumSeq
<1>8. Num(B) = Num(P)
  <2> HIDE DEF P
  <2>1. Num(B) = Num(Shifted(P, Len(f[h])))
    BY NumTagged
  <2>2. Num(Shifted(P, Len(f[h]))) = Num(P)
    BY <1>1, <1>3, NumShifted
  <2> QED BY <2>1, <2>2
<1>9. C = A \cup B
  BY <1>4, <1>5, <1>6
<1> HIDE DEF A, B, C, P
<1>10. Num(A) + Num(B) <= 1
  BY <1>7, <1>8
<1>11. Num(A \cup B) = Num(A) + Num(B)
  BY <1>10, NumUnion
<1>12. NumHops(g, d, byte) = NumHops(f, d, byte) + NumSeq(s, d, byte)
  BY <1>7, <1>8, <1>9, <1>11
<1> QED BY <1>12 DEF g, Lengthened

\* The datagrams of a next hop leave.
LEMMA NumHopsLeave ==
  ASSUME NEW f \in [Hops -> Seq(Piece)], NEW h \in Hops, NEW d, NEW byte,
         NumHops(f, d, byte) <= 1
  PROVE  NumHops(Emptied(f, h), d, byte) + NumSeq(f[h], d, byte) = NumHops(f, d, byte)
<1> DEFINE g == [f EXCEPT ![h] = <<>>]
           A == SpotsHops(f, d, byte)
           P == {k \in DOMAIN f[h] : Has(f[h][k], d, byte)}
           B == Tagged(h, P)
           C == SpotsHops(g, d, byte)
<1>1. /\ DOMAIN g[h] = {} /\ \A j \in Hops : j # h => g[j] = f[j]
      /\ DOMAIN f[h] \subseteq Nat
  OBVIOUS
<1> HIDE DEF g
<1>2. ASSUME NEW y \in A PROVE y \in C \cup B
  <2>1. /\ y \in Hops \X Nat /\ y = <<y[1], y[2]>>
        /\ y[2] \in DOMAIN f[y[1]] /\ Has(f[y[1]][y[2]], d, byte)
    BY DEF SpotsHops
  <2>2. CASE y[1] # h
    BY <1>1, <2>1, <2>2 DEF SpotsHops
  <2>3. CASE y[1] = h
    BY <2>1, <2>3 DEF Tagged
  <2> QED BY <2>2, <2>3
<1>3. ASSUME NEW y \in C PROVE y \in A /\ y \notin B
  <2>1. y \in Hops \X Nat /\ y[2] \in DOMAIN g[y[1]] /\ Has(g[y[1]][y[2]], d, byte)
    BY DEF SpotsHops
  <2>2. y[1] # h
    BY <1>1, <2>1
  <2>3. y \notin B
    BY <2>2 DEF Tagged
  <2> QED BY <1>1, <2>1, <2>2, <2>3 DEF SpotsHops
<1>4. ASSUME NEW y \in B PROVE y \in A
  <2>1. PICK k \in P : y = <<h, k>>
    BY DEF Tagged
  <2> QED BY <1>1, <2>1 DEF SpotsHops
<1>5. /\ NumHops(f, d, byte) = Num(A) /\ NumSeq(f[h], d, byte) = Num(P)
      /\ NumHops(g, d, byte) = Num(C)
  BY DEF NumHops, NumSeq
<1>6. Num(B) = Num(P)
  <2> HIDE DEF P
  <2> QED BY NumTagged
<1>7. A = C \cup B /\ C \cap B = {}
  BY <1>2, <1>3, <1>4
<1> HIDE DEF A, B, C, P
<1>8. Num(C \cup B) <= 1
  BY <1>5, <1>7
<1>9. Num(C \cup B) = Num(C) + Num(B)
  BY <1>7, <1>8, NumSplit
<1>10. NumHops(g, d, byte) + NumSeq(f[h], d, byte) = NumHops(f, d, byte)
  BY <1>5, <1>6, <1>7, <1>9
<1> QED BY <1>10 DEF g, Emptied

-----------------------------------------------------------------------------
(* What plans do with a datagram.                                           *)

\* The datagrams that no multicast or broadcast copies
OneWay == {d \in Ids : Kind[d] \in {"unicast", "local"}}

\* Where the last fragment of datagram d ends
Ends(d) == {x.p.off + x.p.len : x \in {y \in Inputs : y.p.id = d /\ ~y.p.more}}

\* A piece has bytes if it is a fragment, and reaches as far as the datagram does
\* if and only if it is the last one.
Sound(q) ==
  /\ IsFragment(q) => q.len > 0
  /\ \A e \in Ends(q.id) : q.off + q.len <= e
  /\ ~q.more => q.off + q.len \in Ends(q.id)

SameBytes(p, q) == q.id = p.id /\ q.off = p.off /\ q.len = p.len /\ q.more = p.more

Amount(plan, d, byte) ==
  NumSeq(plan.loop, d, byte) + NumSeq(plan.send, d, byte) + NumSet(plan.wire, d, byte)
    + NumSet(plan.local, d, byte) + NumAt(plan.hook, d, byte) + NumSet(plan.lost, d, byte)

PiecesIn(plan) ==
  Range(plan.loop) \cup Range(plan.send) \cup plan.wire \cup plan.local
    \cup {x.p : x \in plan.hook} \cup plan.lost

\* All that a plan moves is of datagram d, to a next hop if it needs one,
OfDatagram(plan, d) ==
  /\ \A q \in PiecesIn(plan) : q.id = d
  /\ plan.send # <<>> => plan.hop \in Hops

\* and it puts every byte of p in one place.
Keeps(plan, p) ==
  /\ \A byte \in Nat : Amount(plan, p.id, byte) = Bit(Holds(p, byte))
  /\ Sound(p) => \A q \in PiecesIn(plan) : Sound(q)

\* The fragments of a datagram share its bytes.
LEMMA FragmentsShare ==
  ASSUME NEW p \in Piece, NEW size \in Nat \ {0}, NEW byte \in Nat
  PROVE  /\ NumSeq(Fragments(p, size), p.id, byte) = Bit(Holds(p, byte))
         /\ \A q \in Range(Fragments(p, size)) : q.id = p.id /\ (Sound(p) => Sound(q))
<1> DEFINE n == (p.len + size - 1) \div size
           f == Fragments(p, size)
           x == byte - p.off
<1>1. /\ p.len \in Nat /\ p.off \in Nat /\ p.more \in BOOLEAN /\ p.ttl \in Nat
      /\ p = [id |-> p.id, off |-> p.off, len |-> p.len, more |-> p.more, ttl |-> p.ttl]
  BY DEF Piece
<1>2. n \in Nat
  BY <1>1
<1>3. n * size <= p.len + size - 1 /\ p.len + size - 1 < n * size + size
  BY <1>1
<1>4. DOMAIN f = 1 .. n
  BY DEF Fragments
<1>5. ASSUME NEW k \in 1 .. n
      PROVE  /\ f[k].id = p.id
             /\ f[k].off = p.off + (k - 1) * size
             /\ f[k].len = IF (k - 1) * size + size >= p.len THEN p.len - (k - 1) * size
                           ELSE size
             /\ f[k].more = IF (k - 1) * size + size >= p.len THEN p.more ELSE TRUE
  <2> DEFINE offset == (k - 1) * size
             last == offset + size >= p.len
             flen == IF last THEN p.len - offset ELSE size
             fmore == IF last THEN p.more ELSE TRUE
  <2>1. f[k] = [p EXCEPT !.off = p.off + offset, !.len = flen, !.more = fmore]
    BY DEF Fragments
  <2> HIDE DEF offset, flen, fmore, f
  <2>2. f[k] = [id |-> p.id, off |-> p.off + offset, len |-> flen, more |-> fmore,
                ttl |-> p.ttl]
    BY <1>1, <2>1
  <2>3. f[k].id = p.id /\ f[k].off = p.off + offset /\ f[k].len = flen /\ f[k].more = fmore
    BY <2>2
  <2> QED BY <2>3 DEF offset, flen, fmore
<1> HIDE DEF f
<1>6. ASSUME NEW k \in 1 .. n
      PROVE  /\ (k - 1) * size \in Nat
             /\ (k - 1) * size < p.len
  <2>1. k \in Nat /\ k - 1 \in Nat /\ n - k \in Nat
    BY <1>2
  <2>2. (k - 1) * size \in Nat /\ (n - k) * size \in Nat
    BY <2>1
  <2>3. n * size = (k - 1) * size + size + (n - k) * size
    BY <1>2, <2>1
  <2> QED BY <1>1, <1>3, <2>2, <2>3
<1>7. ASSUME NEW k \in 1 .. n
      PROVE  Holds(f[k], byte) <=> /\ Holds(p, byte)
                                   /\ (k - 1) * size <= x /\ x < (k - 1) * size + size
  <2> DEFINE offset == (k - 1) * size
  <2>1. offset \in Nat /\ offset < p.len
    BY <1>6
  <2>2. /\ f[k].off = p.off + offset
        /\ f[k].len = IF offset + size >= p.len THEN p.len - offset ELSE size
    BY <1>5
  <2> HIDE DEF offset
  <2>3. Holds(f[k], byte) <=> Holds(p, byte) /\ offset <= x /\ x < offset + size
    BY <1>1, <2>1, <2>2 DEF Holds
  <2> QED BY <2>3 DEF offset
<1>8. NumSeq(f, p.id, byte) = Bit(Holds(p, byte))
  <2> DEFINE P == {k \in DOMAIN f : Has(f[k], p.id, byte)}
  <2>1. NumSeq(f, p.id, byte) = Num(P)
    BY DEF NumSeq
  <2>2. \A k \in 1 .. n :
          k \in P <=> Holds(p, byte) /\ (k - 1) * size <= x /\ x < (k - 1) * size + size
    BY <1>4, <1>5, <1>7 DEF Has
  <2>3. CASE ~Holds(p, byte)
    <3>1. P = {}
      BY <1>4, <2>2, <2>3
    <3> HIDE DEF P
    <3> QED BY <2>1, <2>3, <3>1, NumZero DEF Bit
  <2>4. CASE Holds(p, byte)
    <3> DEFINE j == x \div size
    <3>1. x \in Nat /\ x < p.len
      BY <1>1, <2>4 DEF Holds
    <3>2. j \in Nat /\ j * size <= x /\ x < j * size + size
      BY <3>1
    <3>3. j + 1 <= n
      <4>1. j * size < n * size
        BY <1>1, <1>2, <1>3, <3>1, <3>2
      <4>2. CASE n <= j
        <5>1. j - n \in Nat
          BY <1>2, <3>2, <4>2
        <5>2. (j - n) * size \in Nat
          BY <5>1
        <5>3. j * size = n * size + (j - n) * size
          BY <1>2, <3>2, <5>1
        <5> HIDE DEF n, j
        <5> QED BY <4>1, <5>2, <5>3, <1>2, <3>2
      <4> HIDE DEF n, j
      <4> QED BY <1>2, <3>2, <4>2
    <3> HIDE DEF j
    <3>4. j + 1 \in P
      <4>1. j + 1 \in 1 .. n /\ (j + 1) - 1 = j
        BY <1>2, <3>2, <3>3
      <4> HIDE DEF P, n, x
      <4> QED BY <2>2, <2>4, <3>2, <4>1
    <3>5. ASSUME NEW k \in P PROVE k = j + 1
      <4>1. k \in 1 .. n
        BY <1>4
      <4>2. (k - 1) * size <= x /\ x < (k - 1) * size + size
        BY <2>2, <4>1
      <4>3. k - 1 \in Nat
        BY <1>2, <4>1
      <4> DEFINE i == k - 1
      <4>4. i \in Nat /\ i * size <= x /\ x < i * size + size
        BY <4>2, <4>3
      <4>5. i = j
        <5> HIDE DEF i, n
        <5>1. CASE i < j
          <6>1. j - i - 1 \in Nat
            BY <3>2, <4>4, <5>1
          <6>2. (j - i - 1) * size \in Nat
            BY <6>1
          <6>3. j * size = i * size + size + (j - i - 1) * size
            BY <3>2, <4>4, <6>1
          <6> QED BY <3>1, <3>2, <4>4, <6>2, <6>3
        <5>2. CASE j < i
          <6>1. i - j - 1 \in Nat
            BY <3>2, <4>4, <5>2
          <6>2. (i - j - 1) * size \in Nat
            BY <6>1
          <6>3. i * size = j * size + size + (i - j - 1) * size
            BY <3>2, <4>4, <6>1
          <6> QED BY <3>1, <3>2, <4>4, <6>2, <6>3
        <5> QED BY <3>2, <4>4, <5>1, <5>2
      <4> QED BY <1>2, <3>2, <4>1, <4>5
    <3>6. P = {j + 1}
      BY <3>4, <3>5
    <3> HIDE DEF P
    <3>7. Num(P) = 1
      BY <3>6, NumSingle
    <3> QED BY <2>1, <2>4, <3>7 DEF Bit
  <2> QED BY <2>3, <2>4
<1>9. ASSUME NEW q \in Range(f) PROVE q.id = p.id /\ (Sound(p) => Sound(q))
  <2>1. PICK k \in 1 .. n : q = f[k]
    BY <1>4 DEF Range
  <2> DEFINE offset == (k - 1) * size
  <2>2. offset \in Nat /\ offset < p.len
    BY <1>6
  <2>3. /\ q.id = p.id
        /\ q.off = p.off + offset
        /\ q.len = IF offset + size >= p.len THEN p.len - offset ELSE size
        /\ q.more = IF offset + size >= p.len THEN p.more ELSE TRUE
    BY <1>5, <2>1
  <2> HIDE DEF offset
  <2>4. q.len > 0 /\ q.off + q.len <= p.off + p.len
    BY <1>1, <2>2, <2>3
  <2>5. ~q.more => ~p.more /\ q.off + q.len = p.off + p.len
    <3>1. CASE offset + size >= p.len
      <4>1. q.more = p.more /\ q.len = p.len - offset
        BY <2>3, <3>1
      <4>2. q.off + q.len = p.off + p.len
        BY <1>1, <2>2, <2>3, <4>1
      <4> QED BY <4>1, <4>2
    <3>2. CASE ~(offset + size >= p.len)
      BY <2>3, <3>2
    <3> QED BY <3>1, <3>2
  <2>6. ASSUME Sound(p) PROVE Sound(q)
    <3>1. \A e \in Ends(p.id) : p.off + p.len <= e
      BY <2>6 DEF Sound
    <3>2. Ends(p.id) \subseteq Nat
      BY IPAssumption DEF Ends, Piece
    <3>3. q.off + q.len \in Int
      BY <1>1, <2>2, <2>3
    <3>4. \A e \in Ends(q.id) : q.off + q.len <= e
      BY <1>1, <2>3, <2>4, <3>1, <3>2, <3>3
    <3>5. ~q.more => q.off + q.len \in Ends(q.id)
      BY <2>3, <2>5, <2>6 DEF Sound
    <3> QED BY <2>4, <3>4, <3>5 DEF Sound
  <2> QED BY <2>3, <2>6
<1> QED BY <1>8, <1>9 DEF f

\* A piece of datagram d has a byte if it holds it.
LEMMA BitHas ==
  ASSUME NEW p, NEW byte
  PROVE  Bit(Has(p, p.id, byte)) = Bit(Holds(p, byte))
BY DEF Bit, Has

\* The simplest plans, and those of one way out
LEMMA SimpleKeep ==
  ASSUME NEW p \in Piece
  PROVE  /\ OfDatagram(Nothing, p.id)
         /\ OfDatagram(Lose(p), p.id) /\ Keeps(Lose(p), p) /\ Lose(p).local = {}
         /\ OfDatagram(Deliver(p), p.id) /\ Keeps(Deliver(p), p)
<1>1. /\ Nothing.loop = <<>> /\ Nothing.send = <<>> /\ Nothing.wire = {}
      /\ Nothing.local = {} /\ Nothing.hook = {} /\ Nothing.lost = {}
  BY DEF Nothing
<1>2. /\ Lose(p).loop = <<>> /\ Lose(p).send = <<>> /\ Lose(p).wire = {}
      /\ Lose(p).local = {} /\ Lose(p).hook = {} /\ Lose(p).lost = {p}
  BY DEF Nothing, Lose
<1>3. /\ Deliver(p).loop = <<>> /\ Deliver(p).send = <<>> /\ Deliver(p).wire = {}
      /\ Deliver(p).local = {p} /\ Deliver(p).hook = {} /\ Deliver(p).lost = {}
  BY DEF Nothing, Deliver
<1>4. Range(<<>>) = {}
  BY DEF Range
<1>5. PiecesIn(Nothing) = {} /\ PiecesIn(Lose(p)) = {p} /\ PiecesIn(Deliver(p)) = {p}
  <2> HIDE DEF Nothing, Lose, Deliver
  <2> QED BY <1>1, <1>2, <1>3, <1>4 DEF PiecesIn
<1>6. ASSUME NEW byte \in Nat
      PROVE  /\ Amount(Lose(p), p.id, byte) = Bit(Holds(p, byte))
             /\ Amount(Deliver(p), p.id, byte) = Bit(Holds(p, byte))
  <2>1. NumSet({p}, p.id, byte) = Bit(Holds(p, byte))
    BY NumSetSingle, BitHas
  <2>2. NumSet({}, p.id, byte) = 0 /\ NumAt({}, p.id, byte) = 0 /\ NumSeq(<<>>, p.id, byte) = 0
    BY NumEmpty
  <2>3. Bit(Holds(p, byte)) \in Nat
    BY DEF Bit
  <2>4. Amount(Lose(p), p.id, byte) = 0 + 0 + 0 + 0 + 0 + Bit(Holds(p, byte))
    BY <1>2, <2>1, <2>2 DEF Amount
  <2>5. Amount(Deliver(p), p.id, byte) = 0 + 0 + 0 + Bit(Holds(p, byte)) + 0 + 0
    BY <1>3, <2>1, <2>2 DEF Amount
  <2> QED BY <2>3, <2>4, <2>5
<1> HIDE DEF Nothing, Lose, Deliver
<1> QED BY <1>1, <1>2, <1>3, <1>5, <1>6 DEF OfDatagram, Keeps

\* A plan that sends moves each byte as often as the pieces hold it.
LEMMA SendKeep ==
  ASSUME NEW p \in Piece, NEW ps \in Seq(Piece), NEW ie, NEW hop \in Hops \cup {Wire},
         \A byte \in Nat : NumSeq(ps, p.id, byte) = Bit(Holds(p, byte)),
         \A q \in Range(ps) : q.id = p.id /\ (Sound(p) => Sound(q))
  PROVE  /\ OfDatagram(Send(ps, ie, hop), p.id)
         /\ Keeps(Send(ps, ie, hop), p)
         /\ Send(ps, ie, hop).local = {}
<1> DEFINE plan == Send(ps, ie, hop)
<1>1. Range(<<>>) = {}
  BY DEF Range
<1>2. /\ plan.local = {} /\ plan.hook = {} /\ plan.lost = {}
      /\ \/ plan.loop = ps /\ plan.send = <<>> /\ plan.wire = {}
         \/ plan.loop = <<>> /\ plan.send = ps /\ plan.wire = {}
         \/ plan.loop = <<>> /\ plan.send = <<>> /\ plan.wire = Range(ps)
      /\ plan.send # <<>> => plan.hop \in Hops
  BY DEF Nothing, Send
<1> HIDE DEF plan
<1>3. PiecesIn(plan) = Range(ps)
  BY <1>1, <1>2 DEF PiecesIn
<1>4. ASSUME NEW byte \in Nat PROVE Amount(plan, p.id, byte) = Bit(Holds(p, byte))
  <2>1. NumSet({}, p.id, byte) = 0 /\ NumAt({}, p.id, byte) = 0 /\ NumSeq(<<>>, p.id, byte) = 0
    BY NumEmpty
  <2>2. NumSeq(ps, p.id, byte) = Bit(Holds(p, byte))
    OBVIOUS
  <2>3. Bit(Holds(p, byte)) \in 0 .. 1
    BY DEF Bit
  <2>4. NumSet(Range(ps), p.id, byte) = Bit(Holds(p, byte))
    BY <2>2, <2>3, NumRange
  <2>5. /\ NumSet(plan.local, p.id, byte) = 0 /\ NumAt(plan.hook, p.id, byte) = 0
        /\ NumSet(plan.lost, p.id, byte) = 0
    BY <1>2, <2>1
  <2>6. NumSeq(plan.loop, p.id, byte) + NumSeq(plan.send, p.id, byte)
          + NumSet(plan.wire, p.id, byte) = Bit(Holds(p, byte))
    <3> DEFINE z == Bit(Holds(p, byte))
    <3>1. z \in Nat /\ NumSeq(ps, p.id, byte) = z /\ NumSet(Range(ps), p.id, byte) = z
      BY <2>2, <2>3, <2>4
    <3> HIDE DEF z
    <3>2. CASE plan.loop = ps /\ plan.send = <<>> /\ plan.wire = {}
      BY <2>1, <3>1, <3>2 DEF z
    <3>3. CASE plan.loop = <<>> /\ plan.send = ps /\ plan.wire = {}
      BY <2>1, <3>1, <3>3 DEF z
    <3>4. CASE plan.loop = <<>> /\ plan.send = <<>> /\ plan.wire = Range(ps)
      BY <2>1, <3>1, <3>4 DEF z
    <3> QED BY <1>2, <3>2, <3>3, <3>4
  <2>7. Amount(plan, p.id, byte) =
          (NumSeq(plan.loop, p.id, byte) + NumSeq(plan.send, p.id, byte)
             + NumSet(plan.wire, p.id, byte)) + 0 + 0 + 0
    BY <2>5 DEF Amount
  <2> QED BY <2>3, <2>6, <2>7
<1>5. Keeps(plan, p)
  BY <1>3, <1>4 DEF Keeps
<1>6. OfDatagram(plan, p.id)
  BY <1>2, <1>3 DEF OfDatagram
<1> QED BY <1>2, <1>5, <1>6 DEF plan

\* What is kept of a datagram does not depend on its TTL.
LEMMA KeepsSame ==
  ASSUME NEW plan, NEW p, NEW q, SameBytes(p, q), Keeps(plan, q)
  PROVE  Keeps(plan, p)
<1>1. q.id = p.id /\ \A byte \in Nat : Holds(q, byte) = Holds(p, byte)
  BY DEF SameBytes, Holds
<1>2. Sound(p) => Sound(q)
  BY DEF SameBytes, Sound, IsFragment
<1>3. \A byte \in Nat : Amount(plan, p.id, byte) = Bit(Holds(q, byte))
  BY <1>1 DEF Keeps
<1>4. \A byte \in Nat : Amount(plan, p.id, byte) = Bit(Holds(p, byte))
  BY <1>1, <1>3 DEF Bit
<1> QED BY <1>2, <1>4 DEF Keeps

\* Going out, whole or in fragments
LEMMA FragmentAndSendKeep ==
  ASSUME NEW p \in Piece, NEW ie \in Ifaces, NEW hop \in Hops \cup {Wire}
  PROVE  /\ OfDatagram(FragmentAndSend(p, ie, hop), p.id)
         /\ Keeps(FragmentAndSend(p, ie, hop), p)
         /\ FragmentAndSend(p, ie, hop).local = {}
<1>1. CASE ie # Loopback /\ p.ttl = 0
  BY <1>1, SimpleKeep DEF FragmentAndSend
<1>2. CASE ~(ie # Loopback /\ p.ttl = 0)
  <2> DEFINE q == IF ie = Loopback THEN p ELSE [p EXCEPT !.ttl = @ - 1]
             plan == FragmentAndSend(p, ie, hop)
             size == FragmentLength(Mtu[ie])
  <2>1. q \in Piece /\ SameBytes(p, q)
    BY <1>2 DEF Piece, SameBytes
  <2> HIDE DEF q
  <2>2. plan = IF Mtu[ie] = 0 \/ Header + q.len =< Mtu[ie] THEN Send(<<q>>, ie, hop)
               ELSE IF q.id \in DontFragment THEN Lose(q)
               ELSE Send(Fragments(q, size), ie, hop)
    BY <1>2 DEF FragmentAndSend, q
  <2>3. Mtu[ie] # 0 => size \in Nat \ {0}
    <3>1. Mtu[ie] \in Nat /\ Header \in Nat
      BY IPAssumption
    <3>2. Mtu[ie] # 0 => Mtu[ie] >= Header + 8
      BY IPAssumption
    <3> QED BY <3>1, <3>2 DEF FragmentLength
  <2> HIDE DEF size
  <2>4. /\ OfDatagram(Send(<<q>>, ie, hop), q.id)
        /\ Keeps(Send(<<q>>, ie, hop), q)
        /\ Send(<<q>>, ie, hop).local = {}
    <3>1. \A byte \in Nat : NumSeq(<<q>>, q.id, byte) = Bit(Holds(q, byte))
      BY NumSeqSingle, BitHas
    <3>2. Range(<<q>>) = {q} /\ <<q>> \in Seq(Piece)
      BY <2>1 DEF Range
    <3>3. \A r \in Range(<<q>>) : r.id = q.id /\ (Sound(q) => Sound(r))
      BY <3>2
    <3> QED BY <2>1, <3>1, <3>2, <3>3, SendKeep
  <2>5. ASSUME Mtu[ie] # 0
        PROVE  /\ OfDatagram(Send(Fragments(q, size), ie, hop), q.id)
               /\ Keeps(Send(Fragments(q, size), ie, hop), q)
               /\ Send(Fragments(q, size), ie, hop).local = {}
    <3>1. Fragments(q, size) \in Seq(Piece)
      BY <2>1, <2>3, <2>5, FragmentsType
    <3>2. \A byte \in Nat : NumSeq(Fragments(q, size), q.id, byte) = Bit(Holds(q, byte))
      BY <2>1, <2>3, <2>5, FragmentsShare
    <3>3. \A r \in Range(Fragments(q, size)) : r.id = q.id /\ (Sound(q) => Sound(r))
      <4>1. 0 \in Nat
        OBVIOUS
      <4> QED BY <2>1, <2>3, <2>5, <4>1, FragmentsShare
    <3> QED BY <2>1, <3>1, <3>2, <3>3, SendKeep
  <2>6. OfDatagram(Lose(q), q.id) /\ Keeps(Lose(q), q) /\ Lose(q).local = {}
    BY <2>1, SimpleKeep
  <2>7. OfDatagram(plan, q.id) /\ Keeps(plan, q) /\ plan.local = {}
    BY <2>2, <2>4, <2>5, <2>6
  <2>8. q.id = p.id
    BY <2>1 DEF SameBytes
  <2> QED BY <2>1, <2>7, <2>8, KeepsSame
<1> QED BY <1>1, <1>2

\* A hook point
LEMMA HookedKeep ==
  ASSUME NEW p \in Piece, NEW at, NEW ie, NEW hop, NEW v, NEW plan
  PROVE  /\ OfDatagram(plan, p.id) => OfDatagram(Hooked(at, p, ie, hop, v, plan), p.id)
         /\ Keeps(plan, p) => Keeps(Hooked(at, p, ie, hop, v, plan), p)
         /\ plan.local \subseteq {p} => Hooked(at, p, ie, hop, v, plan).local \subseteq {p}
         /\ plan.local = {} => Hooked(at, p, ie, hop, v, plan).local = {}
<1> DEFINE e == Entry(p, at, ie, hop)
           queued == [Nothing EXCEPT !.hook = {e}]
<1>1. e.p = p
  BY DEF Entry
<1> HIDE DEF e
<1>2. /\ queued.loop = <<>> /\ queued.send = <<>> /\ queued.wire = {}
      /\ queued.local = {} /\ queued.hook = {e} /\ queued.lost = {}
  BY DEF Nothing
<1> HIDE DEF queued
<1>3. Range(<<>>) = {}
  BY DEF Range
<1>4. PiecesIn(queued) = {p}
  BY <1>1, <1>2, <1>3 DEF PiecesIn
<1>5. ASSUME NEW byte \in Nat PROVE Amount(queued, p.id, byte) = Bit(Holds(p, byte))
  <2>1. NumAt({e}, p.id, byte) = Bit(Holds(p, byte))
    <3>1. NumAt({e}, p.id, byte) = Bit(Has(e.p, p.id, byte))
      BY NumAtSingle
    <3> QED BY <1>1, <3>1, BitHas
  <2>2. NumSet({}, p.id, byte) = 0 /\ NumSeq(<<>>, p.id, byte) = 0
    BY NumEmpty
  <2>3. Bit(Holds(p, byte)) \in Nat
    BY DEF Bit
  <2>4. Amount(queued, p.id, byte) = 0 + 0 + 0 + 0 + Bit(Holds(p, byte)) + 0
    BY <1>2, <2>1, <2>2 DEF Amount
  <2> QED BY <2>3, <2>4
<1>6. OfDatagram(queued, p.id) /\ Keeps(queued, p) /\ queued.local = {}
  BY <1>2, <1>4, <1>5 DEF OfDatagram, Keeps
<1>7. OfDatagram(Lose(p), p.id) /\ Keeps(Lose(p), p) /\ Lose(p).local = {}
  BY SimpleKeep
<1>8. Hooked(at, p, ie, hop, v, plan) \in {plan, queued, Lose(p)}
  BY DEF Hooked, queued, e
<1> QED BY <1>6, <1>7, <1>8

\* What goes out through one interface keeps every byte.
LEMMA PostRoutingKeep ==
  ASSUME NEW p \in Piece, NEW ie \in Ifaces, NEW hop \in Hops \cup {Wire}, NEW v
  PROVE  /\ OfDatagram(PostRouting(p, ie, hop, v), p.id)
         /\ Keeps(PostRouting(p, ie, hop, v), p)
         /\ PostRouting(p, ie, hop, v).local = {}
BY FragmentAndSendKeep, HookedKeep DEF PostRouting

\* The copies of a datagram
LEMMA PostRoutingAllKeep ==
  ASSUME NEW p \in Piece, NEW ies \in SUBSET Ifaces, NEW v
  PROVE  /\ OfDatagram(PostRoutingAll(p, ies, v), p.id)
         /\ PostRoutingAll(p, ies, v).local = {}
<1> DEFINE plans == {PostRouting(p, ie, Wire, v) : ie \in ies}
           loop == IF Loopback \in ies THEN PostRouting(p, Loopback, Wire, v).loop ELSE <<>>
           wire == UNION {plan.wire : plan \in plans}
           hook == UNION {plan.hook : plan \in plans}
           lost == UNION {plan.lost : plan \in plans}
           all == PostRoutingAll(p, ies, v)
<1>1. \A ie \in Ifaces : OfDatagram(PostRouting(p, ie, Wire, v), p.id)
  BY PostRoutingKeep
<1>2. \A plan \in plans : OfDatagram(plan, p.id)
  BY <1>1
<1>3. \A q \in Range(loop) : q.id = p.id
  <2>1. Range(<<>>) = {}
    BY DEF Range
  <2>2. \A q \in Range(PostRouting(p, Loopback, Wire, v).loop) : q.id = p.id
    BY <1>1, IPAssumption DEF OfDatagram, PiecesIn
  <2> QED BY <2>1, <2>2
<1>4. all = [Nothing EXCEPT !.loop = loop, !.wire = wire, !.hook = hook, !.lost = lost]
  BY DEF PostRoutingAll
<1> HIDE DEF plans, loop, all
<1>5. /\ \A q \in wire : q.id = p.id
      /\ \A x \in hook : x.p.id = p.id
      /\ \A q \in lost : q.id = p.id
  BY <1>2 DEF OfDatagram, PiecesIn
<1> HIDE DEF wire, hook, lost
<1>6. /\ all.loop = loop /\ all.send = <<>> /\ all.wire = wire /\ all.local = {}
      /\ all.hook = hook /\ all.lost = lost
  BY <1>4 DEF Nothing
<1>7. Range(<<>>) = {}
  BY DEF Range
<1>8. OfDatagram(all, p.id)
  BY <1>3, <1>5, <1>6, <1>7 DEF OfDatagram, PiecesIn
<1> QED BY <1>6, <1>8 DEF all

\* What a plan does with a datagram of any kind
Tracks(plan, p) ==
  /\ OfDatagram(plan, p.id)
  /\ plan.local \subseteq {p}
  /\ p.id \in OneWay => Keeps(plan, p)

\* The hooks pass on, queue or lose a datagram, whole.
LEMMA HookedTracks ==
  ASSUME NEW p \in Piece, NEW at, NEW ie, NEW hop, NEW v, NEW plan, Tracks(plan, p)
  PROVE  Tracks(Hooked(at, p, ie, hop, v, plan), p)
BY HookedKeep DEF Tracks

\* Losing a datagram or delivering it keeps its bytes.
LEMMA SimpleTracks ==
  ASSUME NEW p \in Piece
  PROVE  Tracks(Lose(p), p) /\ Tracks(Deliver(p), p)
<1>1. Deliver(p).local = {p}
  BY DEF Deliver, Nothing
<1> QED BY <1>1, SimpleKeep DEF Tracks

\* Routes, by kind of datagram: a packet that goes out through one interface,
LEMMA PostRoutingTracks ==
  ASSUME NEW p \in Piece, NEW ie \in Ifaces, NEW hop \in Hops \cup {Wire}, NEW v
  PROVE  Tracks(PostRouting(p, ie, hop, v), p)
BY PostRoutingKeep DEF Tracks

\* A unicast datagram, from above or from an interface
LEMMA UnicastTracks ==
  ASSUME NEW p \in Piece, NEW from, NEW route \in RouteAnswer, NEW v
  PROVE  Tracks(RouteUnicastPacket(p, from, route, v), p)
<1>1. CASE route = NoRoute
  BY <1>1, SimpleTracks DEF RouteUnicastPacket
<1>2. CASE route # NoRoute
  <2>1. route.ie \in Ifaces /\ route.hop \in Hops \cup {Wire}
    BY <1>2 DEF RouteAnswer, RouteTo
  <2>2. Tracks(PostRouting(p, route.ie, route.hop, v), p)
    BY <2>1, PostRoutingTracks
  <2>3. Tracks(Hooked("FORWARD", p, route.ie, route.hop, v,
                      PostRouting(p, route.ie, route.hop, v)), p)
    BY <2>2, HookedTracks
  <2> QED BY <1>2, <2>2, <2>3 DEF RouteUnicastPacket
<1> QED BY <1>1, <1>2

\* a datagram that is copied,
LEMMA CopiesTrack ==
  ASSUME NEW p \in Piece, NEW ies \in SUBSET Ifaces, NEW v, p.id \notin OneWay
  PROVE  Tracks(PostRoutingAll(p, ies, v), p)
BY PostRoutingAllKeep DEF Tracks

\* one that is not,
LEMMA KindOneWay ==
  ASSUME NEW p \in Piece
  PROVE  p.id \in OneWay <=> Kind[p.id] \in {"unicast", "local"}
BY DEF Piece, OneWay

\* one of which copies go out and that is dropped itself,
LEMMA LostToo ==
  ASSUME NEW p \in Piece, NEW plan \in Plan, Tracks(plan, p), p.id \notin OneWay
  PROVE  Tracks([plan EXCEPT !.lost = @ \cup {p}], p)
<1> DEFINE new == [plan EXCEPT !.lost = @ \cup {p}]
<1>1. /\ new.loop = plan.loop /\ new.send = plan.send /\ new.wire = plan.wire
      /\ new.local = plan.local /\ new.hook = plan.hook /\ new.lost = plan.lost \cup {p}
      /\ new.hop = plan.hop
  BY DEF Plan
<1> HIDE DEF new
<1>2. OfDatagram(new, p.id)
  BY <1>1 DEF Tracks, OfDatagram, PiecesIn
<1> QED BY <1>1, <1>2 DEF Tracks, new

\* a packet of a higher layer,
LEMMA LocalOutTracks ==
  ASSUME NEW p \in Piece, NEW route \in RouteAnswer, NEW v
  PROVE  Tracks(DatagramLocalOut(p, route, v), p)
<1>1. route # NoRoute => route.ie \in Ifaces
  BY DEF RouteAnswer, RouteTo
<1>2. Tracks(PostRouting(p, Loopback, Wire, v), p) /\ Tracks(Lose(p), p)
  BY PostRoutingTracks, SimpleTracks, IPAssumption
<1>3. CASE Kind[p.id] \in {"multicast", "linklocal"}
  <2>1. p.id \notin OneWay
    BY <1>3, KindOneWay
  <2>2. route # NoRoute => {Loopback, route.ie} \in SUBSET Ifaces
    BY <1>1, IPAssumption
  <2>3. Tracks([PostRoutingAll(p, {Loopback}, v) EXCEPT !.lost = @ \cup {p}], p)
    BY <2>1, IPAssumption, PostRoutingAllPlan, CopiesTrack, LostToo
  <2>4. Tracks(MulticastOut(p, route, v), p)
    BY <1>2, <2>1, <2>2, <2>3, CopiesTrack DEF MulticastOut
  <2> QED BY <1>3, <2>4 DEF DatagramLocalOut
<1>4. CASE Kind[p.id] = "local"
  BY <1>2, <1>4 DEF DatagramLocalOut
<1>5. CASE Kind[p.id] \in {"limited", "subnet"}
  <2>1. p.id \notin OneWay
    BY <1>5, KindOneWay
  <2>2. Tracks(RouteLocalBroadcastPacket(p, route, v), p)
    BY <1>1, <1>2, <2>1, PostRoutingTracks, CopiesTrack DEF RouteLocalBroadcastPacket
  <2> QED BY <1>5, <2>2 DEF DatagramLocalOut
<1>6. CASE Kind[p.id] \notin {"multicast", "linklocal", "local", "limited", "subnet"}
  BY <1>6, UnicastTracks DEF DatagramLocalOut
<1> QED BY <1>3, <1>4, <1>5, <1>6

\* Local delivery next to the copies that go on
LEMMA DeliveredToo ==
  ASSUME NEW p \in Piece, NEW plan \in Plan, OfDatagram(plan, p.id)
  PROVE  /\ OfDatagram([plan EXCEPT !.local = {p}], p.id)
         /\ [plan EXCEPT !.local = {p}].local \subseteq {p}
<1> DEFINE new == [plan EXCEPT !.local = {p}]
<1>1. /\ new.loop = plan.loop /\ new.send = plan.send /\ new.wire = plan.wire
      /\ new.local = {p} /\ new.hook = plan.hook /\ new.lost = plan.lost
      /\ new.hop = plan.hop
  BY DEF Plan
<1> HIDE DEF new
<1>2. OfDatagram(new, p.id)
  BY <1>1 DEF OfDatagram, PiecesIn
<1> QED BY <1>1, <1>2 DEF new

\* a packet of an interface,
LEMMA PreroutingTracks ==
  ASSUME NEW p \in Piece, NEW from \in Ifaces, NEW route \in RouteAnswer, NEW v
  PROVE  Tracks(PreroutingFinish(p, from, route, v), p)
<1>1. p.id \in Ids /\ Nothing.local = {}
  BY DEF Piece, Nothing
<1>2. CASE from = Loopback \/ Kind[p.id] = "local"
  BY <1>2, SimpleTracks DEF PreroutingFinish
<1>3. CASE /\ from # Loopback
           /\ Kind[p.id] \in {"multicast", "linklocal"}
  <2>1. p.id \notin OneWay
    BY <1>3, KindOneWay
  <2> DEFINE on == IF ~IPForward \/ Kind[p.id] = "linklocal" THEN Nothing
                   ELSE ForwardMulticastPacket(p, from, v)
  <2>2. on \in Plan /\ OfDatagram(on, p.id) /\ on.local = {}
    <3>1. MRouteOuts[p.id] \ {from} \in SUBSET Ifaces
      BY <1>1, IPAssumption
    <3>2. on \in {Nothing, PostRoutingAll(p, MRouteOuts[p.id] \ {from}, v)}
      BY DEF ForwardMulticastPacket
    <3> HIDE DEF on
    <3> QED BY <1>1, <3>1, <3>2, PostRoutingAllKeep, PostRoutingAllPlan, SimpleKeep, SimplePlans
  <2> HIDE DEF on
  <2>3. Tracks(on, p) /\ Tracks([on EXCEPT !.local = {p}], p)
    BY <2>1, <2>2, DeliveredToo DEF Tracks
  <2>4. MulticastIn(p, from, v) \in {on, [on EXCEPT !.local = {p}]}
    BY DEF MulticastIn, on
  <2>5. PreroutingFinish(p, from, route, v) = MulticastIn(p, from, v)
    BY <1>3 DEF PreroutingFinish
  <2> QED BY <2>3, <2>4, <2>5
<1>4. CASE /\ from # Loopback
           /\ Kind[p.id] \in {"limited", "subnet"}
  <2>1. p.id \notin OneWay
    BY <1>4, KindOneWay
  <2> DEFINE on == IF Kind[p.id] = "subnet" /\ Subnet[p.id] # from /\ IPForward
                     THEN PostRouting(p, Subnet[p.id], Wire, v) ELSE Nothing
  <2>2. on \in Plan /\ OfDatagram(on, p.id)
    <3>1. Subnet[p.id] \in Ifaces
      BY <1>1, IPAssumption
    <3>2. /\ OfDatagram(PostRouting(p, Subnet[p.id], Wire, v), p.id)
          /\ PostRouting(p, Subnet[p.id], Wire, v) \in Plan
      BY <3>1, PostRoutingKeep, PostRoutingPlan
    <3> QED BY <3>2, SimpleKeep, SimplePlans
  <2> HIDE DEF on
  <2>3. Tracks([on EXCEPT !.local = {p}], p)
    BY <2>1, <2>2, DeliveredToo DEF Tracks
  <2>4. BroadcastIn(p, from, v) = [on EXCEPT !.local = {p}]
    BY DEF BroadcastIn, on
  <2>5. PreroutingFinish(p, from, route, v) = BroadcastIn(p, from, v)
    BY <1>4 DEF PreroutingFinish
  <2> QED BY <2>3, <2>4, <2>5
<1>5. CASE /\ from # Loopback
           /\ Kind[p.id] \notin {"multicast", "linklocal", "local", "limited", "subnet"}
  BY <1>5, SimpleTracks, UnicastTracks DEF PreroutingFinish
<1> QED BY <1>2, <1>3, <1>4, <1>5

\* either of them at the end of its service,
LEMMA HandleTracks ==
  ASSUME NEW p \in Piece, NEW from \in Ifaces \cup {HL}, NEW route \in RouteAnswer, NEW v
  PROVE  Tracks(Handle(p, from, route, v), p)
<1>1. from = HL => Tracks(Hooked("LOCALOUT", p, HL, Wire, v, DatagramLocalOut(p, route, v)), p)
  BY LocalOutTracks, HookedTracks
<1>2. from # HL =>
        Tracks(Hooked("PREROUTING", p, from, Wire, v, PreroutingFinish(p, from, route, v)), p)
  BY PreroutingTracks, HookedTracks
<1> QED BY <1>1, <1>2 DEF Handle

\* and one that a hook gives back.
LEMMA ResumeTracks ==
  ASSUME NEW x \in QueuedDatagram, NEW route \in RouteAnswer, NEW v, x.at # "LOCALIN"
  PROVE  Tracks(Resume(x, route, v), x.p)
<1>1. x.p \in Piece /\ x.hop \in Hops \cup {Wire} /\ x.at \in HookPoints
  BY DEF QueuedDatagram
<1>2. x.at # "LOCALOUT" => x.ie \in Ifaces
  BY DEF QueuedDatagram
<1>3. Tracks(DatagramLocalOut(x.p, route, v), x.p)
  BY <1>1, LocalOutTracks
<1>4. x.ie \in Ifaces => /\ Tracks(PreroutingFinish(x.p, x.ie, route, v), x.p)
                         /\ Tracks(PostRouting(x.p, x.ie, x.hop, v), x.p)
  BY <1>1, PreroutingTracks, PostRoutingTracks
<1>5. x.ie \in Ifaces => Tracks(FragmentAndSend(x.p, x.ie, x.hop), x.p)
  BY <1>1, FragmentAndSendKeep DEF Tracks
<1> QED BY <1>1, <1>2, <1>3, <1>4, <1>5 DEF Resume, HookPoints

-----------------------------------------------------------------------------
(* Reassembly.                                                              *)

\* A datagram with a first and a last part, in which every other part is
\* followed by the next one, has no holes: take the part that ends nearest
\* before a byte that is missing.
LEMMA NoHoles ==
  ASSUME NEW S \in SUBSET Piece, NEW E \in Nat, NEW byte \in Nat, byte < E,
         \E f \in S : f.off = 0,
         \A f \in S : ~f.more => f.off + f.len = E,
         \A f \in S : f.len > 0,
         \A f \in S : f.more => \E g \in S : g.off = f.off + f.len
  PROVE  \E f \in S : Holds(f, byte)
<1> SUFFICES ASSUME \A f \in S : ~Holds(f, byte)
             PROVE  FALSE
  OBVIOUS
<1>1. \A f \in S : f.off \in Nat /\ f.len \in Nat
  BY DEF Piece
<1> DEFINE before == {f \in S : f.off + f.len <= byte}
           gaps == {byte - (f.off + f.len) : f \in before}
<1>2. gaps \subseteq Nat
  BY <1>1
<1>3. PICK f0 \in S : f0.off = 0
  OBVIOUS
<1>4. f0 \in before
  BY <1>1, <1>3 DEF Holds
<1>5. gaps # {}
  BY <1>4
<1> HIDE DEF gaps
<1>6. PICK least \in gaps : \A y \in gaps : least <= y
  BY <1>2, <1>5, LeastElement
<1>7. PICK f \in before : least = byte - (f.off + f.len)
  BY DEF gaps
<1>8. f \in S /\ f.off + f.len <= byte
  OBVIOUS
<1>9. f.more
  BY <1>1, <1>8
<1>10. PICK g \in S : g.off = f.off + f.len
  BY <1>8, <1>9
<1>11. g \in before /\ g.len > 0
  BY <1>1, <1>8, <1>10 DEF Holds
<1>12. byte - (g.off + g.len) \in gaps
  BY <1>11 DEF gaps
<1> HIDE DEF before
<1>13. least <= byte - (g.off + g.len)
  BY <1>6, <1>12
<1>14. least \in Nat
  BY <1>2
<1> QED BY <1>1, <1>7, <1>8, <1>10, <1>11, <1>13, <1>14

SoundIfOneWay(q) == q.id \in OneWay => Sound(q)

\* Between events the fragments wait, each of them sound.
FragmentsWait == \A f \in fragbuf : IsFragment(f) /\ SoundIfOneWay(f)

\* What reassembly and delivery hold of a byte afterwards
AmountIn(in, d, byte) ==
  NumSet(in.fragbuf, d, byte) + NumSet(in.up, d, byte) + NumAt(in.hook, d, byte)
    + NumSet(in.lost, d, byte)

\* The hook of local delivery sends every datagram one way.
LEMMA LocalInShare ==
  ASSUME NEW S, NEW v \in HookVerdicts, NEW d, NEW byte
  PROVE  LET a == {p \in S : v["LOCALIN"] = "ACCEPT"}
             h == {Entry(p, "LOCALIN", HL, Wire) : p \in {q \in S : v["LOCALIN"] = "QUEUE"}}
             l == {p \in S : v["LOCALIN"] \in {"DROP", "STOLEN"}}
         IN NumSet(a, d, byte) + NumAt(h, d, byte) + NumSet(l, d, byte) = NumSet(S, d, byte)
<1> DEFINE a == {p \in S : v["LOCALIN"] = "ACCEPT"}
           h == {Entry(p, "LOCALIN", HL, Wire) : p \in {q \in S : v["LOCALIN"] = "QUEUE"}}
           l == {p \in S : v["LOCALIN"] \in {"DROP", "STOLEN"}}
           n == NumSet(S, d, byte)
<1>1. v["LOCALIN"] \in {"ACCEPT", "DROP", "QUEUE", "STOLEN"}
  BY IPAssumption DEF HookPoints
<1>2. NumSet({}, d, byte) = 0 /\ NumAt({}, d, byte) = 0
  BY NumEmpty
<1>3. n \in Nat
  BY NumType DEF NumSet
<1>4. CASE v["LOCALIN"] = "ACCEPT"
  <2>1. a = S /\ h = {} /\ l = {}
    BY <1>4
  <2> QED BY <1>2, <1>3, <2>1
<1>5. CASE v["LOCALIN"] \in {"DROP", "STOLEN"}
  <2>1. a = {} /\ h = {} /\ l = S
    BY <1>5
  <2> QED BY <1>2, <1>3, <2>1
<1>6. ASSUME v["LOCALIN"] = "QUEUE"
      PROVE  NumSet(a, d, byte) + NumAt(h, d, byte) + NumSet(l, d, byte) = n
  <2> DEFINE H == {Entry(p, "LOCALIN", HL, Wire) : p \in S}
             P == {p \in S : Has(p, d, byte)}
             Q == {x \in H : Has(x.p, d, byte)}
  <2>1. a = {} /\ h = H /\ l = {}
    BY <1>6
  <2>2. \A p : Entry(p, "LOCALIN", HL, Wire).p = p
    BY DEF Entry
  <2>3. Q = {Entry(p, "LOCALIN", HL, Wire) : p \in P} /\ P = {x.p : x \in Q}
    <3> HIDE DEF Entry
    <3>1. Q = {Entry(p, "LOCALIN", HL, Wire) : p \in P}
      BY <2>2
    <3>2. \A p \in P : Entry(p, "LOCALIN", HL, Wire) \in Q /\ Entry(p, "LOCALIN", HL, Wire).p = p
      BY <2>2
    <3>3. \A x \in Q : x.p \in P
      BY <2>2
    <3> HIDE DEF P, Q, H
    <3> QED BY <3>1, <3>2, <3>3
  <2>4. NumAt(H, d, byte) = Num(Q) /\ n = Num(P)
    BY DEF NumAt, NumSet
  <2> HIDE DEF P, Q, H, Entry
  <2>5. Num(P) = Num(Q)
    <3>1. P = {} <=> Q = {}
      BY <2>3
    <3>2. One(P) => One(Q)
      <4> SUFFICES ASSUME NEW e, P = {e}
                   PROVE  \E f : Q = {f}
        BY DEF One
      <4>1. Q = {Entry(e, "LOCALIN", HL, Wire)}
        BY <2>3
      <4> QED BY <4>1
    <3>3. One(Q) => One(P)
      <4> SUFFICES ASSUME NEW e, Q = {e}
                   PROVE  \E f : P = {f}
        BY DEF One
      <4>1. P = {e.p}
        BY <2>3
      <4> QED BY <4>1
    <3>4. CASE P = {}
      BY <3>1, <3>4 DEF Num
    <3>5. CASE P # {}
      <4>1. One(P) <=> One(Q)
        BY <3>2, <3>3
      <4> QED BY <3>1, <3>5, <4>1, Zenon DEF Num
    <3> QED BY <3>4, <3>5
  <2>6. NumSet(a, d, byte) + NumAt(h, d, byte) + NumSet(l, d, byte) = 0 + Num(Q) + 0
    BY <1>2, <2>1, <2>4
  <2> HIDE DEF a, h, l, n
  <2> QED BY <1>3, <2>4, <2>5, <2>6
<1>7. NumSet(a, d, byte) + NumAt(h, d, byte) + NumSet(l, d, byte) = n
  BY <1>1, <1>4, <1>5, <1>6
<1> QED BY <1>7

\* A complete datagram has the bytes of its parts.
LEMMA WholeShare ==
  ASSUME NEW buf \in SUBSET Piece, NEW p \in Piece, p.id \in OneWay,
         \A f \in Parts(p, buf) : IsFragment(f) /\ Sound(f),
         Completes(p, buf), NEW byte \in Nat,
         NumSet(buf \cup {p}, p.id, byte) <= 1
  PROVE  /\ NumSet({Whole(p, buf)}, p.id, byte) = NumSet(buf \cup {p}, p.id, byte)
         /\ Whole(p, buf).id = p.id
<1> DEFINE S == Parts(p, buf)
           last == CHOOSE f \in S : ~f.more
           E == last.off + last.len
           w == Whole(p, buf)
           P == {f \in buf \cup {p} : Has(f, p.id, byte)}
<1>1. /\ S \in SUBSET Piece
      /\ \A f \in S : f.id = p.id /\ f.off \in Nat /\ f.len \in Nat
  BY DEF Parts, Piece
<1>2. last \in S /\ ~last.more
  BY DEF Completes
<1>3. w.id = p.id /\ w.off = 0 /\ w.len = E
  <2> HIDE DEF E, last
  <2>1. w = [p EXCEPT !.off = 0, !.len = E, !.more = FALSE]
    BY DEF Whole, E, last
  <2>2. [p EXCEPT !.off = 0, !.len = E, !.more = FALSE].id = p.id
        /\ [p EXCEPT !.off = 0, !.len = E, !.more = FALSE].off = 0
        /\ [p EXCEPT !.off = 0, !.len = E, !.more = FALSE].len = E
    BY DEF Piece
  <2> QED BY <2>1, <2>2
<1> HIDE DEF last, w, S
<1>4. E \in Nat /\ E \in Ends(p.id)
  BY <1>1, <1>2 DEF Sound, S
<1>5. \A f \in S : f.len > 0 /\ f.off + f.len <= E
  BY <1>1, <1>4 DEF Sound, S
<1>6. ASSUME NEW f \in S, ~f.more PROVE f.off + f.len = E
  <2>1. f.off + f.len \in Ends(p.id)
    BY <1>1, <1>6 DEF Sound, S
  <2>2. last.off + last.len <= f.off + f.len
    BY <1>1, <1>2, <2>1 DEF Sound, S
  <2> QED BY <1>1, <1>2, <1>5, <2>2
<1> HIDE DEF E
<1>7. byte < E <=> \E f \in S : Holds(f, byte)
  <2>1. ASSUME byte < E PROVE \E f \in S : Holds(f, byte)
    <3>1. \E f \in S : f.off = 0
      BY DEF Completes, S
    <3>2. \A f \in S : f.more => \E g \in S : g.off = f.off + f.len
      BY DEF Completes, S
    <3>3. \A f \in S : ~f.more => f.off + f.len = E
      BY <1>6
    <3>4. \A f \in S : f.len > 0
      BY <1>5
    <3> QED BY <1>1, <1>4, <2>1, <3>1, <3>2, <3>3, <3>4, NoHoles
  <2>2. ASSUME NEW f \in S, Holds(f, byte) PROVE byte < E
    BY <1>1, <1>4, <1>5, <2>2 DEF Holds
  <2> QED BY <2>1, <2>2
<1>8. Has(w, p.id, byte) <=> byte < E
  BY <1>3, <1>4 DEF Has, Holds
<1>9. P # {} <=> \E f \in S : Holds(f, byte)
  BY DEF S, Parts, Has
<1>10. NumSet(buf \cup {p}, p.id, byte) = Num(P)
  BY DEF NumSet
<1> HIDE DEF P
<1>11. Num(P) = Bit(Has(w, p.id, byte))
  <2>1. Num(P) \in 0 .. 2 /\ Num(P) <= 1
    BY <1>10, NumType
  <2>2. Num(P) = 0 <=> P = {}
    BY NumZero
  <2>3. CASE P = {}
    BY <1>7, <1>8, <1>9, <2>2, <2>3 DEF Bit
  <2>4. CASE P # {}
    <3>1. Num(P) = 1
      BY <2>1, <2>2, <2>4
    <3> QED BY <1>7, <1>8, <1>9, <2>4, <3>1 DEF Bit
  <2> QED BY <2>3, <2>4
<1>12. NumSet({w}, p.id, byte) = Bit(Has(w, p.id, byte))
  BY NumSetSingle
<1> QED BY <1>3, <1>10, <1>11, <1>12 DEF w

\* A piece that is for the node, if any, joins the fragments or completes a
\* datagram, and fragments that are too old go: every byte stays somewhere.
LEMMA ReassembleKeep ==
  ASSUME TypeOK, FragmentsWait, NEW p \in Piece, SoundIfOneWay(p), NEW ps \in SUBSET {p},
         NEW v \in HookVerdicts, NEW stale, NEW d \in OneWay, NEW byte \in Nat,
         NumSet(fragbuf, d, byte) + NumSet(ps, d, byte) <= 1
  PROVE  /\ NumSet(fragbuf \ Kept(stale), d, byte) + AmountIn(ReassembleAndDeliver(ps, v, stale), d, byte)
              = NumSet(fragbuf, d, byte) + NumSet(ps, d, byte)
         /\ \A f \in ReassembleAndDeliver(ps, v, stale).fragbuf : IsFragment(f) /\ SoundIfOneWay(f)
<1> DEFINE buf == Kept(stale)
           old == fragbuf \ buf
           parts == {q \in ps : IsFragment(q)}
           whole == {Whole(q, buf) : q \in {r \in parts : Completes(r, buf)}}
           done == whole \cup (ps \ parts)
           in == ReassembleAndDeliver(ps, v, stale)
           a == {q \in done : v["LOCALIN"] = "ACCEPT"}
           h == {Entry(q, "LOCALIN", HL, Wire) : q \in {r \in done : v["LOCALIN"] = "QUEUE"}}
           l == {q \in done : v["LOCALIN"] \in {"DROP", "STOLEN"}}
<1>1. /\ in.fragbuf = {f \in buf \cup parts : \A w \in whole : w.id # f.id}
      /\ in.up = a /\ in.hook = h /\ in.lost = l
  <2> HIDE DEF Entry
  <2> QED BY DEF ReassembleAndDeliver
<1>2. buf \subseteq fragbuf /\ fragbuf \subseteq Piece /\ buf \in SUBSET Piece
  BY DEF Kept, TypeOK
<1>3. NumSet(a, d, byte) + NumAt(h, d, byte) + NumSet(l, d, byte) = NumSet(done, d, byte)
  <2> HIDE DEF done
  <2> QED BY LocalInShare
<1>4. /\ NumSet(fragbuf, d, byte) \in 0 .. 2 /\ NumSet(ps, d, byte) \in 0 .. 2
      /\ NumSet(done, d, byte) \in 0 .. 2 /\ NumSet(in.fragbuf, d, byte) \in 0 .. 2
      /\ NumSet(old, d, byte) \in 0 .. 2 /\ NumSet(buf, d, byte) \in 0 .. 2
      /\ NumSet(a, d, byte) \in 0 .. 2 /\ NumAt(h, d, byte) \in 0 .. 2
      /\ NumSet(l, d, byte) \in 0 .. 2
  BY NumType DEF NumSet, NumAt
<1>5. NumSet(fragbuf, d, byte) = NumSet(buf, d, byte) + NumSet(old, d, byte)
  <2>1. fragbuf = buf \cup old /\ buf \cap old = {}
    BY <1>2
  <2> HIDE DEF buf, old
  <2>2. NumSet(buf \cup old, d, byte) <= 1
    BY <1>4, <2>1
  <2> QED BY <2>1, <2>2, NumSetSplit
<1>6. NumSet({}, d, byte) = 0
  BY NumEmpty
<1>7. ps = {} \/ ps = {p}
  OBVIOUS
<1>8. NumSet(in.fragbuf, d, byte) + NumSet(done, d, byte) = NumSet(buf, d, byte) + NumSet(ps, d, byte)
  <2>1. CASE ps = {}
    <3>1. parts = {} /\ whole = {} /\ done = {}
      BY <2>1
    <3>2. in.fragbuf = buf
      BY <1>1, <3>1
    <3> HIDE DEF parts, whole, done, in, buf
    <3> QED BY <1>6, <2>1, <3>1, <3>2
  <2>2. CASE ps = {p} /\ ~IsFragment(p)
    <3>1. parts = {} /\ whole = {} /\ done = ps
      BY <2>2
    <3>2. in.fragbuf = buf
      BY <1>1, <3>1
    <3> HIDE DEF parts, whole, done, in, buf
    <3> QED BY <3>1, <3>2
  <2>3. CASE ps = {p} /\ IsFragment(p) /\ ~Completes(p, buf)
    <3>1. parts = {p} /\ whole = {} /\ done = {}
      BY <2>3
    <3>2. in.fragbuf = buf \cup {p}
      BY <1>1, <3>1
    <3> HIDE DEF parts, whole, done, in, buf, old
    <3>3. NumSet(buf, d, byte) + NumSet({p}, d, byte) <= 1
      BY <1>4, <1>5, <2>3
    <3>4. NumSet(buf \cup {p}, d, byte) = NumSet(buf, d, byte) + NumSet({p}, d, byte)
      BY <3>3, NumSetUnion
    <3>5. NumSet(done, d, byte) = 0
      BY <1>6, <3>1
    <3> QED BY <1>4, <2>3, <3>2, <3>4, <3>5
  <2>4. CASE ps = {p} /\ IsFragment(p) /\ Completes(p, buf)
    <3> DEFINE w == Whole(p, buf)
    <3>1. parts = {p} /\ whole = {w} /\ done = {w}
      BY <2>4
    <3>2. in.fragbuf = {f \in buf \cup {p} : w.id # f.id}
      BY <1>1, <3>1
    <3>3. w.id = p.id
      <4>1. \A x, y : [p EXCEPT !.off = x, !.len = y, !.more = FALSE].id = p.id
        BY DEF Piece
      <4> QED BY <4>1 DEF Whole
    <3> HIDE DEF w, parts, whole, in, done, old
    <3>4. NumSet(buf, d, byte) + NumSet({p}, d, byte) <= 1
      BY <1>4, <1>5, <2>4
    <3>5. NumSet(buf \cup {p}, d, byte) = NumSet(buf, d, byte) + NumSet({p}, d, byte)
      BY <3>4, NumSetUnion
    <3>6. CASE d # p.id
      <4>1. {f \in in.fragbuf : Has(f, d, byte)} = {f \in buf \cup {p} : Has(f, d, byte)}
        BY <3>2, <3>3, <3>6 DEF Has
      <4>2. NumSet(in.fragbuf, d, byte) = NumSet(buf \cup {p}, d, byte)
        BY <4>1 DEF NumSet
      <4>3. NumSet({w}, d, byte) = 0
        BY <3>3, <3>6, NumSetSingle DEF Has, Bit
      <4> QED BY <1>4, <2>4, <3>1, <3>5, <4>2, <4>3
    <3>7. CASE d = p.id
      <4>1. {f \in in.fragbuf : Has(f, d, byte)} = {}
        BY <3>2, <3>3, <3>7 DEF Has
      <4>2. NumSet(in.fragbuf, d, byte) = 0
        BY <4>1, NumZero DEF NumSet
      <4>3. \A f \in Parts(p, buf) : IsFragment(f) /\ Sound(f)
        BY <1>2, <2>4, <3>7 DEF Parts, FragmentsWait, SoundIfOneWay
      <4>4. NumSet(buf \cup {p}, p.id, byte) <= 1
        BY <3>4, <3>5, <3>7
      <4>5. NumSet({w}, d, byte) = NumSet(buf \cup {p}, d, byte)
        <5> HIDE DEF buf
        <5> QED BY <1>2, <2>4, <3>7, <4>3, <4>4, WholeShare DEF w
      <4> QED BY <1>4, <2>4, <3>1, <3>5, <4>2, <4>5
    <3> QED BY <3>6, <3>7
  <2> QED BY <1>7, <2>1, <2>2, <2>3, <2>4
<1>9. \A f \in in.fragbuf : IsFragment(f) /\ SoundIfOneWay(f)
  <2>1. \A f \in parts : IsFragment(f) /\ SoundIfOneWay(f)
    BY <1>7
  <2>2. \A f \in buf : IsFragment(f) /\ SoundIfOneWay(f)
    BY <1>2 DEF FragmentsWait
  <2> HIDE DEF parts, buf, whole, in
  <2> QED BY <1>1, <2>1, <2>2
<1>10. AmountIn(in, d, byte) =
         NumSet(in.fragbuf, d, byte) + NumSet(a, d, byte) + NumAt(h, d, byte) + NumSet(l, d, byte)
  BY <1>1 DEF AmountIn
<1> HIDE DEF in, a, h, l, done, buf, old
<1>11. NumSet(old, d, byte) + AmountIn(in, d, byte) = NumSet(fragbuf, d, byte) + NumSet(ps, d, byte)
  BY <1>3, <1>4, <1>5, <1>8, <1>10
<1> QED BY <1>9, <1>11 DEF in, old, buf

-----------------------------------------------------------------------------
(* A plan is carried out.                                                   *)

\* In how many places a byte is
TotalOf(d, byte) ==
  NumAt(todo, d, byte) + NumQueue(queue, d, byte) + NumHops(pending, d, byte)
    + NumHops(out, d, byte) + NumAt(hooked, d, byte) + NumSet(fragbuf, d, byte)
    + NumSet(delivered, d, byte) + NumSet(gone, d, byte)

\* What may still be reassembled is sound.
SoundState ==
  /\ FragmentsWait
  /\ \A x \in todo : SoundIfOneWay(x.p)
  /\ \A x \in hooked : x.at = "LOCALIN" \/ SoundIfOneWay(x.p)
  /\ \A k \in DOMAIN queue : SoundIfOneWay(queue[k].p)

\* Counts are natural numbers.
LEMMA CountsType ==
  /\ \A S, d, byte : NumSet(S, d, byte) \in Nat /\ NumAt(S, d, byte) \in Nat
  /\ \A s, d, byte : NumSeq(s, d, byte) \in Nat /\ NumQueue(s, d, byte) \in Nat
                     /\ NumHops(s, d, byte) \in Nat
  /\ \A b : Bit(b) \in 0 .. 1
BY NumType DEF NumSet, NumAt, NumSeq, NumQueue, NumHops, Bit

\* A plan holds of each byte what its datagram does.
LEMMA AmountIs ==
  ASSUME NEW p \in Piece, NEW plan, Tracks(plan, p), NEW d \in OneWay, NEW byte \in Nat
  PROVE  Amount(plan, d, byte) = Bit(Has(p, d, byte))
<1>1. CASE d = p.id
  <2>1. Amount(plan, p.id, byte) = Bit(Holds(p, byte))
    BY <1>1 DEF Tracks, Keeps
  <2> QED BY <1>1, <2>1, BitHas
<1>2. CASE d # p.id
  <2>1. \A q \in PiecesIn(plan) : ~Has(q, d, byte)
    BY <1>2 DEF Tracks, OfDatagram, Has
  <2>2. {k \in DOMAIN plan.loop : Has(plan.loop[k], d, byte)} = {}
    BY <2>1 DEF PiecesIn, Range
  <2>3. {k \in DOMAIN plan.send : Has(plan.send[k], d, byte)} = {}
    BY <2>1 DEF PiecesIn, Range
  <2>4. /\ {q \in plan.wire : Has(q, d, byte)} = {}
        /\ {q \in plan.local : Has(q, d, byte)} = {}
        /\ {q \in plan.lost : Has(q, d, byte)} = {}
    BY <2>1 DEF PiecesIn
  <2>5. {x \in plan.hook : Has(x.p, d, byte)} = {}
    BY <2>1 DEF PiecesIn
  <2>6. Num({}) = 0
    BY NumZero
  <2>7. /\ NumSeq(plan.loop, d, byte) = 0 /\ NumSeq(plan.send, d, byte) = 0
        /\ NumSet(plan.wire, d, byte) = 0 /\ NumSet(plan.local, d, byte) = 0
        /\ NumSet(plan.lost, d, byte) = 0 /\ NumAt(plan.hook, d, byte) = 0
    BY <2>2, <2>3, <2>4, <2>5, <2>6 DEF NumSeq, NumSet, NumAt
  <2>8. Bit(Has(p, d, byte)) = 0
    BY <1>2 DEF Has, Bit
  <2> QED BY <2>7, <2>8 DEF Amount
<1> QED BY <1>1, <1>2

\* What a plan sends is sent, or waits for the address of its next hop.
LEMMA SendKeeps ==
  ASSUME TypeOK, NEW plan \in Plan, SendDatagramToOutput(plan), NEW d, NEW byte,
         plan.send # <<>> => plan.hop \in Hops,
         NumHops(pending, d, byte) + NumHops(out, d, byte) + NumSeq(plan.send, d, byte) <= 1
  PROVE  NumHops(pending', d, byte) + NumHops(out', d, byte)
           = NumHops(pending, d, byte) + NumHops(out, d, byte) + NumSeq(plan.send, d, byte)
<1> DEFINE hop == plan.hop
           send == plan.send
<1>1. out \in [Hops -> Seq(Piece)] /\ pending \in [Hops -> Seq(Piece)] /\ send \in Seq(Piece)
  BY DEF TypeOK, Plan
<1>2. /\ NumHops(pending, d, byte) \in Nat /\ NumHops(out, d, byte) \in Nat
      /\ NumSeq(send, d, byte) \in Nat
  BY CountsType
<1>3. send = <<>> \/ hop \in Hops
  OBVIOUS
<1> HIDE DEF hop, send
<1>4. CASE send = <<>>
  <2>1. out' = out /\ pending' = pending
    BY <1>4 DEF SendDatagramToOutput, send
  <2>2. NumSeq(send, d, byte) = 0
    BY <1>4, NumEmpty
  <2> QED BY <1>2, <2>1, <2>2 DEF send
<1>5. CASE send # <<>> /\ arp[hop] = "known"
  <2>1. out' = [out EXCEPT ![hop] = @ \o send] /\ pending' = pending
    BY <1>5 DEF SendDatagramToOutput, hop, send
  <2>2. NumHops(out, d, byte) + NumSeq(send, d, byte) <= 1
    BY <1>2 DEF send
  <2>3. NumHops(Lengthened(out, hop, send), d, byte)
          = NumHops(out, d, byte) + NumSeq(send, d, byte)
    <3>1. out \in [Hops -> Seq(Piece)]
      BY <1>1
    <3>2. hop \in Hops
      BY <1>3, <1>5
    <3>3. send \in Seq(Piece)
      BY <1>1
    <3> QED BY <2>2, <3>1, <3>2, <3>3, NumHopsJoin
  <2>4. NumHops(out', d, byte) = NumHops(out, d, byte) + NumSeq(send, d, byte)
    BY <2>1, <2>3 DEF Lengthened
  <2> QED BY <1>2, <2>1, <2>4 DEF send
<1>6. CASE send # <<>> /\ arp[hop] # "known"
  <2>1. pending' = [pending EXCEPT ![hop] = @ \o send] /\ out' = out
    BY <1>6 DEF SendDatagramToOutput, hop, send
  <2>2. NumHops(pending, d, byte) + NumSeq(send, d, byte) <= 1
    BY <1>2 DEF send
  <2>3. NumHops(Lengthened(pending, hop, send), d, byte)
          = NumHops(pending, d, byte) + NumSeq(send, d, byte)
    <3>1. pending \in [Hops -> Seq(Piece)]
      BY <1>1
    <3>2. hop \in Hops
      BY <1>3, <1>6
    <3>3. send \in Seq(Piece)
      BY <1>1
    <3> QED BY <2>2, <3>1, <3>2, <3>3, NumHopsJoin
  <2>4. NumHops(pending', d, byte) = NumHops(pending, d, byte) + NumSeq(send, d, byte)
    BY <2>1, <2>3 DEF Lengthened
  <2> QED BY <1>2, <2>1, <2>4 DEF send
<1> QED BY <1>4, <1>5, <1>6

\* What is where before the pieces of a plan are put somewhere
LeftOver(rest, done, d, byte) ==
  NumAt(todo, d, byte) + NumQueue(rest, d, byte) + NumHops(pending, d, byte)
    + NumHops(out, d, byte) + NumAt(hooked \ done, d, byte) + NumSet(fragbuf, d, byte)
    + NumSet(delivered, d, byte) + NumSet(gone, d, byte)

\* Every byte of the datagram ends up in one place, and every other one stays.
LEMMA CarryKeeps ==
  ASSUME Inv, SoundState, NEW p \in Piece, SoundIfOneWay(p), NEW plan \in Plan,
         Tracks(plan, p), NEW v \in HookVerdicts, NEW stale, NEW rest \in Seq(Item), NEW done,
         Carry(plan, v, stale, rest, done), todo' = todo, NEW d \in OneWay, NEW byte \in Nat,
         LeftOver(rest, done, d, byte) + Bit(Has(p, d, byte)) <= 1
  PROVE  TotalOf(d, byte)' = LeftOver(rest, done, d, byte) + Bit(Has(p, d, byte))
<1> DEFINE in == ReassembleAndDeliver(plan.local, v, stale)
           old == fragbuf \ Kept(stale)
           looped == [k \in DOMAIN plan.loop |-> [p |-> plan.loop[k], from |-> Loopback]]
           reg == Registered(in.up)
           unreg == in.up \ reg
<1>1. /\ queue' = rest \o looped
      /\ SendDatagramToOutput(plan)
      /\ fragbuf' = in.fragbuf
      /\ delivered' = delivered \cup reg
      /\ hooked' = (hooked \ done) \cup plan.hook \cup in.hook
      /\ gone' = gone \cup plan.lost \cup plan.wire \cup in.lost \cup unreg \cup old
  BY DEF Carry
<1>2. plan.loop \in Seq(Piece) /\ plan.local \in SUBSET {p}
  BY DEF Plan, Tracks
<1>3. plan.send # <<>> => plan.hop \in Hops
  BY DEF Tracks, OfDatagram
<1>4. TypeOK /\ FragmentsWait
  BY DEF Inv, SoundState
<1> DEFINE b == Bit(Has(p, d, byte))
           aLoop == NumSeq(plan.loop, d, byte)
           aSend == NumSeq(plan.send, d, byte)
           aWire == NumSet(plan.wire, d, byte)
           aLocal == NumSet(plan.local, d, byte)
           aHook == NumAt(plan.hook, d, byte)
           aLost == NumSet(plan.lost, d, byte)
           nTodo == NumAt(todo, d, byte)
           nRest == NumQueue(rest, d, byte)
           nPending == NumHops(pending, d, byte)
           nOut == NumHops(out, d, byte)
           nHooked == NumAt(hooked \ done, d, byte)
           nFrag == NumSet(fragbuf, d, byte)
           nDel == NumSet(delivered, d, byte)
           nGone == NumSet(gone, d, byte)
           iFrag == NumSet(in.fragbuf, d, byte)
           iUp == NumSet(in.up, d, byte)
           iHook == NumAt(in.hook, d, byte)
           iLost == NumSet(in.lost, d, byte)
           iOld == NumSet(old, d, byte)
           iReg == NumSet(reg, d, byte)
           iUnreg == NumSet(unreg, d, byte)
<1>5. aLoop + aSend + aWire + aLocal + aHook + aLost = b
  BY AmountIs DEF Amount
<1>6. /\ aLoop \in Nat /\ aSend \in Nat /\ aWire \in Nat /\ aLocal \in Nat /\ aHook \in Nat
      /\ aLost \in Nat /\ nTodo \in Nat /\ nRest \in Nat /\ nPending \in Nat /\ nOut \in Nat
      /\ nHooked \in Nat /\ nFrag \in Nat /\ nDel \in Nat /\ nGone \in Nat /\ iFrag \in Nat
      /\ iUp \in Nat /\ iHook \in Nat /\ iLost \in Nat /\ iOld \in Nat /\ iReg \in Nat
      /\ iUnreg \in Nat /\ b \in Nat
  BY CountsType
<1>7. nTodo + nRest + nPending + nOut + nHooked + nFrag + nDel + nGone + b <= 1
  BY DEF LeftOver
<1> HIDE DEF in, old, looped, reg, unreg
<1> HIDE DEF b, aLoop, aSend, aWire, aLocal, aHook, aLost, nTodo, nRest, nPending, nOut, nHooked,
             nFrag, nDel, nGone, iFrag, iUp, iHook, iLost, iOld, iReg, iUnreg
<1>8. NumQueue(queue', d, byte) = nRest + aLoop
  <2>1. PiecesOf(queue') = PiecesOf(rest) \o plan.loop
    BY <1>1, <1>2, PiecesOfType DEF looped
  <2>2. PiecesOf(rest) \in Seq(Piece)
    BY PiecesOfType
  <2>3. NumSeq(PiecesOf(rest), d, byte) + NumSeq(plan.loop, d, byte) <= 1
    <3>1. nRest + aLoop <= 1
      BY <1>5, <1>6, <1>7
    <3> QED BY <3>1 DEF NumQueue, nRest, aLoop
  <2>4. NumSeq(PiecesOf(rest) \o plan.loop, d, byte)
          = NumSeq(PiecesOf(rest), d, byte) + NumSeq(plan.loop, d, byte)
    BY <1>2, <2>2, <2>3, NumSeqConcat
  <2> QED BY <2>1, <2>4 DEF NumQueue, nRest, aLoop
<1>9. NumHops(pending', d, byte) + NumHops(out', d, byte) = nPending + nOut + aSend
  <2>1. NumHops(pending, d, byte) + NumHops(out, d, byte) + NumSeq(plan.send, d, byte) <= 1
    <3>1. nPending + nOut + aSend <= 1
      BY <1>5, <1>6, <1>7
    <3> QED BY <3>1 DEF nPending, nOut, aSend
  <2> QED BY <1>1, <1>3, <1>4, <2>1, SendKeeps DEF nPending, nOut, aSend
<1>10. iOld + (iFrag + iUp + iHook + iLost) = nFrag + aLocal
  <2>1. NumSet(fragbuf, d, byte) + NumSet(plan.local, d, byte) <= 1
    <3>1. nFrag + aLocal <= 1
      BY <1>5, <1>6, <1>7
    <3> QED BY <3>1 DEF nFrag, aLocal
  <2>2. NumSet(fragbuf \ Kept(stale), d, byte)
          + AmountIn(ReassembleAndDeliver(plan.local, v, stale), d, byte)
          = NumSet(fragbuf, d, byte) + NumSet(plan.local, d, byte)
    BY <1>2, <1>4, <2>1, ReassembleKeep
  <2>3. NumSet(old, d, byte) + AmountIn(in, d, byte) = nFrag + aLocal
    BY <2>2 DEF old, in, nFrag, aLocal
  <2> QED BY <2>3 DEF AmountIn, iOld, iFrag, iUp, iHook, iLost
<1>11. iUp = iReg + iUnreg
  <2>1. in.up = reg \cup unreg /\ reg \cap unreg = {}
    BY DEF unreg, reg, Registered
  <2>2. NumSet(reg \cup unreg, d, byte) <= 1
    <3>1. iUp <= 1
      BY <1>5, <1>6, <1>7, <1>10
    <3> QED BY <2>1, <3>1 DEF iUp
  <2> QED BY <2>1, <2>2, NumSetSplit DEF iUp, iReg, iUnreg
<1>12. /\ NumHops(pending', d, byte) \in Nat /\ NumHops(out', d, byte) \in Nat
  BY CountsType
<1>13. NumSet(delivered', d, byte) = nDel + iReg
  <2>1. NumSet(delivered, d, byte) + NumSet(reg, d, byte) <= 1
    <3>1. nDel + iReg <= 1
      BY <1>5, <1>6, <1>7, <1>10, <1>11
    <3> QED BY <3>1 DEF nDel, iReg
  <2> QED BY <1>1, <2>1, NumSetUnion DEF nDel, iReg
<1>14. NumAt(hooked', d, byte) = nHooked + aHook + iHook
  <2> DEFINE A == hooked \ done
             B == A \cup plan.hook
  <2>1. NumAt(A, d, byte) + NumAt(plan.hook, d, byte) <= 1
    <3>1. nHooked + aHook <= 1
      BY <1>5, <1>6, <1>7
    <3> QED BY <3>1 DEF nHooked, aHook
  <2> HIDE DEF A
  <2>2. NumAt(B, d, byte) = NumAt(A, d, byte) + NumAt(plan.hook, d, byte)
    BY <2>1, NumAtUnion
  <2> HIDE DEF B
  <2>3. NumAt(B, d, byte) + NumAt(in.hook, d, byte) <= 1
    <3>1. nHooked + aHook + iHook <= 1
      BY <1>5, <1>6, <1>7, <1>10
    <3> QED BY <2>2, <3>1 DEF A, nHooked, aHook, iHook
  <2>4. NumAt(B \cup in.hook, d, byte) = NumAt(B, d, byte) + NumAt(in.hook, d, byte)
    BY <2>3, NumAtUnion
  <2> QED BY <1>1, <2>2, <2>4 DEF A, B, nHooked, aHook, iHook
<1>15. NumSet(gone', d, byte) = nGone + aLost + aWire + iLost + iUnreg + iOld
  <2> DEFINE A == gone \cup plan.lost
             B == A \cup plan.wire
             C == B \cup in.lost
             D == C \cup unreg
  <2>1. nGone + aLost + aWire + iLost + iUnreg + iOld <= 1
    BY <1>5, <1>6, <1>7, <1>10, <1>11
  <2>2. NumSet(A, d, byte) = nGone + aLost
    <3>1. nGone + aLost <= 1
      BY <1>6, <2>1
    <3>2. NumSet(gone, d, byte) + NumSet(plan.lost, d, byte) <= 1
      BY <3>1 DEF nGone, aLost
    <3> QED BY <3>2, NumSetUnion DEF nGone, aLost
  <2> HIDE DEF A
  <2>3. NumSet(B, d, byte) = nGone + aLost + aWire
    <3>1. NumSet(A, d, byte) + NumSet(plan.wire, d, byte) <= 1
      <4>1. nGone + aLost + aWire <= 1
        BY <1>6, <2>1
      <4> QED BY <4>1, <2>2 DEF aWire
    <3>2. NumSet(A \cup plan.wire, d, byte) = NumSet(A, d, byte) + NumSet(plan.wire, d, byte)
      BY <3>1, NumSetUnion
    <3> QED BY <2>2, <3>2 DEF aWire
  <2> HIDE DEF B
  <2>4. NumSet(C, d, byte) = nGone + aLost + aWire + iLost
    <3>1. NumSet(B, d, byte) + NumSet(in.lost, d, byte) <= 1
      <4>1. nGone + aLost + aWire + iLost <= 1
        BY <1>6, <2>1
      <4> QED BY <4>1, <2>3 DEF iLost
    <3>2. NumSet(B \cup in.lost, d, byte) = NumSet(B, d, byte) + NumSet(in.lost, d, byte)
      BY <3>1, NumSetUnion
    <3> QED BY <2>3, <3>2 DEF iLost
  <2> HIDE DEF C
  <2>5. NumSet(D, d, byte) = nGone + aLost + aWire + iLost + iUnreg
    <3>1. NumSet(C, d, byte) + NumSet(unreg, d, byte) <= 1
      <4>1. nGone + aLost + aWire + iLost + iUnreg <= 1
        BY <1>6, <2>1
      <4> QED BY <4>1, <2>4 DEF iUnreg
    <3>2. NumSet(C \cup unreg, d, byte) = NumSet(C, d, byte) + NumSet(unreg, d, byte)
      BY <3>1, NumSetUnion
    <3> QED BY <2>4, <3>2 DEF iUnreg
  <2> HIDE DEF D
  <2>6. NumSet(D \cup old, d, byte) = nGone + aLost + aWire + iLost + iUnreg + iOld
    <3>1. NumSet(D, d, byte) + NumSet(old, d, byte) <= 1
      <4>1. nGone + aLost + aWire + iLost + iUnreg + iOld <= 1
        BY <1>6, <2>1
      <4> QED BY <4>1, <2>5 DEF iOld
    <3>2. NumSet(D \cup old, d, byte) = NumSet(D, d, byte) + NumSet(old, d, byte)
      BY <3>1, NumSetUnion
    <3> QED BY <2>5, <3>2 DEF iOld
  <2> QED BY <1>1, <2>6 DEF A, B, C, D
<1>16. TotalOf(d, byte)' =
         NumAt(todo', d, byte) + NumQueue(queue', d, byte) + NumHops(pending', d, byte)
           + NumHops(out', d, byte) + NumAt(hooked', d, byte) + NumSet(fragbuf', d, byte)
           + NumSet(delivered', d, byte) + NumSet(gone', d, byte)
  BY DEF TotalOf
<1>17. LeftOver(rest, done, d, byte) =
         nTodo + nRest + nPending + nOut + nHooked + nFrag + nDel + nGone
  BY DEF LeftOver, nTodo, nRest, nPending, nOut, nHooked, nFrag, nDel, nGone
<1>18. NumAt(todo', d, byte) = nTodo /\ NumSet(fragbuf', d, byte) = iFrag
  BY <1>1 DEF nTodo, iFrag
<1>19. TotalOf(d, byte)' = LeftOver(rest, done, d, byte) + b
  BY <1>5, <1>6, <1>8, <1>9, <1>10, <1>11, <1>12, <1>13, <1>14, <1>15, <1>16, <1>17, <1>18, SMTT(30)
<1> QED BY <1>19 DEF b

\* What may still be reassembled stays sound.
LEMMA CarrySound ==
  ASSUME Inv, SoundState, NEW p \in Piece, SoundIfOneWay(p), NEW plan \in Plan,
         Tracks(plan, p), NEW v \in HookVerdicts, NEW stale, NEW rest \in Seq(Item), NEW done,
         \A k \in DOMAIN rest : SoundIfOneWay(rest[k].p),
         Carry(plan, v, stale, rest, done), todo' = todo
  PROVE  SoundState'
<1> DEFINE in == ReassembleAndDeliver(plan.local, v, stale)
           looped == [k \in DOMAIN plan.loop |-> [p |-> plan.loop[k], from |-> Loopback]]
<1>1. /\ queue' = rest \o looped
      /\ fragbuf' = in.fragbuf
      /\ hooked' = (hooked \ done) \cup plan.hook \cup in.hook
  BY DEF Carry
<1>2. plan.loop \in Seq(Piece) /\ plan.local \in SUBSET {p}
  BY DEF Plan, Tracks
<1>3. TypeOK /\ FragmentsWait
  BY DEF Inv, SoundState
<1>4. \A q \in PiecesIn(plan) : SoundIfOneWay(q)
  BY DEF Tracks, Keeps, OfDatagram, SoundIfOneWay
<1>5. \A x \in in.hook : x.at = "LOCALIN"
  BY DEF ReassembleAndDeliver, Entry
<1>6. FragmentsWait'
  <2>1. \A f \in in.fragbuf : IsFragment(f) /\ SoundIfOneWay(f)
    <3> SUFFICES ASSUME NEW f \in in.fragbuf
                 PROVE  IsFragment(f) /\ SoundIfOneWay(f)
      OBVIOUS
    <3>1. CASE f \in fragbuf
      BY <1>3, <3>1 DEF FragmentsWait
    <3>2. CASE f \notin fragbuf
      <4>1. f \in {q \in plan.local : IsFragment(q)}
        BY <3>2 DEF ReassembleAndDeliver, Kept
      <4> QED BY <1>2, <4>1
    <3> QED BY <3>1, <3>2
  <2> QED BY <1>1, <2>1 DEF FragmentsWait, IsFragment, SoundIfOneWay, Sound
<1>7. \A k \in DOMAIN queue' : SoundIfOneWay(queue'[k].p)
  <2>1. plan.loop \in [1 .. Len(plan.loop) -> Piece] /\ DOMAIN plan.loop = 1 .. Len(plan.loop)
        /\ Len(plan.loop) \in Nat
    BY <1>2
  <2>2. \A q \in Piece : [p |-> q, from |-> Loopback] \in Item
    BY IPAssumption DEF Item
  <2>3. /\ looped \in [1 .. Len(plan.loop) -> Item]
        /\ \A k \in 1 .. Len(plan.loop) : looped[k].p = plan.loop[k]
    BY <2>1, <2>2
  <2> HIDE DEF looped
  <2>4. looped \in Seq(Item)
    BY <2>1, <2>3, SeqDef
  <2>5. \A k \in DOMAIN looped : SoundIfOneWay(looped[k].p)
    BY <1>4, <2>1, <2>3 DEF PiecesIn, Range
  <2>6. /\ DOMAIN (rest \o looped) = 1 .. Len(rest) + Len(looped)
        /\ \A k \in 1 .. Len(rest) : (rest \o looped)[k] = rest[k]
        /\ \A k \in 1 .. Len(rest) + Len(looped) :
             k > Len(rest) => (rest \o looped)[k] = looped[k - Len(rest)]
        /\ DOMAIN rest = 1 .. Len(rest) /\ DOMAIN looped = 1 .. Len(looped)
        /\ Len(rest) \in Nat /\ Len(looped) \in Nat
    BY <2>4
  <2> DEFINE q == rest \o looped
  <2> HIDE DEF q
  <2>7. ASSUME NEW k \in DOMAIN q PROVE SoundIfOneWay(q[k].p)
    <3>1. CASE k <= Len(rest)
      BY <2>6, <3>1 DEF q
    <3>2. CASE k > Len(rest)
      <4>1. k - Len(rest) \in DOMAIN looped
        BY <2>6, <3>2 DEF q
      <4>2. q[k] = looped[k - Len(rest)]
        BY <2>6, <3>2 DEF q
      <4> QED BY <2>5, <4>1, <4>2
    <3> QED BY <2>6, <3>1, <3>2 DEF q
  <2> QED BY <1>1, <2>7 DEF q
<1>8. \A x \in hooked' : x.at = "LOCALIN" \/ SoundIfOneWay(x.p)
  <2>1. \A x \in plan.hook : SoundIfOneWay(x.p)
    BY <1>4 DEF PiecesIn
  <2> HIDE DEF in
  <2> QED BY <1>1, <1>5, <2>1 DEF SoundState
<1>9. \A x \in todo' : SoundIfOneWay(x.p)
  BY DEF SoundState
<1> QED BY <1>6, <1>7, <1>8, <1>9 DEF SoundState, SoundIfOneWay, Sound

-----------------------------------------------------------------------------
(* The steps: every byte stays in as many places as it was.                 *)

\* A packet arrives.
LEMMA ArriveKeeps ==
  ASSUME Inv, NEW x \in todo, Arrive(x), NEW d, NEW byte, TotalOf(d, byte) <= 1
  PROVE  TotalOf(d, byte)' = TotalOf(d, byte)
<1> DEFINE new == todo \ {x}
           b == Bit(Has(x.p, d, byte))
           others == NumHops(pending, d, byte) + NumHops(out, d, byte) + NumAt(hooked, d, byte)
                       + NumSet(fragbuf, d, byte) + NumSet(delivered, d, byte)
                       + NumSet(gone, d, byte)
           nNew == NumAt(new, d, byte)
           nQueue == NumQueue(queue, d, byte)
<1>1. /\ todo' = new /\ queue' = Append(queue, x)
      /\ UNCHANGED <<pending, hooked, fragbuf, out, delivered, gone>>
  BY DEF Arrive
<1>2. todo = {x} \cup new /\ {x} \cap new = {}
  OBVIOUS
<1>3. x \in Item /\ x.p \in Piece /\ queue \in Seq(Item)
  BY DEF Inv, TypeOK, Item
<1>4. others \in Nat /\ nNew \in Nat /\ nQueue \in Nat /\ b \in Nat /\ NumAt(todo, d, byte) \in Nat
  BY CountsType
<1>5. TotalOf(d, byte) = NumAt(todo, d, byte) + nQueue + others
  BY CountsType DEF TotalOf
<1>6. TotalOf(d, byte)' = nNew + NumQueue(queue', d, byte) + others
  <2>1. TotalOf(d, byte)' = NumAt(todo', d, byte) + NumQueue(queue', d, byte)
          + NumHops(pending, d, byte) + NumHops(out, d, byte) + NumAt(hooked, d, byte)
          + NumSet(fragbuf, d, byte) + NumSet(delivered, d, byte) + NumSet(gone, d, byte)
    BY <1>1 DEF TotalOf
  <2>2. NumAt(todo', d, byte) = nNew
    BY <1>1
  <2> QED BY <2>1, <2>2, CountsType
<1> HIDE DEF new, others, nNew, nQueue, b
<1>7. NumAt(todo, d, byte) = b + nNew
  <2>1. NumAt(todo, d, byte) <= 1
    BY <1>4, <1>5
  <2>2. NumAt({x} \cup new, d, byte) <= 1
    BY <1>2, <2>1
  <2>3. NumAt({x} \cup new, d, byte) = NumAt({x}, d, byte) + NumAt(new, d, byte)
    BY <1>2, <2>2, NumAtSplit
  <2>4. NumAt({x}, d, byte) = b
    BY NumAtSingle DEF b
  <2> QED BY <1>2, <2>3, <2>4 DEF nNew
<1>8. NumQueue(queue', d, byte) = nQueue + b
  <2>1. PiecesOf(queue') = PiecesOf(queue) \o <<x.p>> /\ PiecesOf(queue) \in Seq(Piece)
    BY <1>1, <1>3, PiecesOfType
  <2>2. NumSeq(<<x.p>>, d, byte) = b
    BY NumSeqSingle DEF b
  <2>3. nQueue + b <= 1
    BY <1>4, <1>5, <1>7
  <2>4. NumSeq(PiecesOf(queue), d, byte) + NumSeq(<<x.p>>, d, byte) <= 1
    BY <2>2, <2>3 DEF nQueue, NumQueue
  <2>5. <<x.p>> \in Seq(Piece)
    BY <1>3
  <2> DEFINE s == PiecesOf(queue)
             one == <<x.p>>
  <2>6. NumSeq(PiecesOf(queue) \o <<x.p>>, d, byte)
          = NumSeq(PiecesOf(queue), d, byte) + NumSeq(<<x.p>>, d, byte)
    <3>1. s \in Seq(Piece) /\ one \in Seq(Piece) /\ NumSeq(s, d, byte) + NumSeq(one, d, byte) <= 1
      BY <2>1, <2>4, <2>5
    <3> HIDE DEF s, one
    <3>2. NumSeq(s \o one, d, byte) = NumSeq(s, d, byte) + NumSeq(one, d, byte)
      BY <3>1, NumSeqConcat
    <3> QED BY <3>2 DEF s, one
  <2> QED BY <2>1, <2>2, <2>6 DEF nQueue, NumQueue
<1> QED BY <1>4, <1>5, <1>6, <1>7, <1>8

\* The packet in front of the queue is what its service starts from.
LEMMA EndServiceKeeps ==
  ASSUME Inv, SoundState, EndService
  PROVE  /\ SoundState'
         /\ \A d \in OneWay, byte \in Nat :
              TotalOf(d, byte) <= 1 => TotalOf(d, byte)' = TotalOf(d, byte)
<1> DEFINE x == Head(queue)
           rest == Tail(queue)
<1>1. PICK v \in HookVerdicts, stale \in Stale, route \in Routes[x.p.id] :
        Carry(Handle(x.p, x.from, route, v), v, stale, rest, {})
  BY DEF EndService
<1>2. queue # <<>> /\ queue \in Seq(Item) /\ todo' = todo
  BY DEF EndService, Inv, TypeOK
<1>3. x \in Item /\ rest \in Seq(Item)
  BY <1>2
<1>4. /\ x.p \in Piece /\ x.from \in Ifaces \cup {HL} /\ x.p.id \in Ids
  BY <1>3 DEF Item, Piece
<1>5. route \in RouteAnswer
  BY <1>4, IPAssumption DEF RouteAnswer
<1> DEFINE plan == Handle(x.p, x.from, route, v)
<1>6. plan \in Plan /\ Tracks(plan, x.p)
  BY <1>4, <1>5, HandlePlan, HandleTracks
<1>7. x = queue[1] /\ 1 \in DOMAIN queue
      /\ \A k \in DOMAIN rest : k + 1 \in DOMAIN queue /\ rest[k] = queue[k + 1]
  BY <1>2
<1>8. SoundIfOneWay(x.p) /\ \A k \in DOMAIN rest : SoundIfOneWay(rest[k].p)
  BY <1>7 DEF SoundState
<1>9. PiecesOf(queue) = <<x.p>> \o PiecesOf(rest)
  BY <1>2, PiecesOfType
<1>10. PiecesOf(rest) \in Seq(Piece)
  BY <1>3, PiecesOfType
<1> HIDE DEF x, rest, plan
<1>11. Carry(plan, v, stale, rest, {})
  BY <1>1 DEF plan
<1>12. SoundState'
  BY <1>2, <1>3, <1>4, <1>6, <1>8, <1>11, CarrySound
<1>13. ASSUME NEW d \in OneWay, NEW byte \in Nat, TotalOf(d, byte) <= 1
       PROVE  TotalOf(d, byte)' = TotalOf(d, byte)
  <2> DEFINE b == Bit(Has(x.p, d, byte))
             others == NumHops(pending, d, byte) + NumHops(out, d, byte) + NumAt(hooked, d, byte)
                         + NumSet(fragbuf, d, byte) + NumSet(delivered, d, byte)
                         + NumSet(gone, d, byte)
             nTodo == NumAt(todo, d, byte)
             nQueue == NumQueue(queue, d, byte)
             nRest == NumQueue(rest, d, byte)
  <2>1. others \in Nat /\ nTodo \in Nat /\ nQueue \in Nat /\ nRest \in Nat /\ b \in Nat
    BY CountsType
  <2>2. TotalOf(d, byte) = nTodo + nQueue + others
    BY CountsType DEF TotalOf
  <2>3. LeftOver(rest, {}, d, byte) = nTodo + nRest + others
    <3>1. hooked \ {} = hooked
      OBVIOUS
    <3> QED BY <3>1, CountsType DEF LeftOver
  <2> HIDE DEF others, nTodo, nQueue, nRest, b
  <2>4. nQueue = b + nRest
    <3>1. NumSeq(<<x.p>>, d, byte) = b
      BY NumSeqSingle DEF b
    <3>2. nQueue <= 1
      BY <1>13, <2>1, <2>2
    <3>3. NumSeq(<<x.p>> \o PiecesOf(rest), d, byte) <= 1
      BY <1>9, <3>2 DEF nQueue, NumQueue
    <3>4. <<x.p>> \in Seq(Piece)
      BY <1>4
    <3> DEFINE one == <<x.p>>
               s == PiecesOf(rest)
    <3>5. NumSeq(<<x.p>> \o PiecesOf(rest), d, byte)
            = NumSeq(<<x.p>>, d, byte) + NumSeq(PiecesOf(rest), d, byte)
      <4>1. one \in Seq(Piece) /\ s \in Seq(Piece) /\ NumSeq(one \o s, d, byte) <= 1
        BY <1>10, <3>3, <3>4
      <4> HIDE DEF one, s
      <4>2. NumSeq(one \o s, d, byte) = NumSeq(one, d, byte) + NumSeq(s, d, byte)
        BY <4>1, NumSeqConcat
      <4> QED BY <4>2 DEF one, s
    <3> QED BY <1>9, <3>1, <3>5 DEF nQueue, nRest, NumQueue
  <2>5. LeftOver(rest, {}, d, byte) + b = TotalOf(d, byte)
    BY <2>1, <2>2, <2>3, <2>4
  <2>6. LeftOver(rest, {}, d, byte) + Bit(Has(x.p, d, byte)) <= 1
    BY <1>13, <2>5 DEF b
  <2>7. TotalOf(d, byte)' = LeftOver(rest, {}, d, byte) + Bit(Has(x.p, d, byte))
    BY <1>2, <1>3, <1>4, <1>6, <1>8, <1>11, <2>6, CarryKeeps
  <2> QED BY <2>5, <2>7 DEF b
<1> QED BY <1>12, <1>13

\* A datagram leaves the hooks' queue.
LEMMA NumUnhooked ==
  ASSUME NEW x \in hooked, NEW d, NEW byte, NumAt(hooked, d, byte) <= 1
  PROVE  NumAt(hooked, d, byte) = Bit(Has(x.p, d, byte)) + NumAt(hooked \ {x}, d, byte)
<1> DEFINE new == hooked \ {x}
<1>1. hooked = {x} \cup new /\ {x} \cap new = {}
  OBVIOUS
<1> HIDE DEF new
<1>2. NumAt({x} \cup new, d, byte) <= 1
  BY <1>1
<1>3. NumAt({x} \cup new, d, byte) = NumAt({x}, d, byte) + NumAt(new, d, byte)
  BY <1>1, <1>2, NumAtSplit
<1>4. NumAt({x}, d, byte) = Bit(Has(x.p, d, byte))
  BY NumAtSingle
<1> QED BY <1>1, <1>3, <1>4 DEF new

\* A datagram that leaves the hooks' queue is delivered or gone.
LEMMA UnhookedKeeps ==
  ASSUME NEW x \in hooked, NEW A, NEW B, A \cup B = {x.p}, A \cap B = {},
         hooked' = hooked \ {x}, delivered' = delivered \cup A, gone' = gone \cup B,
         UNCHANGED <<todo, queue, pending, out, fragbuf>>,
         NEW d, NEW byte, TotalOf(d, byte) <= 1
  PROVE  TotalOf(d, byte)' = TotalOf(d, byte)
<1> DEFINE b == Bit(Has(x.p, d, byte))
           others == NumAt(todo, d, byte) + NumQueue(queue, d, byte) + NumHops(pending, d, byte)
                       + NumHops(out, d, byte) + NumSet(fragbuf, d, byte)
           nHooked == NumAt(hooked, d, byte)
           nNew == NumAt(hooked', d, byte)
           nDel == NumSet(delivered, d, byte)
           nGone == NumSet(gone, d, byte)
           nA == NumSet(A, d, byte)
           nB == NumSet(B, d, byte)
<1>1. /\ others \in Nat /\ nHooked \in Nat /\ nNew \in Nat /\ nDel \in Nat /\ nGone \in Nat
      /\ nA \in Nat /\ nB \in Nat /\ b \in 0 .. 1
  BY CountsType
<1>2. TotalOf(d, byte) = others + nHooked + nDel + nGone
  BY CountsType DEF TotalOf
<1>3. TotalOf(d, byte)' = others + nNew + NumSet(delivered', d, byte) + NumSet(gone', d, byte)
  BY CountsType DEF TotalOf
<1> HIDE DEF b, others, nHooked, nNew, nDel, nGone, nA, nB
<1>4. nHooked = b + nNew
  <2>1. nHooked <= 1
    BY <1>1, <1>2
  <2> QED BY <2>1, NumUnhooked DEF nHooked, nNew, b
<1>5. nA + nB = b
  <2>1. NumSet(A \cup B, d, byte) = b
    BY NumSetSingle DEF b
  <2>2. NumSet(A \cup B, d, byte) <= 1
    BY <1>1, <2>1
  <2>3. NumSet(A \cup B, d, byte) = NumSet(A, d, byte) + NumSet(B, d, byte)
    BY <2>2, NumSetSplit
  <2> QED BY <2>1, <2>3 DEF nA, nB
<1>6. NumSet(delivered', d, byte) = nDel + nA
  <2>1. nDel + nA <= 1
    BY <1>1, <1>2, <1>4, <1>5
  <2>2. NumSet(delivered, d, byte) + NumSet(A, d, byte) <= 1
    BY <2>1 DEF nDel, nA
  <2> QED BY <2>2, NumSetUnion DEF nDel, nA
<1>7. NumSet(gone', d, byte) = nGone + nB
  <2>1. nGone + nB <= 1
    BY <1>1, <1>2, <1>4, <1>5
  <2>2. NumSet(gone, d, byte) + NumSet(B, d, byte) <= 1
    BY <2>1 DEF nGone, nB
  <2> QED BY <2>2, NumSetUnion DEF nGone, nB
<1> QED BY <1>1, <1>2, <1>3, <1>4, <1>5, <1>6, <1>7

\* A hook gives a datagram back: it goes on where it was queued.
LEMMA ReinjectKeeps ==
  ASSUME Inv, SoundState, NEW x \in hooked, Reinject(x)
  PROVE  /\ SoundState'
         /\ \A d \in OneWay, byte \in Nat :
              TotalOf(d, byte) <= 1 => TotalOf(d, byte)' = TotalOf(d, byte)
<1>1. x \in QueuedDatagram /\ x.p \in Piece /\ x.p.id \in Ids
  BY DEF Inv, QueuedDatagram, Piece
<1>2. queue \in Seq(Item) /\ todo' = todo
  BY DEF Inv, TypeOK, Reinject
<1>3. CASE x.at = "LOCALIN"
  <2> DEFINE A == Registered({x.p})
             B == {x.p} \ A
  <2>1. /\ delivered' = delivered \cup A /\ gone' = gone \cup B /\ hooked' = hooked \ {x}
        /\ UNCHANGED <<todo, queue, pending, out, fragbuf>>
    BY <1>3 DEF Reinject
  <2>2. A \cup B = {x.p} /\ A \cap B = {}
    BY DEF Registered
  <2> HIDE DEF A, B
  <2>3. SoundState'
    BY <2>1 DEF SoundState, FragmentsWait, IsFragment, SoundIfOneWay, Sound
  <2>4. \A d \in OneWay, byte \in Nat :
          TotalOf(d, byte) <= 1 => TotalOf(d, byte)' = TotalOf(d, byte)
    BY <2>1, <2>2, UnhookedKeeps
  <2> QED BY <2>3, <2>4
<1>4. CASE x.at # "LOCALIN"
  <2>1. PICK v \in HookVerdicts, stale \in Stale, route \in Routes[x.p.id] :
          Carry(Resume(x, route, v), v, stale, queue, {x})
    BY <1>4 DEF Reinject
  <2>2. route \in RouteAnswer
    BY <1>1, IPAssumption DEF RouteAnswer
  <2> DEFINE plan == Resume(x, route, v)
             p == x.p
  <2>3. plan \in Plan /\ Tracks(plan, p)
    BY <1>1, <1>4, <2>2, ResumePlan, ResumeTracks
  <2>4. SoundIfOneWay(p) /\ \A k \in DOMAIN queue : SoundIfOneWay(queue[k].p)
    BY <1>4 DEF SoundState
  <2>5. Carry(plan, v, stale, queue, {x}) /\ p \in Piece
    BY <1>1, <2>1
  <2> HIDE DEF plan, p
  <2>6. SoundState'
    BY <1>2, <2>3, <2>4, <2>5, CarrySound
  <2>7. ASSUME NEW d \in OneWay, NEW byte \in Nat, TotalOf(d, byte) <= 1
        PROVE  TotalOf(d, byte)' = TotalOf(d, byte)
    <3> DEFINE b == Bit(Has(p, d, byte))
               others == NumAt(todo, d, byte) + NumQueue(queue, d, byte)
                           + NumHops(pending, d, byte) + NumHops(out, d, byte)
                           + NumSet(fragbuf, d, byte) + NumSet(delivered, d, byte)
                           + NumSet(gone, d, byte)
               nHooked == NumAt(hooked, d, byte)
               nRest == NumAt(hooked \ {x}, d, byte)
    <3>1. others \in Nat /\ nHooked \in Nat /\ nRest \in Nat /\ b \in Nat
      BY CountsType
    <3>2. TotalOf(d, byte) = others + nHooked
      BY CountsType DEF TotalOf
    <3>3. LeftOver(queue, {x}, d, byte) = others + nRest
      BY CountsType DEF LeftOver
    <3> HIDE DEF others, nHooked, nRest, b
    <3>4. nHooked = b + nRest
      <4>1. nHooked <= 1
        BY <2>7, <3>1, <3>2
      <4> QED BY <4>1, NumUnhooked DEF nHooked, nRest, b, p
    <3>5. LeftOver(queue, {x}, d, byte) + b = TotalOf(d, byte)
      BY <3>1, <3>2, <3>3, <3>4
    <3>6. LeftOver(queue, {x}, d, byte) + Bit(Has(p, d, byte)) <= 1
      BY <2>7, <3>5 DEF b
    <3>7. TotalOf(d, byte)' = LeftOver(queue, {x}, d, byte) + Bit(Has(p, d, byte))
      BY <1>2, <2>3, <2>4, <2>5, <3>6, CarryKeeps
    <3> QED BY <3>5, <3>7 DEF b
  <2> QED BY <2>6, <2>7
<1> QED BY <1>3, <1>4

\* What changes no place changes no count.
LEMMA StillKeeps ==
  ASSUME SoundState,
         UNCHANGED <<todo, queue, pending, out, hooked, fragbuf, delivered, gone>>
  PROVE  /\ SoundState'
         /\ \A d, byte : TotalOf(d, byte)' = TotalOf(d, byte)
BY DEF SoundState, FragmentsWait, IsFragment, SoundIfOneWay, Sound, TotalOf

\* A hook drops a datagram.
LEMMA DropQueuedKeeps ==
  ASSUME SoundState, NEW x \in hooked, DropQueued(x)
  PROVE  /\ SoundState'
         /\ \A d \in OneWay, byte \in Nat :
              TotalOf(d, byte) <= 1 => TotalOf(d, byte)' = TotalOf(d, byte)
<1> DEFINE A == {}
           B == {x.p}
<1>1. /\ delivered' = delivered \cup A /\ gone' = gone \cup B /\ hooked' = hooked \ {x}
      /\ UNCHANGED <<todo, queue, pending, out, fragbuf>>
  BY DEF DropQueued
<1>2. A \cup B = {x.p} /\ A \cap B = {}
  OBVIOUS
<1> HIDE DEF A, B
<1>3. SoundState'
  BY <1>1 DEF SoundState, FragmentsWait, IsFragment, SoundIfOneWay, Sound
<1>4. \A d \in OneWay, byte \in Nat :
        TotalOf(d, byte) <= 1 => TotalOf(d, byte)' = TotalOf(d, byte)
  BY <1>1, <1>2, UnhookedKeeps
<1> QED BY <1>3, <1>4

\* What waited for an address goes out.
LEMMA ArpPacketKeeps ==
  ASSUME Inv, SoundState, NEW hop \in Hops, ArpPacket(hop)
  PROVE  /\ SoundState'
         /\ \A d \in OneWay, byte \in Nat :
              TotalOf(d, byte) <= 1 => TotalOf(d, byte)' = TotalOf(d, byte)
<1> DEFINE s == pending[hop]
<1>1. /\ out' = Lengthened(out, hop, s) /\ pending' = Emptied(pending, hop)
      /\ UNCHANGED <<todo, queue, hooked, fragbuf, delivered, gone>>
  BY DEF ArpPacket, ArpResolutionCompleted, Lengthened, Emptied
<1>2. /\ out \in [Hops -> Seq(Piece)] /\ pending \in [Hops -> Seq(Piece)]
      /\ s \in Seq(Piece)
  BY DEF Inv, TypeOK
<1>3. SoundState'
  BY <1>1 DEF SoundState, FragmentsWait, IsFragment, SoundIfOneWay, Sound
<1>4. ASSUME NEW d \in OneWay, NEW byte \in Nat, TotalOf(d, byte) <= 1
      PROVE  TotalOf(d, byte)' = TotalOf(d, byte)
  <2> DEFINE others == NumAt(todo, d, byte) + NumQueue(queue, d, byte)
                         + NumAt(hooked, d, byte) + NumSet(fragbuf, d, byte)
                         + NumSet(delivered, d, byte) + NumSet(gone, d, byte)
             nPending == NumHops(pending, d, byte)
             nOut == NumHops(out, d, byte)
             nSeq == NumSeq(s, d, byte)
             nLeft == NumHops(Emptied(pending, hop), d, byte)
             nSent == NumHops(Lengthened(out, hop, s), d, byte)
  <2>1. /\ others \in Nat /\ nPending \in Nat /\ nOut \in Nat /\ nSeq \in Nat
        /\ nLeft \in Nat /\ nSent \in Nat
    BY CountsType
  <2>2. TotalOf(d, byte) = others + nPending + nOut
    BY CountsType DEF TotalOf
  <2>3. TotalOf(d, byte)' = others + nLeft + nSent
    <3>1. TotalOf(d, byte)' = NumAt(todo, d, byte) + NumQueue(queue, d, byte)
            + NumHops(pending', d, byte) + NumHops(out', d, byte) + NumAt(hooked, d, byte)
            + NumSet(fragbuf, d, byte) + NumSet(delivered, d, byte) + NumSet(gone, d, byte)
      BY <1>1 DEF TotalOf
    <3>2. NumHops(pending', d, byte) = nLeft /\ NumHops(out', d, byte) = nSent
      BY <1>1
    <3> HIDE DEF nLeft, nSent
    <3> QED BY <2>1, <3>1, <3>2, CountsType
  <2> HIDE DEF others, nPending, nOut, nSeq, nLeft, nSent, s
  <2>4. nLeft + nSeq = nPending
    <3>1. NumHops(pending, d, byte) <= 1
      BY <1>4, <2>1, <2>2 DEF nPending
    <3> QED BY <1>2, <3>1, NumHopsLeave DEF nLeft, nSeq, nPending, s
  <2>5. nSent = nOut + nSeq
    <3>1. nOut + nSeq <= 1
      BY <1>4, <2>1, <2>2, <2>4
    <3>2. NumHops(out, d, byte) + NumSeq(s, d, byte) <= 1
      BY <3>1 DEF nOut, nSeq
    <3>3. NumHops(Lengthened(out, hop, s), d, byte) = NumHops(out, d, byte) + NumSeq(s, d, byte)
      <4>1. out \in [Hops -> Seq(Piece)]
        BY <1>2
      <4>2. s \in Seq(Piece)
        BY <1>2
      <4> QED BY <3>2, <4>1, <4>2, NumHopsJoin
    <3> QED BY <3>3 DEF nSent, nOut, nSeq
  <2> QED BY <2>1, <2>2, <2>3, <2>4, <2>5
<1> QED BY <1>3, <1>4

\* What waited for an address is given up.
LEMMA RequestTimedOutKeeps ==
  ASSUME Inv, SoundState, NEW hop \in Hops, RequestTimedOut(hop)
  PROVE  /\ SoundState'
         /\ \A d \in OneWay, byte \in Nat :
              TotalOf(d, byte) <= 1 => TotalOf(d, byte)' = TotalOf(d, byte)
<1>1. CASE retries[hop] + 1 < RetryCount
  BY <1>1, StillKeeps DEF RequestTimedOut
<1>2. CASE ~(retries[hop] + 1 < RetryCount)
  <2> DEFINE s == pending[hop]
             lost == Range(s)
  <2>1. /\ gone' = gone \cup lost /\ pending' = Emptied(pending, hop)
        /\ UNCHANGED <<todo, queue, out, hooked, fragbuf, delivered>>
    BY <1>2 DEF RequestTimedOut, ArpResolutionTimedOut, Emptied
  <2>2. pending \in [Hops -> Seq(Piece)]
    BY DEF Inv, TypeOK
  <2>3. SoundState'
    BY <2>1 DEF SoundState, FragmentsWait, IsFragment, SoundIfOneWay, Sound
  <2>4. ASSUME NEW d \in OneWay, NEW byte \in Nat, TotalOf(d, byte) <= 1
        PROVE  TotalOf(d, byte)' = TotalOf(d, byte)
    <3> DEFINE others == NumAt(todo, d, byte) + NumQueue(queue, d, byte)
                           + NumHops(out, d, byte) + NumAt(hooked, d, byte)
                           + NumSet(fragbuf, d, byte) + NumSet(delivered, d, byte)
               nPending == NumHops(pending, d, byte)
               nGone == NumSet(gone, d, byte)
               nSeq == NumSeq(s, d, byte)
               nLeft == NumHops(Emptied(pending, hop), d, byte)
               nNew == NumSet(gone \cup lost, d, byte)
    <3>1. /\ others \in Nat /\ nPending \in Nat /\ nGone \in Nat /\ nSeq \in Nat
          /\ nLeft \in Nat /\ nNew \in Nat
      BY CountsType
    <3>2. TotalOf(d, byte) = others + nPending + nGone
      BY CountsType DEF TotalOf
    <3>3. TotalOf(d, byte)' = others + nLeft + nNew
      <4>1. TotalOf(d, byte)' = NumAt(todo, d, byte) + NumQueue(queue, d, byte)
              + NumHops(pending', d, byte) + NumHops(out, d, byte) + NumAt(hooked, d, byte)
              + NumSet(fragbuf, d, byte) + NumSet(delivered, d, byte) + NumSet(gone', d, byte)
        BY <2>1 DEF TotalOf
      <4>2. NumHops(pending', d, byte) = nLeft /\ NumSet(gone', d, byte) = nNew
        BY <2>1
      <4> HIDE DEF nLeft, nNew
      <4> QED BY <3>1, <4>1, <4>2, CountsType
    <3> HIDE DEF others, nPending, nGone, nSeq, nLeft, nNew, s
    <3>4. nLeft + nSeq = nPending
      <4>1. NumHops(pending, d, byte) <= 1
        BY <2>4, <3>1, <3>2 DEF nPending
      <4> QED BY <2>2, <4>1, NumHopsLeave DEF nLeft, nSeq, nPending, s
    <3>5. nNew = nGone + nSeq
      <4>1. nGone + nSeq <= 1
        BY <2>4, <3>1, <3>2, <3>4
      <4>2. nSeq <= 1
        BY <3>1, <4>1
      <4>3. NumSet(lost, d, byte) = nSeq
        BY <4>2, NumRange DEF nSeq
      <4> HIDE DEF lost
      <4>4. NumSet(gone, d, byte) + NumSet(lost, d, byte) <= 1
        BY <4>1, <4>3 DEF nGone
      <4>5. NumSet(gone \cup lost, d, byte) = NumSet(gone, d, byte) + NumSet(lost, d, byte)
        BY <4>4, NumSetUnion
      <4> QED BY <4>3, <4>5 DEF nNew, nGone
    <3> QED BY <3>1, <3>2, <3>3, <3>4, <3>5
  <2> QED BY <2>3, <2>4
<1> QED BY <1>1, <1>2

ImageOf(g, A) == {g[e] : e \in A}

\* The image of one element at most
LEMMA NumImage ==
  ASSUME NEW g, NEW A, Num(A) <= 1
  PROVE  Num(ImageOf(g, A)) = Num(A)
<1>1. CASE Num(A) = 0
  <2>1. A = {}
    BY <1>1, NumZero
  <2>2. ImageOf(g, A) = {}
    BY <2>1 DEF ImageOf
  <2> QED BY <1>1, <2>2, NumZero
<1>2. CASE Num(A) = 1
  <2>1. PICK e : A = {e}
    BY <1>2, NumOne
  <2>2. ImageOf(g, A) = {g[e]}
    BY <2>1 DEF ImageOf
  <2> QED BY <1>2, <2>2, NumSingle
<1>3. Num(A) \in 0 .. 2
  BY NumType
<1> QED BY <1>1, <1>2, <1>3

\* All that waits for the next hops
AllOf(f) == UNION {Range(f[h]) : h \in Hops}

\* It counts what the next hops do.
LEMMA NumAllOf ==
  ASSUME NEW f \in [Hops -> Seq(Piece)], NEW d, NEW byte, NumHops(f, d, byte) <= 1
  PROVE  NumSet(AllOf(f), d, byte) = NumHops(f, d, byte)
<1> DEFINE P == SpotsHops(f, d, byte)
           g == [y \in P |-> f[y[1]][y[2]]]
           Q == {p \in AllOf(f) : Has(p, d, byte)}
<1>1. ASSUME NEW p \in Q PROVE p \in ImageOf(g, P)
  <2>1. PICK h \in Hops : \E k \in DOMAIN f[h] : p = f[h][k]
    BY DEF AllOf, Range
  <2>5. PICK k \in DOMAIN f[h] : p = f[h][k]
    BY <2>1
  <2>2. k \in Nat
    BY <2>5
  <2>3. <<h, k>> \in P
    BY <2>2, <2>5 DEF SpotsHops
  <2>4. g[<<h, k>>] = p
    BY <2>3, <2>5
  <2> HIDE DEF g, P
  <2> QED BY <2>3, <2>4 DEF ImageOf
<1>2. ASSUME NEW p \in ImageOf(g, P) PROVE p \in Q
  <2>1. PICK y \in P : p = f[y[1]][y[2]]
    BY DEF ImageOf
  <2>2. y[1] \in Hops /\ y[2] \in DOMAIN f[y[1]] /\ Has(p, d, byte)
    BY <2>1 DEF SpotsHops
  <2> QED BY <2>1, <2>2 DEF AllOf, Range
<1>3. Q = ImageOf(g, P)
  <2> HIDE DEF Q, g, P
  <2> QED BY <1>1, <1>2
<1>4. NumHops(f, d, byte) = Num(P) /\ NumSet(AllOf(f), d, byte) = Num(Q)
  BY DEF NumHops, NumSet
<1> HIDE DEF P, Q, g
<1> QED BY <1>3, <1>4, NumImage

\* What waited in a node that stops is gone.
LEMMA StopKeeps ==
  ASSUME Inv, SoundState, Stop
  PROVE  /\ SoundState'
         /\ \A d \in OneWay, byte \in Nat :
              TotalOf(d, byte) <= 1 => TotalOf(d, byte)' = TotalOf(d, byte)
<1> DEFINE A == Range(PiecesOf(queue))
           B == AllOf(pending)
           none == [h \in Hops |-> <<>>]
<1>1. /\ queue' = <<>> /\ pending' = none
      /\ UNCHANGED <<todo, out, hooked, fragbuf, delivered>>
  BY DEF Stop, Flush
<1>2. gone' = gone \cup (A \cup B)
  <2>1. {queue[k].p : k \in DOMAIN queue} = A
    BY DEF PiecesOf, Range
  <2> QED BY <2>1 DEF Stop, Flush, Waiting, AllOf
<1>3. pending \in [Hops -> Seq(Piece)]
  BY DEF Inv, TypeOK
<1>4. SoundState'
  BY <1>1 DEF SoundState, FragmentsWait, IsFragment, SoundIfOneWay, Sound
<1>5. ASSUME NEW d \in OneWay, NEW byte \in Nat, TotalOf(d, byte) <= 1
      PROVE  TotalOf(d, byte)' = TotalOf(d, byte)
  <2> DEFINE others == NumAt(todo, d, byte) + NumHops(out, d, byte)
                         + NumAt(hooked, d, byte) + NumSet(fragbuf, d, byte)
                         + NumSet(delivered, d, byte)
             nQueue == NumQueue(queue, d, byte)
             nPending == NumHops(pending, d, byte)
             nGone == NumSet(gone, d, byte)
             nNew == NumSet(gone \cup (A \cup B), d, byte)
  <2>1. /\ others \in Nat /\ nQueue \in Nat /\ nPending \in Nat /\ nGone \in Nat
        /\ nNew \in Nat
    BY CountsType
  <2>2. TotalOf(d, byte) = others + nQueue + nPending + nGone
    BY CountsType DEF TotalOf
  <2>3. NumQueue(<<>>, d, byte) = 0 /\ NumHops(none, d, byte) = 0
    <3>1. SpotsHops(none, d, byte) = {}
      BY DEF SpotsHops
    <3> QED BY <3>1, NumEmpty, NumZero DEF NumHops
  <2>4. TotalOf(d, byte)' = others + nNew
    <3>1. TotalOf(d, byte)' = NumAt(todo, d, byte) + NumQueue(queue', d, byte)
            + NumHops(pending', d, byte) + NumHops(out, d, byte) + NumAt(hooked, d, byte)
            + NumSet(fragbuf, d, byte) + NumSet(delivered, d, byte) + NumSet(gone', d, byte)
      BY <1>1 DEF TotalOf
    <3>2. NumQueue(queue', d, byte) = 0 /\ NumHops(pending', d, byte) = 0
      BY <1>1, <2>3
    <3>3. NumSet(gone', d, byte) = nNew
      BY <1>2
    <3> HIDE DEF nNew
    <3> QED BY <2>1, <3>1, <3>2, <3>3, CountsType
  <2> HIDE DEF others, nQueue, nPending, nGone, nNew, A, B
  <2>5. nQueue + nPending + nGone <= 1
    BY <1>5, <2>1, <2>2
  <2>6. NumSet(A, d, byte) = nQueue
    <3>1. NumSeq(PiecesOf(queue), d, byte) <= 1
      BY <2>1, <2>5 DEF nQueue, NumQueue
    <3> QED BY <3>1, NumRange DEF nQueue, NumQueue, A
  <2>7. NumSet(B, d, byte) = nPending
    <3>1. NumHops(pending, d, byte) <= 1
      BY <2>1, <2>5 DEF nPending
    <3> QED BY <1>3, <3>1, NumAllOf DEF nPending, B
  <2>8. NumSet(A \cup B, d, byte) = nQueue + nPending
    <3>1. NumSet(A, d, byte) + NumSet(B, d, byte) <= 1
      BY <2>1, <2>5, <2>6, <2>7
    <3>2. NumSet(A \cup B, d, byte) = NumSet(A, d, byte) + NumSet(B, d, byte)
      BY <3>1, NumSetUnion
    <3> QED BY <2>6, <2>7, <3>2
  <2>9. nNew = nGone + (nQueue + nPending)
    <3> DEFINE C == A \cup B
    <3>1. NumSet(gone, d, byte) + NumSet(C, d, byte) <= 1
      BY <2>1, <2>5, <2>8 DEF nGone
    <3>2. NumSet(C, d, byte) = nQueue + nPending
      BY <2>8
    <3>3. nNew = NumSet(gone \cup C, d, byte)
      BY DEF nNew
    <3> HIDE DEF C
    <3>4. NumSet(gone \cup C, d, byte) = NumSet(gone, d, byte) + NumSet(C, d, byte)
      BY <3>1, NumSetUnion
    <3> QED BY <3>2, <3>3, <3>4 DEF nGone
  <2> QED BY <2>1, <2>2, <2>4, <2>9
<1> QED BY <1>4, <1>5

-----------------------------------------------------------------------------
(* Every byte in one place.                                                 *)

\* Every byte that can arrive is in one place, and no other byte is anywhere.
InOnePlace ==
  \A d \in OneWay, byte \in Nat :
    TotalOf(d, byte) = Bit(\E x \in Inputs : Has(x.p, d, byte))

ByteInv == SoundState /\ InOnePlace

\* At first every byte is in the one input that holds it.
LEMMA InitBytes == Init => ByteInv
<1> SUFFICES ASSUME Init PROVE ByteInv
  OBVIOUS
<1>1. /\ todo = Inputs /\ queue = <<>> /\ hooked = {} /\ fragbuf = {}
      /\ delivered = {} /\ gone = {}
      /\ pending = [h \in Hops |-> <<>>] /\ out = [h \in Hops |-> <<>>]
  BY DEF Init
<1>2. \A x \in Inputs : x.p \in Piece
  BY IPAssumption
<1>3. SoundState
  <2>1. ASSUME NEW x \in Inputs, x.p.id \in OneWay
        PROVE  Sound(x.p)
    <3>1. Kind[x.p.id] \in {"unicast", "local"}
      BY <2>1 DEF OneWay
    <3>2. IsFragment(x.p) => x.p.len > 0
      BY <3>1, FragmentAssumption DEF IsFragment
    <3>3. \A y \in Inputs : y.p.id = x.p.id /\ ~y.p.more
                              => x.p.off + x.p.len <= y.p.off + y.p.len
      BY <3>1, FragmentAssumption
    <3>4. \A e \in Ends(x.p.id) : x.p.off + x.p.len <= e
      BY <3>3 DEF Ends
    <3>5. ~x.p.more => x.p.off + x.p.len \in Ends(x.p.id)
      BY DEF Ends
    <3> QED BY <3>2, <3>4, <3>5 DEF Sound
  <2> QED BY <1>1, <2>1 DEF SoundState, FragmentsWait, SoundIfOneWay
<1>4. ASSUME NEW d \in OneWay, NEW byte \in Nat
      PROVE  TotalOf(d, byte) = Bit(\E x \in Inputs : Has(x.p, d, byte))
  <2> DEFINE P == {x \in Inputs : Has(x.p, d, byte)}
  <2>1. SpotsHops([h \in Hops |-> <<>>], d, byte) = {}
    BY DEF SpotsHops
  <2>2. NumHops(pending, d, byte) = 0 /\ NumHops(out, d, byte) = 0
    BY <1>1, <2>1, NumZero DEF NumHops
  <2>3. /\ NumQueue(queue, d, byte) = 0 /\ NumAt(hooked, d, byte) = 0
        /\ NumSet(fragbuf, d, byte) = 0 /\ NumSet(delivered, d, byte) = 0
        /\ NumSet(gone, d, byte) = 0
    BY <1>1, NumEmpty
  <2>4. NumAt(todo, d, byte) = Num(P)
    BY <1>1 DEF NumAt
  <2>5. Num(P) = Bit(\E x \in Inputs : Has(x.p, d, byte))
    <3>1. CASE \E x \in Inputs : Has(x.p, d, byte)
      <4>1. PICK x \in Inputs : Has(x.p, d, byte)
        BY <3>1
      <4>2. ASSUME NEW y \in Inputs, Has(y.p, d, byte)
            PROVE  y = x
        <5>1. x.p.id = d /\ y.p.id = d /\ Kind[d] \in {"unicast", "local"}
          BY <4>1, <4>2 DEF Has, OneWay
        <5>2. /\ x.p.off <= byte /\ byte < x.p.off + x.p.len
              /\ y.p.off <= byte /\ byte < y.p.off + y.p.len
          BY <4>1, <4>2 DEF Has, Holds
        <5>3. /\ x.p.off \in Nat /\ x.p.len \in Nat
              /\ y.p.off \in Nat /\ y.p.len \in Nat
          BY <1>2 DEF Piece
        <5>4. ~(x.p.off + x.p.len <= y.p.off) /\ ~(y.p.off + y.p.len <= x.p.off)
          BY <5>2, <5>3
        <5> QED BY <5>1, <5>4, FragmentAssumption
      <4>3. P = {x}
        BY <4>1, <4>2
      <4>4. Num(P) = 1
        BY <4>3, NumSingle
      <4> QED BY <3>1, <4>4 DEF Bit
    <3>2. CASE ~\E x \in Inputs : Has(x.p, d, byte)
      <4>1. P = {}
        BY <3>2
      <4>2. Num(P) = 0
        BY <4>1, NumZero
      <4> QED BY <3>2, <4>2 DEF Bit
    <3> QED BY <3>1, <3>2
  <2> DEFINE n == Num(P)
  <2>6. n \in Nat
    BY NumType
  <2> HIDE DEF n
  <2>7. TotalOf(d, byte) = n
    BY <2>2, <2>3, <2>4, <2>6 DEF TotalOf, n
  <2> QED BY <2>5, <2>7 DEF n
<1> QED BY <1>3, <1>4 DEF ByteInv, InOnePlace

\* Every step leaves each byte in as many places as it was.
LEMMA NextKeeps ==
  ASSUME Inv, SoundState, [Next]_vars
  PROVE  /\ SoundState'
         /\ \A d \in OneWay, byte \in Nat :
              TotalOf(d, byte) <= 1 => TotalOf(d, byte)' = TotalOf(d, byte)
<1>1. ASSUME NEW x \in todo, Arrive(x)
      PROVE  /\ SoundState'
             /\ \A d \in OneWay, byte \in Nat :
                  TotalOf(d, byte) <= 1 => TotalOf(d, byte)' = TotalOf(d, byte)
  <2>1. todo' = todo \ {x} /\ queue' = Append(queue, x) /\ hooked' = hooked /\ fragbuf' = fragbuf
    BY <1>1 DEF Arrive
  <2>2. queue \in Seq(Item) /\ x \in Item
    BY DEF Inv, TypeOK
  <2>3. /\ DOMAIN queue' = 1 .. Len(queue) + 1 /\ DOMAIN queue = 1 .. Len(queue)
        /\ Len(queue) \in Nat
        /\ \A k \in 1 .. Len(queue) : queue'[k] = queue[k]
        /\ queue'[Len(queue) + 1] = x
    BY <2>1, <2>2
  <2>4. ASSUME NEW k \in DOMAIN queue' PROVE SoundIfOneWay(queue'[k].p)
    <3>1. k \in 1 .. Len(queue) \/ k = Len(queue) + 1
      BY <2>3
    <3> QED BY <2>3, <3>1 DEF SoundState
  <2>5. /\ \A f \in fragbuf' : IsFragment(f) /\ SoundIfOneWay(f)
        /\ \A y \in todo' : SoundIfOneWay(y.p)
        /\ \A y \in hooked' : y.at = "LOCALIN" \/ SoundIfOneWay(y.p)
    BY <2>1 DEF SoundState, FragmentsWait
  <2>6. SoundState'
    BY <2>4, <2>5 DEF SoundState, FragmentsWait, IsFragment, SoundIfOneWay, Sound
  <2> QED BY <1>1, <2>6, ArriveKeeps
<1>2. CASE EndService
  BY <1>2, EndServiceKeeps
<1>3. ASSUME NEW x \in hooked, Reinject(x)
      PROVE  /\ SoundState'
             /\ \A d \in OneWay, byte \in Nat :
                  TotalOf(d, byte) <= 1 => TotalOf(d, byte)' = TotalOf(d, byte)
  BY <1>3, ReinjectKeeps
<1>4. ASSUME NEW x \in hooked, DropQueued(x)
      PROVE  /\ SoundState'
             /\ \A d \in OneWay, byte \in Nat :
                  TotalOf(d, byte) <= 1 => TotalOf(d, byte)' = TotalOf(d, byte)
  BY <1>4, DropQueuedKeeps
<1>5. ASSUME NEW h \in Hops, ArpPacket(h)
      PROVE  /\ SoundState'
             /\ \A d \in OneWay, byte \in Nat :
                  TotalOf(d, byte) <= 1 => TotalOf(d, byte)' = TotalOf(d, byte)
  BY <1>5, ArpPacketKeeps
<1>6. ASSUME NEW h \in Hops, RequestTimedOut(h)
      PROVE  /\ SoundState'
             /\ \A d \in OneWay, byte \in Nat :
                  TotalOf(d, byte) <= 1 => TotalOf(d, byte)' = TotalOf(d, byte)
  BY <1>6, RequestTimedOutKeeps
<1>7. CASE Stop
  BY <1>7, StopKeeps
<1>8. ASSUME \/ \E protocol \in Protocols : RegisterProtocol(protocol)
             \/ \E h \in Hops : ArpExpires(h)
             \/ Start
             \/ UNCHANGED vars
      PROVE  /\ SoundState'
             /\ \A d \in OneWay, byte \in Nat :
                  TotalOf(d, byte) <= 1 => TotalOf(d, byte)' = TotalOf(d, byte)
  <2>1. UNCHANGED <<todo, queue, pending, out, hooked, fragbuf, delivered, gone>>
    BY <1>8 DEF RegisterProtocol, ArpExpires, Start, vars
  <2> QED BY <2>1, StillKeeps
<1> QED BY <1>1, <1>2, <1>3, <1>4, <1>5, <1>6, <1>7, <1>8 DEF Next

\* So it is in every state of every behaviour.
LEMMA BytesAlways == Spec => []ByteInv
<1>1. Inv /\ ByteInv /\ [Next]_vars => ByteInv'
  <2> SUFFICES ASSUME Inv, ByteInv, [Next]_vars PROVE ByteInv'
    OBVIOUS
  <2>1. SoundState'
    BY NextKeeps DEF ByteInv
  <2>2. ASSUME NEW d \in OneWay, NEW byte \in Nat
        PROVE  TotalOf(d, byte)' = Bit(\E x \in Inputs : Has(x.p, d, byte))
    <3>1. TotalOf(d, byte) = Bit(\E x \in Inputs : Has(x.p, d, byte))
      BY DEF ByteInv, InOnePlace
    <3>2. TotalOf(d, byte) <= 1
      BY <3>1 DEF Bit
    <3>3. TotalOf(d, byte)' = TotalOf(d, byte)
      BY <3>2, NextKeeps DEF ByteInv
    <3> QED BY <3>1, <3>3
  <2>3. InOnePlace'
    BY <2>2 DEF InOnePlace, OneWay, Has, Holds, Bit
  <2> QED BY <2>1, <2>3 DEF ByteInv
<1> QED BY <1>1, InitBytes, InvAlways, PTL DEF Spec

\* The places of a byte of datagram d, of one kind each
InSet(name, S, d, byte) == {<<name, p, p>> : p \in {q \in S : Has(q, d, byte)}}
InItems(name, S, d, byte) == {<<name, x, x.p>> : x \in {y \in S : Has(y.p, d, byte)}}
InQueue(d, byte) ==
  {<<"queue", k, queue[k].p>> : k \in {j \in DOMAIN queue : Has(queue[j].p, d, byte)}}
InHops(name, f, d, byte) ==
  {<<name, <<y[1], y[2]>>, f[y[1]][y[2]]>> : y \in SpotsHops(f, d, byte)}

\* Each kind of place counts what its container does.
LEMMA NumIn ==
  ASSUME NEW name, NEW d, NEW byte
  PROVE  /\ \A S : NumSet(S, d, byte) <= 1 => Num(InSet(name, S, d, byte)) = NumSet(S, d, byte)
         /\ \A S : NumAt(S, d, byte) <= 1 => Num(InItems(name, S, d, byte)) = NumAt(S, d, byte)
         /\ NumQueue(queue, d, byte) <= 1 => Num(InQueue(d, byte)) = NumQueue(queue, d, byte)
         /\ \A f : NumHops(f, d, byte) <= 1
                     => Num(InHops(name, f, d, byte)) = NumHops(f, d, byte)
<1>1. ASSUME NEW S, NumSet(S, d, byte) <= 1
      PROVE  Num(InSet(name, S, d, byte)) = NumSet(S, d, byte)
  <2> DEFINE P == {q \in S : Has(q, d, byte)}
             g == [p \in P |-> <<name, p, p>>]
  <2>1. InSet(name, S, d, byte) = ImageOf(g, P)
    BY DEF InSet, ImageOf
  <2>2. NumSet(S, d, byte) = Num(P)
    BY DEF NumSet
  <2> HIDE DEF P, g
  <2> QED BY <1>1, <2>1, <2>2, NumImage
<1>2. ASSUME NEW S, NumAt(S, d, byte) <= 1
      PROVE  Num(InItems(name, S, d, byte)) = NumAt(S, d, byte)
  <2> DEFINE P == {y \in S : Has(y.p, d, byte)}
             g == [x \in P |-> <<name, x, x.p>>]
  <2>1. InItems(name, S, d, byte) = ImageOf(g, P)
    BY DEF InItems, ImageOf
  <2>2. NumAt(S, d, byte) = Num(P)
    BY DEF NumAt
  <2> HIDE DEF P, g
  <2> QED BY <1>2, <2>1, <2>2, NumImage
<1>3. ASSUME NumQueue(queue, d, byte) <= 1
      PROVE  Num(InQueue(d, byte)) = NumQueue(queue, d, byte)
  <2> DEFINE P == {j \in DOMAIN queue : Has(queue[j].p, d, byte)}
             g == [k \in P |-> <<"queue", k, queue[k].p>>]
  <2>1. InQueue(d, byte) = ImageOf(g, P)
    BY DEF InQueue, ImageOf
  <2>2. NumQueue(queue, d, byte) = Num(P)
    <3>1. {k \in DOMAIN PiecesOf(queue) : Has(PiecesOf(queue)[k], d, byte)} = P
      BY DEF PiecesOf
    <3> QED BY <3>1 DEF NumQueue, NumSeq
  <2> HIDE DEF P, g
  <2> QED BY <1>3, <2>1, <2>2, NumImage
<1>4. ASSUME NEW f, NumHops(f, d, byte) <= 1
      PROVE  Num(InHops(name, f, d, byte)) = NumHops(f, d, byte)
  <2> DEFINE P == SpotsHops(f, d, byte)
             g == [y \in P |-> <<name, <<y[1], y[2]>>, f[y[1]][y[2]]>>]
  <2>1. InHops(name, f, d, byte) = ImageOf(g, P)
    BY DEF InHops, ImageOf
  <2>2. NumHops(f, d, byte) = Num(P)
    BY DEF NumHops
  <2> HIDE DEF P, g
  <2> QED BY <1>4, <2>1, <2>2, NumImage
<1> QED BY <1>1, <1>2, <1>3, <1>4

\* The places where a byte is, put together
LEMMA PlacesOfByte ==
  ASSUME TypeOK, NEW d, NEW byte
  PROVE  {y \in Places(d) : Holds(y[3], byte)} =
           InItems("todo", todo, d, byte) \cup InQueue(d, byte)
             \cup InItems("hooked", hooked, d, byte) \cup InSet("fragbuf", fragbuf, d, byte)
             \cup InSet("delivered", delivered, d, byte) \cup InSet("gone", gone, d, byte)
             \cup InHops("pending", pending, d, byte) \cup InHops("out", out, d, byte)
<1> DEFINE Of(S) == {x \in S : x[3].id = d /\ Holds(x[3], byte)}
           T == {<<"todo", y, y.p>> : y \in todo}
           Q == {<<"queue", k, queue[k].p>> : k \in DOMAIN queue}
           H == {<<"hooked", y, y.p>> : y \in hooked}
           F == {<<"fragbuf", p, p>> : p \in fragbuf}
           D == {<<"delivered", p, p>> : p \in delivered}
           G == {<<"gone", p, p>> : p \in gone}
           W == UNION {{<<"pending", <<h, k>>, pending[h][k]>> : k \in DOMAIN pending[h]}
                         : h \in Hops}
           O == UNION {{<<"out", <<h, k>>, out[h][k]>> : k \in DOMAIN out[h]} : h \in Hops}
<1>1. Of(T) = InItems("todo", todo, d, byte)
  BY DEF InItems, Has
<1>2. Of(Q) = InQueue(d, byte)
  BY DEF InQueue, Has
<1>3. Of(H) = InItems("hooked", hooked, d, byte)
  BY DEF InItems, Has
<1>4. Of(F) = InSet("fragbuf", fragbuf, d, byte)
  BY DEF InSet, Has
<1>5. Of(D) = InSet("delivered", delivered, d, byte)
  BY DEF InSet, Has
<1>6. Of(G) = InSet("gone", gone, d, byte)
  BY DEF InSet, Has
<1>7. ASSUME NEW f \in [Hops -> Seq(Piece)], NEW name,
             NEW U, U = UNION {{<<name, <<h, k>>, f[h][k]>> : k \in DOMAIN f[h]} : h \in Hops}
      PROVE  Of(U) = InHops(name, f, d, byte)
  <2>1. ASSUME NEW x \in Of(U) PROVE x \in InHops(name, f, d, byte)
    <3>1. PICK h \in Hops : \E k \in DOMAIN f[h] : x = <<name, <<h, k>>, f[h][k]>>
      BY <1>7
    <3>2. PICK k \in DOMAIN f[h] : x = <<name, <<h, k>>, f[h][k]>>
      BY <3>1
    <3>3. k \in Nat /\ x[3] = f[h][k]
      BY <3>2
    <3>4. Has(f[h][k], d, byte)
      BY <3>3 DEF Has
    <3> DEFINE y == <<h, k>>
    <3>5. y \in SpotsHops(f, d, byte)
      BY <3>3, <3>4 DEF SpotsHops
    <3>6. x = <<name, <<y[1], y[2]>>, f[y[1]][y[2]]>>
      BY <3>2
    <3> HIDE DEF y
    <3> QED BY <3>5, <3>6 DEF InHops
  <2>2. ASSUME NEW x \in InHops(name, f, d, byte) PROVE x \in Of(U)
    <3>1. PICK y \in SpotsHops(f, d, byte) : x = <<name, <<y[1], y[2]>>, f[y[1]][y[2]]>>
      BY DEF InHops
    <3>2. y[1] \in Hops /\ y[2] \in DOMAIN f[y[1]] /\ Has(f[y[1]][y[2]], d, byte)
      BY DEF SpotsHops
    <3>3. x \in U
      BY <1>7, <3>1, <3>2
    <3>4. x[3] = f[y[1]][y[2]]
      BY <3>1
    <3> QED BY <3>2, <3>3, <3>4 DEF Has
  <2> QED BY <2>1, <2>2
<1>8. Of(W) = InHops("pending", pending, d, byte)
  BY <1>7 DEF TypeOK
<1>9. Of(O) = InHops("out", out, d, byte)
  BY <1>7 DEF TypeOK
<1>10. Places(d) = {x \in T \cup Q \cup H \cup F \cup D \cup G \cup W \cup O : x[3].id = d}
  BY DEF Places
<1> HIDE DEF T, Q, H, F, D, G, W, O
<1>11. {y \in Places(d) : Holds(y[3], byte)} =
         Of(T) \cup Of(Q) \cup Of(H) \cup Of(F) \cup Of(D) \cup Of(G) \cup Of(W) \cup Of(O)
  BY <1>10
<1> QED BY <1>1, <1>2, <1>3, <1>4, <1>5, <1>6, <1>8, <1>9, <1>11

\* Since all the places count one together, there is one.
LEMMA OnceInv == Inv /\ ByteInv => EveryByteOnce
<1> SUFFICES ASSUME TypeOK, InOnePlace,
                    NEW x \in Inputs, Kind[x.p.id] \in {"unicast", "local"},
                    NEW byte \in x.p.off .. x.p.off + x.p.len - 1
             PROVE  Cardinality({y \in Places(x.p.id) : Holds(y[3], byte)}) = 1
  BY DEF Inv, ByteInv, EveryByteOnce
<1> DEFINE d == x.p.id
           A1 == InItems("todo", todo, d, byte)
           A2 == InQueue(d, byte)
           A3 == InItems("hooked", hooked, d, byte)
           A4 == InSet("fragbuf", fragbuf, d, byte)
           A5 == InSet("delivered", delivered, d, byte)
           A6 == InSet("gone", gone, d, byte)
           A7 == InHops("pending", pending, d, byte)
           A8 == InHops("out", out, d, byte)
           n1 == NumAt(todo, d, byte)
           n2 == NumQueue(queue, d, byte)
           n3 == NumAt(hooked, d, byte)
           n4 == NumSet(fragbuf, d, byte)
           n5 == NumSet(delivered, d, byte)
           n6 == NumSet(gone, d, byte)
           n7 == NumHops(pending, d, byte)
           n8 == NumHops(out, d, byte)
<1>1. x.p \in Piece /\ x.p.off \in Nat /\ x.p.len \in Nat /\ d \in OneWay
  BY IPAssumption DEF Piece, OneWay
<1>2. byte \in Nat /\ Has(x.p, d, byte)
  BY <1>1 DEF Has, Holds
<1>3. TotalOf(d, byte) = 1
  <2>1. TotalOf(d, byte) = Bit(\E y \in Inputs : Has(y.p, d, byte))
    BY <1>1, <1>2 DEF InOnePlace
  <2>2. \E y \in Inputs : Has(y.p, d, byte)
    BY <1>2
  <2> QED BY <2>1, <2>2 DEF Bit
<1>4. /\ n1 \in Nat /\ n2 \in Nat /\ n3 \in Nat /\ n4 \in Nat
      /\ n5 \in Nat /\ n6 \in Nat /\ n7 \in Nat /\ n8 \in Nat
  BY CountsType
<1>5. n1 + n2 + n7 + n8 + n3 + n4 + n5 + n6 = 1
  BY <1>3 DEF TotalOf
<1>6. /\ n1 <= 1 => Num(A1) = n1
      /\ n2 <= 1 => Num(A2) = n2
      /\ n3 <= 1 => Num(A3) = n3
      /\ n4 <= 1 => Num(A4) = n4
      /\ n5 <= 1 => Num(A5) = n5
      /\ n6 <= 1 => Num(A6) = n6
      /\ n7 <= 1 => Num(A7) = n7
      /\ n8 <= 1 => Num(A8) = n8
  BY NumIn
<1>7. {y \in Places(d) : Holds(y[3], byte)}
        = A1 \cup A2 \cup A3 \cup A4 \cup A5 \cup A6 \cup A7 \cup A8
  BY PlacesOfByte
<1> HIDE DEF A1, A2, A3, A4, A5, A6, A7, A8, n1, n2, n3, n4, n5, n6, n7, n8
<1>8. /\ Num(A1) = n1 /\ Num(A2) = n2 /\ Num(A3) = n3 /\ Num(A4) = n4
      /\ Num(A5) = n5 /\ Num(A6) = n6 /\ Num(A7) = n7 /\ Num(A8) = n8
  <2>1. n1 <= 1 /\ n2 <= 1 /\ n3 <= 1 /\ n4 <= 1 /\ n5 <= 1 /\ n6 <= 1 /\ n7 <= 1 /\ n8 <= 1
    BY <1>4, <1>5
  <2> QED BY <1>6, <2>1
<1> DEFINE U2 == A1 \cup A2
           U3 == U2 \cup A3
           U4 == U3 \cup A4
           U5 == U4 \cup A5
           U6 == U5 \cup A6
           U7 == U6 \cup A7
           U8 == U7 \cup A8
<1>9. {y \in Places(d) : Holds(y[3], byte)} = U8
  BY <1>7
<1>10. Num(U2) = n1 + n2
  <2>1. Num(A1) + Num(A2) <= 1
    BY <1>4, <1>5, <1>8
  <2> QED BY <1>8, <2>1, NumUnion
<1> HIDE DEF U2
<1>11. Num(U3) = n1 + n2 + n3
  <2>1. Num(U2) + Num(A3) <= 1
    BY <1>4, <1>5, <1>8, <1>10
  <2> QED BY <1>8, <1>10, <2>1, NumUnion
<1> HIDE DEF U3
<1>12. Num(U4) = n1 + n2 + n3 + n4
  <2>1. Num(U3) + Num(A4) <= 1
    BY <1>4, <1>5, <1>8, <1>11
  <2> QED BY <1>8, <1>11, <2>1, NumUnion
<1> HIDE DEF U4
<1>13. Num(U5) = n1 + n2 + n3 + n4 + n5
  <2>1. Num(U4) + Num(A5) <= 1
    BY <1>4, <1>5, <1>8, <1>12
  <2> QED BY <1>8, <1>12, <2>1, NumUnion
<1> HIDE DEF U5
<1>14. Num(U6) = n1 + n2 + n3 + n4 + n5 + n6
  <2>1. Num(U5) + Num(A6) <= 1
    BY <1>4, <1>5, <1>8, <1>13
  <2> QED BY <1>8, <1>13, <2>1, NumUnion
<1> HIDE DEF U6
<1>15. Num(U7) = n1 + n2 + n3 + n4 + n5 + n6 + n7
  <2>1. Num(U6) + Num(A7) <= 1
    BY <1>4, <1>5, <1>8, <1>14
  <2> QED BY <1>8, <1>14, <2>1, NumUnion
<1> HIDE DEF U7
<1>16. Num(U8) = 1
  <2>1. Num(U7) + Num(A8) <= 1
    BY <1>4, <1>5, <1>8, <1>15
  <2>2. Num(U8) = Num(U7) + Num(A8)
    BY <2>1, NumUnion
  <2> QED BY <1>4, <1>5, <1>8, <1>15, <2>2
<1> HIDE DEF U8
<1>17. PICK e : U8 = {e}
  BY <1>16, NumOne
<1>18. Cardinality(U8) = 1
  BY <1>17, FS_Singleton
<1> QED BY <1>9, <1>18

\* Every byte of a unicast datagram is in one place at every time, whatever the
\* datagrams, the fragments they come in, the routes, the hooks and the answers of
\* ARP: fragmentAndSend, IPv4FragBuf, the queues of ARP and of the hooks and flush
\* lose no byte without account, and send or deliver none twice.
THEOREM EveryByteInOnePlace == Spec => []EveryByteOnce
BY InvAlways, BytesAlways, OnceInv, PTL
=============================================================================
