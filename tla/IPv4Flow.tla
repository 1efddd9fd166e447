------------------------------- MODULE IPv4Flow -------------------------------
(***************************************************************************)
(* IPv4Flow, the network layer of hosts and FlowRouters, with the ARP      *)
(* module it asks for link addresses.  Datagrams from the interfaces and   *)
(* from the higher layers wait in the service queue; one at a time is      *)
(* routed, delivered or cut into fragments, and goes out, or waits for the *)
(* address of its next hop.                                                *)
(*                                                                         *)
(* A datagram is its id, which fixes its addresses and protocol, the range *)
(* of payload bytes it holds, its more-fragments bit and its TTL.  A next  *)
(* hop stands for an address together with the interface it is behind.     *)
(* What the routing table answers is one of the routes it may hold for the *)
(* datagram at that time (module FlowRoutingTable).  What one event sends, *)
(* delivers, leaves with the hooks and loses is put together as a `plan'   *)
(* and carried out at once.  What happens only by a configuration error    *)
(* (cRuntimeError) is left out, as are ICMP's own error messages: to send  *)
(* one is to give the datagram away.                                       *)
(***************************************************************************)
EXTENDS Integers, Sequences, FiniteSets, SequencesExt

CONSTANTS
    Ifaces,        \* the interfaces
    Loopback,      \* lo0
    Hops,          \* the next hops, each behind a broadcast interface (LAN)
    Wire,          \* the next hop that needs no ARP: broadcast, multicast, a
                   \* point-to-point link
    Ids,           \* the datagrams
    Inputs,        \* what may arrive: datagrams or fragments, each with `from'
    MaxInputs,     \* bound: how many of them do
    HL,            \* `from' of a packet of a higher layer
    Kind,          \* by id: "unicast", "local", "limited" or "subnet" (broadcast),
                   \* "multicast" or "linklocal"
    Routes,        \* by id: the answers the routing table may give, or for a
                   \* packet that asks for an interface the ways over it
    NoRoute,       \* the answer NULL, or no interface asked for
    Subnet,        \* by id: the interface of the subnet of a "subnet" broadcast
    Joined,        \* by id: the interfaces that joined its multicast group
    MRouteIn,      \* by id: the input interface of its multicast route
    MRouteOuts,    \* by id: the outputs of its multicast route
    DontFragment,  \* the ids with that bit set
    Protocol,      \* by id: its transport protocol
    Header,        \* IP_HEADER_BYTES
    Mtu,           \* by interface, 0 is infinite
    IPForward, ForceBroadcast,
    RetryCount,    \* of ARP
    HookVerdicts   \* what the hooks may decide: functions of the hook points

HookPoints == {"PREROUTING", "FORWARD", "LOCALIN", "LOCALOUT", "POSTROUTING"}
RouteTo == [ie: Ifaces, hop: Hops \cup {Wire}]
Piece == [id: Ids, off: Nat, len: Nat, more: BOOLEAN, ttl: Nat]
Protocols == {Protocol[d] : d \in Ids}

ASSUME IPAssumption ==
    /\ Loopback \in Ifaces
    /\ Wire \notin Hops
    /\ HL \notin Ifaces
    /\ Inputs \subseteq [p: Piece, from: Ifaces \cup {HL}]
    /\ Routes \in [Ids -> SUBSET (RouteTo \cup {NoRoute})]
    /\ Subnet \in [Ids -> Ifaces]
    /\ MRouteOuts \in [Ids -> SUBSET Ifaces]
    /\ Header \in Nat /\ Mtu \in [Ifaces -> Nat]
    /\ \A i \in Ifaces : Mtu[i] = 0 \/ Mtu[i] >= Header + 8
    /\ RetryCount \in Nat \ {0}
    /\ HookVerdicts \subseteq [HookPoints -> {"ACCEPT", "DROP", "QUEUE", "STOLEN"}]

\* The pieces of a datagram that arrive were cut from one datagram, whose payload
\* is not empty when it is cut: no byte comes twice, and none comes from behind
\* the last fragment. That holds of what no multicast route copies.
ASSUME FragmentAssumption ==
    \A x, y \in Inputs :
        x.p.id = y.p.id /\ Kind[x.p.id] \in {"unicast", "local"} =>
            /\ x # y => \/ x.p.off + x.p.len =< y.p.off
                       \/ y.p.off + y.p.len =< x.p.off
            /\ ~y.p.more => x.p.off + x.p.len =< y.p.off + y.p.len
            /\ x.p.off # 0 \/ x.p.more => x.p.len > 0

VARIABLES
    up,        \* isUp
    todo,      \* the inputs that have not arrived yet
    queue,     \* msgServiced, then the queue
    pending,   \* pendingPackets, by next hop
    arp,       \* the state of the ARP cache entry of each next hop
    retries,   \* numRetries of the entry
    hooked,    \* queuedDatagramsForHooks
    fragbuf,   \* the fragments that wait for the rest
    mapping,   \* the protocols that registered
    out,       \* what was handed to the interfaces, by next hop
    delivered, \* what the higher layers got
    gone       \* what was deleted, or given to ICMP or to a hook

vars == <<up, todo, queue, pending, arp, retries, hooked, fragbuf, mapping, out,
          delivered, gone>>

-----------------------------------------------------------------------------
(* Plans: what goes to a next hop, back over the loopback, out without ARP, up
   to local delivery, to the hooks' queue, and away.  One event sends to at most
   one next hop, since copies of a datagram need no ARP.                     *)

Nothing == [hop |-> Wire, send |-> <<>>, loop |-> <<>>, wire |-> {}, local |-> {},
            hook |-> {}, lost |-> {}]
Lose(p) == [Nothing EXCEPT !.lost = {p}]
Deliver(p) == [Nothing EXCEPT !.local = {p}]
Send(ps, ie, hop) ==
    IF ie = Loopback THEN [Nothing EXCEPT !.loop = ps]
    ELSE IF hop = Wire THEN [Nothing EXCEPT !.wire = Range(ps)]
    ELSE [Nothing EXCEPT !.hop = hop, !.send = ps]

\* A datagram that a hook queued, where, and what to go on with
Entry(p, at, ie, hop) == [p |-> p, at |-> at, ie |-> ie, hop |-> hop]

\* The datagram*Hook functions: go on with `plan', or stop here
Hooked(at, p, ie, hop, v, plan) ==
    CASE v[at] = "ACCEPT" -> plan
      [] v[at] = "QUEUE"  -> [Nothing EXCEPT !.hook = {Entry(p, at, ie, hop)}]
      [] OTHER            -> Lose(p)

-----------------------------------------------------------------------------
(* Fragmentation *)

FragmentLength(mtu) == ((mtu - Header) \div 8) * 8

\* A mutant: the offset of a fragment does not count from that of the datagram
FragmentsRebased(p, size) ==
    [k \in 1 .. (p.len + size - 1) \div size |->
        LET offset == (k - 1) * size
            last == offset + size >= p.len
        IN [p EXCEPT !.off = offset,
                     !.len = IF last THEN p.len - offset ELSE size,
                     !.more = IF last THEN p.more ELSE TRUE]]

\* The loop of fragmentAndSend. The last fragment keeps the more-fragments bit.
Fragments(p, size) ==
    [k \in 1 .. (p.len + size - 1) \div size |->
        LET offset == (k - 1) * size
            last == offset + size >= p.len
        IN [p EXCEPT !.off = p.off + offset,
                     !.len = IF last THEN p.len - offset ELSE size,
                     !.more = IF last THEN p.more ELSE TRUE]]

\* A mutant: the TTL is counted down and not looked at
FragmentAndSendUnchecked(p, ie, hop) ==
    LET q == IF ie = Loopback THEN p ELSE [p EXCEPT !.ttl = @ - 1]
    IN IF Mtu[ie] = 0 \/ Header + q.len =< Mtu[ie] THEN Send(<<q>>, ie, hop)
       ELSE IF q.id \in DontFragment THEN Lose(q)
       ELSE Send(Fragments(q, FragmentLength(Mtu[ie])), ie, hop)

\* The TTL is counted down first; that it got negative is what drops it
FragmentAndSend(p, ie, hop) ==
    IF ie # Loopback /\ p.ttl = 0 THEN Lose(p)
    ELSE LET q == IF ie = Loopback THEN p ELSE [p EXCEPT !.ttl = @ - 1]
         IN IF Mtu[ie] = 0 \/ Header + q.len =< Mtu[ie] THEN Send(<<q>>, ie, hop)
            ELSE IF q.id \in DontFragment THEN Lose(q)
            ELSE Send(Fragments(q, FragmentLength(Mtu[ie])), ie, hop)

PostRouting(p, ie, hop, v) ==
    Hooked("POSTROUTING", p, ie, hop, v, FragmentAndSend(p, ie, hop))

\* A copy to each of a set of interfaces
PostRoutingAll(p, ies, v) ==
    LET plans == {PostRouting(p, ie, Wire, v) : ie \in ies}
    IN [Nothing EXCEPT
          !.loop = IF Loopback \in ies THEN PostRouting(p, Loopback, Wire, v).loop ELSE <<>>,
          !.wire = UNION {plan.wire : plan \in plans},
          !.hook = UNION {plan.hook : plan \in plans},
          !.lost = UNION {plan.lost : plan \in plans}]

-----------------------------------------------------------------------------
(* Routing *)

RouteUnicastPacket(p, from, route, v) ==
    IF route = NoRoute THEN Lose(p)
    ELSE IF from = HL THEN PostRouting(p, route.ie, route.hop, v)
    ELSE Hooked("FORWARD", p, route.ie, route.hop, v,
                PostRouting(p, route.ie, route.hop, v))

RouteLocalBroadcastPacket(p, route, v) ==
    IF route # NoRoute THEN PostRouting(p, route.ie, Wire, v)
    ELSE IF ForceBroadcast THEN PostRoutingAll(p, Ifaces, v) ELSE Lose(p)

\* The interface asked for, that of a route, or some other; a copy loops back,
\* also when there is none and the datagram is dropped
MulticastOut(p, route, v) ==
    IF route = NoRoute THEN [PostRoutingAll(p, {Loopback}, v) EXCEPT !.lost = @ \cup {p}]
    ELSE IF route.ie = Loopback THEN PostRouting(p, Loopback, Wire, v)
    ELSE PostRoutingAll(p, {Loopback, route.ie}, v)

DatagramLocalOut(p, route, v) ==
    CASE Kind[p.id] \in {"multicast", "linklocal"} -> MulticastOut(p, route, v)
      [] Kind[p.id] = "local" -> PostRouting(p, Loopback, Wire, v)
      [] Kind[p.id] \in {"limited", "subnet"} -> RouteLocalBroadcastPacket(p, route, v)
      [] OTHER -> RouteUnicastPacket(p, HL, route, v)

\* Only copies go out; the TTL threshold of an interface is 0
ForwardMulticastPacket(p, from, v) ==
    IF MRouteIn[p.id] # from \/ p.ttl = 0 THEN Nothing
    ELSE PostRoutingAll(p, MRouteOuts[p.id] \ {from}, v)

MulticastIn(p, from, v) ==
    LET on == IF ~IPForward \/ Kind[p.id] = "linklocal" THEN Nothing
              ELSE ForwardMulticastPacket(p, from, v)
    IN IF from \in Joined[p.id] THEN [on EXCEPT !.local = {p}] ELSE on

\* A broadcast to the subnet of another interface is sent there too
BroadcastIn(p, from, v) ==
    LET on == IF Kind[p.id] = "subnet" /\ Subnet[p.id] # from /\ IPForward
                THEN PostRouting(p, Subnet[p.id], Wire, v) ELSE Nothing
    IN [on EXCEPT !.local = {p}]

PreroutingFinish(p, from, route, v) ==
    IF from = Loopback \/ Kind[p.id] = "local" THEN Deliver(p)
    ELSE IF Kind[p.id] \in {"multicast", "linklocal"} THEN MulticastIn(p, from, v)
    ELSE IF Kind[p.id] \in {"limited", "subnet"} THEN BroadcastIn(p, from, v)
    ELSE IF ~IPForward THEN Lose(p)
    ELSE RouteUnicastPacket(p, from, route, v)

\* endService of a packet of a higher layer or of an interface
Handle(p, from, route, v) ==
    IF from = HL
      THEN Hooked("LOCALOUT", p, HL, Wire, v, DatagramLocalOut(p, route, v))
      ELSE Hooked("PREROUTING", p, from, Wire, v, PreroutingFinish(p, from, route, v))

-----------------------------------------------------------------------------
(* Local delivery *)

IsFragment(p) == p.off # 0 \/ p.more

\* The fragments of the datagram of p in the buffer `buf', and p
Parts(p, buf) == {f \in buf : f.id = p.id} \cup {p}

\* A mutant: the last fragment completes the datagram whatever came before
CompletesLastSeen(p, buf) == \E f \in Parts(p, buf) : ~f.more

\* ReassemblyBuffer: the parts reach from byte 0 to the last fragment
Completes(p, buf) ==
    /\ \E f \in Parts(p, buf) : f.off = 0
    /\ \E f \in Parts(p, buf) : ~f.more
    /\ \A f \in Parts(p, buf) : f.more => \E g \in Parts(p, buf) : g.off = f.off + f.len

\* IPv4FragBuf::addFragment gives the datagram its full length again
Whole(p, buf) ==
    LET last == CHOOSE f \in Parts(p, buf) : ~f.more
    IN [p EXCEPT !.off = 0, !.len = last.off + last.len, !.more = FALSE]

\* The buffers that timed out are purged when a fragment comes
Kept(stale) == {f \in fragbuf : f.id \notin stale}

\* reassembleAndDeliver of the pieces `ps' (one or none)
ReassembleAndDeliver(ps, v, stale) ==
    LET buf == Kept(stale)
        parts == {p \in ps : IsFragment(p)}
        whole == {Whole(p, buf) : p \in {q \in parts : Completes(q, buf)}}
    IN [fragbuf |-> {f \in buf \cup parts : \A w \in whole : w.id # f.id},
        up      |-> {p \in whole \cup (ps \ parts) : v["LOCALIN"] = "ACCEPT"},
        hook    |-> {Entry(p, "LOCALIN", HL, Wire) :
                       p \in {q \in whole \cup (ps \ parts) : v["LOCALIN"] = "QUEUE"}},
        lost    |-> {p \in whole \cup (ps \ parts) : v["LOCALIN"] \in {"DROP", "STOLEN"}}]

-----------------------------------------------------------------------------
(* Sending *)

\* sendDatagramToOutput of a plan to its next hop
SendDatagramToOutput(plan) ==
    LET hop == plan.hop
    IN IF plan.send = <<>> THEN UNCHANGED <<out, pending, arp, retries>>
       ELSE IF arp[hop] = "known"
         THEN /\ out' = [out EXCEPT ![hop] = @ \o plan.send]
              /\ UNCHANGED <<pending, arp, retries>>
         ELSE /\ pending' = [pending EXCEPT ![hop] = @ \o plan.send]
              /\ arp' = [arp EXCEPT ![hop] = "pending"]
              /\ retries' = [retries EXCEPT ![hop] = IF arp[hop] = "pending" THEN @ ELSE 0]
              /\ UNCHANGED out

\* What is delivered has a protocol that registered; the rest goes to ICMP
Registered(ps) == {p \in ps : Protocol[p.id] \in mapping}

\* A plan carried out, with the entry or entries `done' of the hooks' queue
Carry(plan, v, stale, rest, done) ==
    LET in == ReassembleAndDeliver(plan.local, v, stale)
    IN /\ (\A p \in plan.local : ~IsFragment(p)) => stale = {}
       /\ queue' = rest \o [k \in DOMAIN plan.loop |->
                              [p |-> plan.loop[k], from |-> Loopback]]
       /\ SendDatagramToOutput(plan)
       /\ fragbuf' = in.fragbuf
       /\ delivered' = delivered \cup Registered(in.up)
       /\ hooked' = (hooked \ done) \cup plan.hook \cup in.hook
       /\ gone' = gone \cup plan.lost \cup plan.wire \cup in.lost
                       \cup (in.up \ Registered(in.up)) \cup (fragbuf \ Kept(stale))

-----------------------------------------------------------------------------
(* Actions *)

\* A packet reaches handleMessage; interfaces and transports of a node that is
\* down pass nothing on
Arrive(x) ==
    /\ up
    /\ x \in todo
    /\ Cardinality(Inputs \ todo) < MaxInputs
    /\ todo' = todo \ {x}
    /\ queue' = Append(queue, x)
    /\ UNCHANGED <<up, pending, arp, retries, hooked, fragbuf, mapping, out, delivered, gone>>

Stale == SUBSET {f.id : f \in fragbuf}

\* The service of the packet in front ends
EndService ==
    /\ up
    /\ queue # <<>>
    /\ \E v \in HookVerdicts, stale \in Stale, route \in Routes[Head(queue).p.id] :
          Carry(Handle(Head(queue).p, Head(queue).from, route, v), v, stale, Tail(queue), {})
    /\ UNCHANGED <<up, todo, mapping>>

\* Where the processing of a queued datagram goes on
Resume(x, route, v) ==
    CASE x.at = "LOCALOUT"    -> DatagramLocalOut(x.p, route, v)
      [] x.at = "PREROUTING"  -> PreroutingFinish(x.p, x.ie, route, v)
      [] x.at = "FORWARD"     -> PostRouting(x.p, x.ie, x.hop, v)
      [] x.at = "POSTROUTING" -> FragmentAndSend(x.p, x.ie, x.hop)
      [] x.at = "LOCALIN"     -> Nothing

\* reinjectQueuedDatagram, by a hook of a node that is up
Reinject(x) ==
    /\ up
    /\ x \in hooked
    /\ IF x.at = "LOCALIN"
         THEN /\ delivered' = delivered \cup Registered({x.p})
              /\ gone' = gone \cup ({x.p} \ Registered({x.p}))
              /\ hooked' = hooked \ {x}
              /\ UNCHANGED <<queue, pending, arp, retries, fragbuf, out>>
         ELSE \E v \in HookVerdicts, stale \in Stale, route \in Routes[x.p.id] :
                Carry(Resume(x, route, v), v, stale, queue, {x})
    /\ UNCHANGED <<up, todo, mapping>>

DropQueued(x) ==
    /\ x \in hooked
    /\ hooked' = hooked \ {x}
    /\ gone' = gone \cup {x.p}
    /\ UNCHANGED <<up, todo, queue, pending, arp, retries, fragbuf, mapping, out, delivered>>

RegisterProtocol(protocol) ==
    /\ protocol \notin mapping
    /\ mapping' = mapping \cup {protocol}
    /\ UNCHANGED <<up, todo, queue, pending, arp, retries, hooked, fragbuf, out, delivered, gone>>

\* A mutant: the packet that came last goes out first
CompletedBackwards(hop) ==
    /\ out' = [out EXCEPT ![hop] = @ \o Reverse(pending[hop])]
    /\ pending' = [pending EXCEPT ![hop] = <<>>]

ArpResolutionCompleted(hop) ==
    /\ out' = [out EXCEPT ![hop] = @ \o pending[hop]]
    /\ pending' = [pending EXCEPT ![hop] = <<>>]

\* processARPPacket of a reply, or of a request that makes or updates an entry
ArpPacket(hop) ==
    /\ up
    /\ arp' = [arp EXCEPT ![hop] = "known"]
    /\ retries' = [retries EXCEPT ![hop] = 0]
    /\ ArpResolutionCompleted(hop)
    /\ UNCHANGED <<up, todo, queue, hooked, fragbuf, mapping, delivered, gone>>

\* lastUpdate + cacheTimeout passes
ArpExpires(hop) ==
    /\ arp[hop] = "known"
    /\ arp' = [arp EXCEPT ![hop] = "expired"]
    /\ UNCHANGED <<up, todo, queue, pending, retries, hooked, fragbuf, mapping, out,
                   delivered, gone>>

ArpResolutionTimedOut(hop) ==
    /\ gone' = gone \cup Range(pending[hop])
    /\ pending' = [pending EXCEPT ![hop] = <<>>]

\* A mutant: a retry does not count
RequestTimedOutUncounted(hop) ==
    /\ arp[hop] = "pending"
    /\ IF retries[hop] + 1 < RetryCount
         THEN UNCHANGED <<retries, arp, pending, gone>>
         ELSE /\ arp' = [arp EXCEPT ![hop] = "none"]
              /\ retries' = [retries EXCEPT ![hop] = 0]
              /\ ArpResolutionTimedOut(hop)
    /\ UNCHANGED <<up, todo, queue, hooked, fragbuf, mapping, out, delivered>>

\* requestTimedOut: ask again, or give the entry and its packets up
RequestTimedOut(hop) ==
    /\ arp[hop] = "pending"
    /\ IF retries[hop] + 1 < RetryCount
         THEN /\ retries' = [retries EXCEPT ![hop] = @ + 1]
              /\ UNCHANGED <<arp, pending, gone>>
         ELSE /\ arp' = [arp EXCEPT ![hop] = "none"]
              /\ retries' = [retries EXCEPT ![hop] = 0]
              /\ ArpResolutionTimedOut(hop)
    /\ UNCHANGED <<up, todo, queue, hooked, fragbuf, mapping, out, delivered>>

Waiting == {queue[k].p : k \in DOMAIN queue} \cup UNION {Range(pending[h]) : h \in Hops}

\* A mutant: the packets that wait for ARP outlive the node
FlushQueueOnly ==
    /\ queue' = <<>>
    /\ gone' = gone \cup {queue[k].p : k \in DOMAIN queue}
    /\ UNCHANGED pending

\* flush leaves the hooks' queue and the fragment buffer as they are
Flush ==
    /\ queue' = <<>>
    /\ pending' = [h \in Hops |-> <<>>]
    /\ gone' = gone \cup Waiting

\* A shutdown or a crash stops IP and ARP in one event
Stop ==
    /\ up
    /\ up' = FALSE
    /\ Flush
    /\ arp' = [h \in Hops |-> "none"]
    /\ retries' = [h \in Hops |-> 0]
    /\ UNCHANGED <<todo, hooked, fragbuf, mapping, out, delivered>>

Start ==
    /\ ~up
    /\ up' = TRUE
    /\ UNCHANGED <<todo, queue, pending, arp, retries, hooked, fragbuf, mapping, out,
                   delivered, gone>>

Init ==
    /\ up = TRUE
    /\ todo = Inputs
    /\ queue = <<>>
    /\ pending = [h \in Hops |-> <<>>]
    /\ arp = [h \in Hops |-> "none"]
    /\ retries = [h \in Hops |-> 0]
    /\ hooked = {}
    /\ fragbuf = {}
    /\ mapping = {}
    /\ out = [h \in Hops |-> <<>>]
    /\ delivered = {}
    /\ gone = {}

Next ==
    \/ \E x \in todo : Arrive(x)
    \/ EndService
    \/ \E x \in hooked : Reinject(x) \/ DropQueued(x)
    \/ \E protocol \in Protocols : RegisterProtocol(protocol)
    \/ \E h \in Hops : ArpPacket(h) \/ ArpExpires(h) \/ RequestTimedOut(h)
    \/ Stop
    \/ Start

Spec == Init /\ [][Next]_vars

\* Service ends after procDelay and the ARP timer fires: both are events that
\* the simulator has scheduled. That a reply comes is not assumed.
Fairness == WF_vars(EndService) /\ \A h \in Hops : WF_vars(RequestTimedOut(h))

FairSpec == Spec /\ Fairness

-----------------------------------------------------------------------------
(* Properties *)

Item == [p: Piece, from: Ifaces \cup {HL}]

\* Every field keeps its type; a TTL is never negative.
TypeOK ==
    /\ up \in BOOLEAN
    /\ todo \subseteq Item
    /\ queue \in Seq(Item)
    /\ pending \in [Hops -> Seq(Piece)]
    /\ arp \in [Hops -> {"none", "pending", "known", "expired"}]
    /\ retries \in [Hops -> 0 .. RetryCount - 1]
    /\ hooked \subseteq [p: Piece, at: HookPoints, ie: Ifaces \cup {HL}, hop: Hops \cup {Wire}]
    /\ fragbuf \subseteq Piece
    /\ mapping \subseteq Protocols
    /\ out \in [Hops -> Seq(Piece)]
    /\ delivered \subseteq Piece
    /\ gone \subseteq Piece

\* Datagrams wait for a next hop only while ARP is at work on it, and a node
\* that is down holds none: a resolved address never meets a queue that is not
\* empty (the assertion of sendDatagramToOutput), nothing waits for an answer
\* that nobody asks for, and a start finds the service queue empty (the one of
\* start), through expiry, failure, crash and restart.
PendingAwaitsArp ==
    /\ \A h \in Hops : pending[h] # <<>> => arp[h] = "pending"
    /\ ~up => queue = <<>>

\* Where the pieces of datagram d are, each place by its own name
Places(d) ==
    {x \in {<<"todo", y, y.p>> : y \in todo}
             \cup {<<"queue", k, queue[k].p>> : k \in DOMAIN queue}
             \cup {<<"hooked", y, y.p>> : y \in hooked}
             \cup {<<"fragbuf", p, p>> : p \in fragbuf}
             \cup {<<"delivered", p, p>> : p \in delivered}
             \cup {<<"gone", p, p>> : p \in gone}
             \cup (UNION {{<<"pending", <<h, k>>, pending[h][k]>> : k \in DOMAIN pending[h]}
                             : h \in Hops})
             \cup (UNION {{<<"out", <<h, k>>, out[h][k]>> : k \in DOMAIN out[h]} : h \in Hops})
       : x[3].id = d}

Holds(p, byte) == p.off =< byte /\ byte < p.off + p.len

\* Every byte of a unicast datagram is in one place at every time: however it is
\* cut up, cut up again, queued by hooks, reassembled, purged or flushed, none
\* is lost without account, and none is sent or delivered twice.
EveryByteOnce ==
    \A x \in Inputs : Kind[x.p.id] \in {"unicast", "local"} =>
        \A byte \in x.p.off .. x.p.off + x.p.len - 1 :
            Cardinality({y \in Places(x.p.id) : Holds(y[3], byte)}) = 1

\* Datagrams for one next hop leave in the order they were routed in: what was
\* sent there, and then what waits for its address, grows only at the end,
\* unless what waits is dropped.
NoOvertaking ==
    [][\A h \in Hops :
         \/ IsPrefix(out[h] \o pending[h], out'[h] \o pending'[h])
         \/ out'[h] = out[h] /\ pending'[h] = <<>>]_vars

\* The node settles again and again: whatever ARP does not answer, nothing waits
\* for good in the service queue or for the address of a next hop.
EventuallyIdle == []<>(queue = <<>> /\ \A h \in Hops : pending[h] = <<>>)
=============================================================================
