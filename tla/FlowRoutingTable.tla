--------------------------- MODULE FlowRoutingTable ---------------------------
(***************************************************************************)
(* The routing table of a FlowRouter: IFlowRoutingTable, which keeps the   *)
(* routes, the addresses of the interfaces and the router id, and          *)
(* ECMPRoutingTable, which answers a lookup for a flow and remembers the   *)
(* answer.                                                                 *)
(*                                                                         *)
(* A route is an object: an element of RouteIds stands for its address in  *)
(* memory, which the allocator may hand out again once the route is        *)
(* deleted, so that a cache that still points there is a dangling pointer. *)
(* The vector `routes' is kept as the function of the ids to their routes; *)
(* its order is the one routeLessThan gives by netmask and destination.    *)
(* What orders it further (administrative distance and metric) decides     *)
(* nothing here, since a lookup re-sorts the candidates by gateway.        *)
(* Addresses are numbers of AddrBits bits, netmasks are prefix lengths and *)
(* 0 is the unspecified address.                                           *)
(***************************************************************************)
EXTENDS Naturals, FiniteSets

CONSTANTS
    AddrBits,      \* width of an address
    Ifaces,        \* the interfaces the node may have
    Loopback,      \* the loopback interface, lo0
    Configs,       \* the <<address, prefix length>> pairs an interface may get
    InitConf,      \* the configuration of every interface at first
    Flows,         \* the keys of the routing cache
    Dest,          \* the destination address of each flow
    Hash,          \* murmur3_32 of each flow with the seed of this router
    ManualRoutes,  \* the routes a user or protocol may add
    FileRoutes,    \* those of the routing file
    RouteIds,      \* addresses of route objects
    MaxManual,     \* bound: routes that are not interface routes
    MRouteIds,     \* addresses of multicast route objects
    MRoutes,       \* the multicast routes a protocol may add
    RouterIdParam, \* the routerId parameter: an address, or 0 for "auto"
    None           \* NULL

Address == 0 .. (2^AddrBits - 1)
Unspecified == 0
Length == 0 .. AddrBits

VARIABLES
    ift,         \* the interfaces in the interface table
    conf,        \* the address and prefix length of each interface
    routes,      \* the unicast routes
    mroutes,     \* the multicast routes
    cache,       \* routingCache: the route each flow was answered with
    localAddrs,  \* localAddresses; empty when not collected
    localBcasts, \* localBroadcastAddresses; empty when not collected
    routerId,
    up           \* the node is up

vars == <<ift, conf, routes, mroutes, cache, localAddrs, localBcasts, routerId, up>>

\* IPv4Address::doAnd of an address and the netmask of a prefix length
Masked(a, l) == a - (a % 2^(AddrBits - l))

Subnet == {Masked(a, l) : a \in Address, l \in Length}

Route == [dest: Subnet, len: Length, gw: Address, iface: Ifaces,
          src: {"MANUAL", "IFACENETMASK"}, valid: BOOLEAN]

MRoute == [group: Nat, inIface: Ifaces \cup {None}, outs: SUBSET Ifaces]

ASSUME RoutingAssumption ==
    /\ AddrBits \in Nat
    /\ Loopback \in Ifaces
    /\ Unspecified \in Address
    /\ Configs \subseteq Address \X Length
    /\ InitConf \in [Ifaces -> Address \X Length]
    /\ Dest \in [Flows -> Address]
    /\ Hash \in [Flows -> Nat]
    /\ ManualRoutes \subseteq Route
    /\ \A e \in ManualRoutes : e.src = "MANUAL" /\ e.valid
    /\ FileRoutes \subseteq ManualRoutes
    /\ \A e \in FileRoutes : Masked(e.dest, e.len) = e.dest
    /\ MRoutes \subseteq MRoute
    /\ RouterIdParam \in Address
    /\ None \notin RouteIds \cup Ifaces \cup Route \cup MRoute

\* Arithmetic that the prover has no axioms for
ASSUME PowersOfTwo ==
    \A l \in Length :
        /\ 2^l \in Nat \ {0} /\ 2^(AddrBits - l) \in Nat \ {0}
        /\ 2^AddrBits = 2^l * 2^(AddrBits - l)

-----------------------------------------------------------------------------
(* Addresses *)

\* IPv4Address::maskedAddrAreEqual
Matches(a, r) == Masked(a, r.len) = Masked(r.dest, r.len)

\* A mutant: the address after the last one of the subnet
BroadcastBeyond(a, l) == Masked(a, l) + 2^(AddrBits - l)

\* IPv4Address::makeBroadcastAddress
Broadcast(a, l) == Masked(a, l) + 2^(AddrBits - l) - 1

AddrOf(i) == conf[i][1]
LenOf(i) == conf[i][2]

-----------------------------------------------------------------------------
(* The order of the vector and the search of a route *)

InTable(t) == {r \in RouteIds : t[r] # None}
ValidRoutes(t) == {r \in InTable(t) : t[r].valid}

\* Longer prefixes first, then by destination
RouteLessThan(a, b) ==
    \/ a.len > b.len
    \/ a.len = b.len /\ a.dest < b.dest

Matching(t, d) == {r \in ValidRoutes(t) : Matches(d, t[r])}

\* The matching routes that come first in the vector
FirstMatching(t, d) ==
    {r \in Matching(t, d) : \A q \in Matching(t, d) : ~RouteLessThan(t[q], t[r])}

\* A mutant: the loop does not stop at a route to another destination
BestRoutesAll(t, d) == Matching(t, d)

\* The matching routes that the loop collects: from the first match up to the
\* first valid route that has another destination. Netmasks are not compared.
BestRoutes(t, d) ==
    {r \in Matching(t, d) :
        \A m \in FirstMatching(t, d) :
            /\ t[r].dest = t[m].dest
            /\ \A v \in ValidRoutes(t) :
                  t[v].dest # t[m].dest => ~(/\ RouteLessThan(t[m], t[v])
                                             /\ RouteLessThan(t[v], t[r]))}

\* Sorted and made unique by gateway, then indexed by the hash of the flow.
\* Which of two routes with one gateway survives is up to std::sort.
Picked(t, best, h) ==
    LET gateways == {t[r].gw : r \in best}
    IN {r \in best :
          Cardinality({g \in gateways : g < t[r].gw}) = h % Cardinality(gateways)}

DefaultRoutes(t) == {r \in ValidRoutes(t) : t[r].len = 0}

\* getDefaultRoute: the last one; interface routes have the smaller distance
LastDefault(t) ==
    {r \in DefaultRoutes(t) :
        \/ t[r].src = "MANUAL"
        \/ \A q \in DefaultRoutes(t) : t[q].src # "MANUAL"}

\* What addRoute accepts
RouteOK(e) ==
    /\ e.len # 0 => Masked(e.dest, e.len) # Unspecified
    /\ Masked(e.dest, e.len) = e.dest
    /\ e.iface \in ift

\* internalAddRoute: a default route replaces the default route there was
Inserted(t, id, e) ==
    IF e.len = 0 /\ DefaultRoutes(t) # {}
      THEN {[t EXCEPT ![d] = None, ![id] = e] : d \in LastDefault(t)}
      ELSE {[t EXCEPT ![id] = e]}

-----------------------------------------------------------------------------
(* The caches *)

EmptyCache == [f \in Flows |-> None]

\* A mutant: only the routing cache is cleared
InvalidateRoutingOnly == cache' = EmptyCache /\ UNCHANGED <<localAddrs, localBcasts>>

InvalidateCache ==
    /\ cache' = EmptyCache
    /\ localAddrs' = {}
    /\ localBcasts' = {}

KeepCache == UNCHANGED <<cache, localAddrs, localBcasts>>

\* A cached answer is used as long as its route is valid
Trusted(f) == cache[f] # None /\ routes[cache[f]].valid

\* findBestMatchingRoute. A flow for which there is no route is not remembered.
Lookup(f) ==
    /\ ~Trusted(f)
    /\ \E r \in Picked(routes, BestRoutes(routes, Dest[f]), Hash[f]) :
          cache' = [cache EXCEPT ![f] = r]
    /\ UNCHANGED <<ift, conf, routes, mroutes, localAddrs, localBcasts, routerId, up>>

InterfaceAddrs == {AddrOf(i) : i \in ift}
InterfaceBcasts == {Broadcast(AddrOf(i), LenOf(i)) : i \in ift} \ {Unspecified}

IsLocalAddress ==
    /\ localAddrs = {}
    /\ localAddrs' = InterfaceAddrs
    /\ UNCHANGED <<ift, conf, routes, mroutes, cache, localBcasts, routerId, up>>

IsLocalBroadcastAddress ==
    /\ localBcasts = {}
    /\ localBcasts' = InterfaceBcasts
    /\ UNCHANGED <<ift, conf, routes, mroutes, cache, localAddrs, routerId, up>>

-----------------------------------------------------------------------------
(* Routes *)

Manual(t) == {r \in InTable(t) : t[r].src = "MANUAL"}

AddRoute(id, e) ==
    /\ up
    /\ routes[id] = None
    /\ Cardinality(Manual(routes)) < MaxManual
    /\ RouteOK(e)
    /\ routes' \in Inserted(routes, id, e)
    /\ InvalidateCache
    /\ UNCHANGED <<ift, conf, mroutes, routerId, up>>

\* removeRoute and deleteRoute: either way the table forgets the object
RemoveRoute(id) ==
    /\ id \in Manual(routes)
    /\ routes' = [routes EXCEPT ![id] = None]
    /\ InvalidateCache
    /\ UNCHANGED <<ift, conf, mroutes, routerId, up>>

\* routeChanged for the fields that order the vector (destination, netmask or
\* metric, which leaves the other two as they are): taken out, put in again
RouteKeyChanged(id, e) ==
    /\ id \in Manual(routes)
    /\ RouteOK(e)
    /\ e.gw = routes[id].gw /\ e.iface = routes[id].iface /\ routes[id].valid
    /\ routes' \in Inserted([routes EXCEPT ![id] = None], id, e)
    /\ InvalidateCache
    /\ UNCHANGED <<ift, conf, mroutes, routerId, up>>

\* routeChanged for the other fields, of which gateway and interface matter:
\* listeners are told, the table and its caches stay
RouteFieldChanged(id, e) ==
    /\ id \in Manual(routes)
    /\ e.iface \in ift
    /\ e.dest = routes[id].dest /\ e.len = routes[id].len
    /\ routes' = [routes EXCEPT ![id].gw = e.gw, ![id].iface = e.iface]
    /\ KeepCache
    /\ UNCHANGED <<ift, conf, mroutes, routerId, up>>

\* isValid of a subclass of IPv4Route turns false, as with an expiry time
RouteExpires(id) ==
    /\ id \in Manual(routes)
    /\ routes[id].valid
    /\ routes' = [routes EXCEPT ![id].valid = FALSE]
    /\ KeepCache
    /\ UNCHANGED <<ift, conf, mroutes, routerId, up>>

Purge ==
    /\ InTable(routes) # ValidRoutes(routes)
    /\ routes' = [r \in RouteIds |-> IF r \in ValidRoutes(routes) THEN routes[r] ELSE None]
    /\ InvalidateCache
    /\ UNCHANGED <<ift, conf, mroutes, routerId, up>>

-----------------------------------------------------------------------------
(* Interfaces *)

NetmaskRoute(i, c) ==
    [dest |-> Masked(c[1], c[2]), len |-> c[2], gw |-> Unspecified, iface |-> i,
     src |-> "IFACENETMASK", valid |-> TRUE]

\* A mutant: of several routes to delete, an index that is not stepped back
\* passes over one
WithoutNetmaskRoutesShifted(t) ==
    LET old == InTable(t) \ Manual(t)
    IN [r \in RouteIds |->
          IF r \in Manual(t) \/ (Cardinality(old) > 1 /\ r = CHOOSE o \in old : TRUE)
            THEN t[r] ELSE None]

WithoutNetmaskRoutes(t) ==
    [r \in RouteIds |-> IF r \in Manual(t) THEN t[r] ELSE None]

\* The interfaces that get a route to their subnet
NeedRoute(is, c) == {i \in is : c[i][2] # AddrBits}

\* The tables that follow when new objects hold the routes `new', a function
Placed(t, new) ==
    {[r \in RouteIds |-> IF \E n \in DOMAIN new : at[n] = r
                           THEN new[CHOOSE n \in DOMAIN new : at[n] = r] ELSE t[r]] :
       at \in {a \in [DOMAIN new -> RouteIds \ InTable(t)] :
                  \A m, n \in DOMAIN new : a[m] = a[n] => m = n}}

\* updateNetmaskRoutes for the interfaces `is' configured as `c'
NetmaskRoutes(t, is, c) ==
    Placed(WithoutNetmaskRoutes(t), [i \in NeedRoute(is, c) |-> NetmaskRoute(i, c[i])])

UpdateNetmaskRoutes(t, is, c) == routes' \in NetmaskRoutes(t, is, c) /\ InvalidateCache

\* NF_INTERFACE_CREATED, then its first configuration
CreateInterface(i, c) ==
    /\ i \notin ift
    /\ ift' = ift \cup {i}
    /\ conf' = [conf EXCEPT ![i] = c]
    /\ UpdateNetmaskRoutes(routes, ift', conf')
    /\ UNCHANGED <<mroutes, routerId, up>>

\* NF_INTERFACE_IPv4CONFIG_CHANGED
ConfigureInterface(i, c) ==
    /\ i \in ift
    /\ conf' = [conf EXCEPT ![i] = c]
    /\ UpdateNetmaskRoutes(routes, ift, conf')
    /\ UNCHANGED <<ift, mroutes, routerId, up>>

\* NF_INTERFACE_STATE_CHANGED and NF_INTERFACE_CONFIG_CHANGED
InterfaceStateChanged ==
    /\ InvalidateCache
    /\ UNCHANGED <<ift, conf, routes, mroutes, routerId, up>>

UsesInterface(m, i) == m # None /\ (m.inIface = i \/ i \in m.outs)

\* A mutant: the routes out of the interface stay
MRoutesWithoutIn(i) ==
    [m \in MRouteIds |-> IF mroutes[m] # None /\ mroutes[m].inIface = i
                           THEN None ELSE mroutes[m]]

\* Multicast routes from the interface go, those to it lose that output
MRoutesWithout(i) ==
    [m \in MRouteIds |->
        IF mroutes[m] = None \/ mroutes[m].inIface = i THEN None
        ELSE [mroutes[m] EXCEPT !.outs = @ \ {i}]]

RoutesWithout(i) ==
    [r \in RouteIds |-> IF routes[r] # None /\ routes[r].iface = i THEN None ELSE routes[r]]

\* A mutant: only a multicast route that goes or changes clears the caches
ChangedMulticast(i) == \E m \in MRouteIds : UsesInterface(mroutes[m], i)

\* `changed' of deleteInterfaceRoutes
Changed(i) ==
    \/ \E r \in InTable(routes) : routes[r].iface = i
    \/ \E m \in MRouteIds : UsesInterface(mroutes[m], i)

\* NF_INTERFACE_DELETED: deleteInterfaceRoutes. The caches stay when no route
\* used the interface.
DeleteInterface(i) ==
    /\ i \in ift \ {Loopback}
    /\ ift' = ift \ {i}
    /\ routes' = RoutesWithout(i)
    /\ mroutes' = MRoutesWithout(i)
    /\ IF Changed(i) THEN InvalidateCache ELSE KeepCache
    /\ UNCHANGED <<conf, routerId, up>>

-----------------------------------------------------------------------------
(* Multicast routes *)

\* What addMulticastRoute accepts: the output is never the input
MRouteOK(e) ==
    /\ {e.inIface} \ {None} \subseteq ift \ {Loopback}
    /\ e.outs \subseteq ift \ {Loopback}
    /\ e.inIface \notin e.outs

AddMulticastRoute(id, e) ==
    /\ mroutes[id] = None
    /\ MRouteOK(e)
    /\ mroutes' = [mroutes EXCEPT ![id] = e]
    /\ InvalidateCache
    /\ UNCHANGED <<ift, conf, routes, routerId, up>>

\* removeMulticastRoute and deleteMulticastRoute
RemoveMulticastRoute(id) ==
    /\ mroutes[id] # None
    /\ mroutes' = [mroutes EXCEPT ![id] = None]
    /\ InvalidateCache
    /\ UNCHANGED <<ift, conf, routes, routerId, up>>

\* multicastRouteChanged for origin, netmask, group or metric
MulticastRouteChanged(id, e) ==
    /\ mroutes[id] # None
    /\ e.inIface = mroutes[id].inIface
    /\ MRouteOK([e EXCEPT !.outs = mroutes[id].outs])
    /\ mroutes' = [mroutes EXCEPT ![id].group = e.group]
    /\ InvalidateCache
    /\ UNCHANGED <<ift, conf, routes, routerId, up>>

-----------------------------------------------------------------------------
(* The life of the node *)

\* configureRouterId: the highest address, unless there is an id already
ConfiguredId(id, is, c) ==
    IF id # Unspecified THEN id
    ELSE CHOOSE a \in {c[i][1] : i \in is \ {Loopback}} \cup {Unspecified} :
            \A i \in is \ {Loopback} : c[i][1] =< a

\* An id that no interface has goes to the loopback
ConfiguredLoopback(id, is, c) ==
    IF id = Unspecified \/ \E i \in is : c[i][1] = id THEN c
    ELSE [c EXCEPT ![Loopback] = <<id, AddrBits>>]

\* The routing file first, then the routes of the interfaces
StartTables(t, is, c) ==
    UNION {NetmaskRoutes(u, is, c) :
             u \in Placed(t, [e \in {f \in FileRoutes : f.iface \in is} |-> e])}

\* Stages 0 to 3 of initialize
Init ==
    /\ ift = Ifaces
    /\ conf = ConfiguredLoopback(RouterIdParam, Ifaces, InitConf)
    /\ routerId = ConfiguredId(RouterIdParam, Ifaces, InitConf)
    /\ routes \in StartTables([r \in RouteIds |-> None], Ifaces, conf)
    /\ mroutes = [m \in MRouteIds |-> None]
    /\ cache = EmptyCache
    /\ localAddrs = {}
    /\ localBcasts = {}
    /\ up = TRUE

\* handleOperationStage of a NodeStartOperation
Start ==
    /\ ~up
    /\ up' = TRUE
    /\ routerId' = ConfiguredId(routerId, ift, conf)
    /\ conf' = ConfiguredLoopback(routerId, ift, conf)
    /\ routes' \in StartTables(routes, ift, conf')
    /\ InvalidateCache
    /\ UNCHANGED <<ift, mroutes>>

\* A shutdown or a crash removes the unicast routes one by one
Stop ==
    /\ up
    /\ up' = FALSE
    /\ routes' = [r \in RouteIds |-> None]
    /\ IF InTable(routes) # {} THEN InvalidateCache ELSE KeepCache
    /\ UNCHANGED <<ift, conf, mroutes, routerId>>

RouteStep ==
    \/ \E id \in RouteIds, e \in ManualRoutes :
          AddRoute(id, e) \/ RouteKeyChanged(id, e) \/ RouteFieldChanged(id, e)
    \/ \E id \in RouteIds : RemoveRoute(id) \/ RouteExpires(id)
    \/ Purge

InterfaceStep ==
    \/ \E i \in Ifaces : DeleteInterface(i)
    \/ \E i \in Ifaces \ {Loopback}, c \in Configs :
          CreateInterface(i, c) \/ ConfigureInterface(i, c)
    \/ InterfaceStateChanged

MulticastStep ==
    \/ \E id \in MRouteIds, e \in MRoutes :
          AddMulticastRoute(id, e) \/ MulticastRouteChanged(id, e)
    \/ \E id \in MRouteIds : RemoveMulticastRoute(id)

LookupStep ==
    \/ \E f \in Flows : Lookup(f)
    \/ IsLocalAddress
    \/ IsLocalBroadcastAddress

Next == RouteStep \/ InterfaceStep \/ MulticastStep \/ LookupStep \/ Start \/ Stop

Spec == Init /\ [][Next]_vars

-----------------------------------------------------------------------------
(* Properties *)

\* Every field of the routing table keeps its type.
TypeOK ==
    /\ ift \subseteq Ifaces
    /\ conf \in [Ifaces -> Address \X Length]
    /\ routes \in [RouteIds -> Route \cup {None}]
    /\ mroutes \in [MRouteIds -> MRoute \cup {None}]
    /\ cache \in [Flows -> RouteIds \cup {None}]
    /\ localAddrs \subseteq Address
    /\ localBcasts \subseteq Address
    /\ routerId \in Address
    /\ up \in BOOLEAN

\* The cached pointer of a flow is never dangling: whatever was added, changed,
\* removed or reconfigured since the lookup, the route is still in the table.
CacheNeverDangles ==
    \A f \in Flows : cache[f] # None => routes[cache[f]] # None

\* A cached route that is still trusted leads to the destination of its flow,
\* and no valid route to another destination has a longer prefix of it: the
\* answer of before is as good as a search of the table would be now.
CachedIsBest ==
    \A f \in Flows : Trusted(f) =>
        LET best == routes[cache[f]]
        IN /\ Matches(Dest[f], best)
           /\ \A q \in Matching(routes, Dest[f]) :
                 routes[q].len =< best.len \/ routes[q].dest = best.dest

\* The collected addresses are those of the interfaces: a packet for this node
\* is never forwarded because of an address that came later, and none for
\* another node is taken for local, save for the address of an interface that
\* was deleted.
AddressCachesExact ==
    LET gone == Ifaces \ ift
    IN /\ localAddrs # {} =>
             /\ InterfaceAddrs \subseteq localAddrs
             /\ localAddrs \subseteq InterfaceAddrs \cup {AddrOf(i) : i \in gone}
       /\ localBcasts # {} =>
             /\ InterfaceBcasts \subseteq localBcasts
             /\ localBcasts \subseteq
                   InterfaceBcasts \cup {Broadcast(AddrOf(i), LenOf(i)) : i \in gone}

\* The table follows the interfaces. No route, unicast or multicast, leads over
\* an interface that was deleted. An interface route is the one of its interface
\* as configured now, and while the node is up none is missing, except that a
\* manual default route may have replaced that of an unconfigured interface.
RoutesFollowInterfaces ==
    /\ \A r \in InTable(routes) :
          LET i == routes[r].iface
          IN i \in ift /\ (r \in Manual(routes) \/ routes[r] = NetmaskRoute(i, conf[i]))
    /\ \A m \in MRouteIds : \A i \in Ifaces : UsesInterface(mroutes[m], i) => i \in ift
    /\ up => \A i \in NeedRoute(ift, conf) :
                \/ \E r \in InTable(routes) : routes[r] = NetmaskRoute(i, conf[i])
                \/ LenOf(i) = 0
=============================================================================
