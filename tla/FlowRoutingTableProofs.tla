------------------------ MODULE FlowRoutingTableProofs ------------------------
(***************************************************************************)
(* What is true of the routing table of a router with any number of        *)
(* interfaces, routes and flows.  A cached route is never dangling, since  *)
(* every step that forgets a route forgets the cache too, except where     *)
(* nothing was forgotten; and the table follows the interfaces.            *)
(***************************************************************************)
EXTENDS FlowRoutingTable, FiniteFacts

Table == [RouteIds -> Route \cup {None}]

\* A configuration is one of those given, or that of the router id on lo0
Config == (Address \X Length) \cup {<<routerId, AddrBits>>}

\* The types the properties rest on. Those of the addresses follow at the end:
\* they take the arithmetic of powers of two.
Types ==
  /\ ift \subseteq Ifaces
  /\ conf \in [Ifaces -> Config]
  /\ routes \in Table
  /\ mroutes \in [MRouteIds -> MRoute \cup {None}]
  /\ cache \in [Flows -> RouteIds \cup {None}]

Inv == Types /\ CacheNeverDangles /\ RoutesFollowInterfaces

-----------------------------------------------------------------------------
(* The tables that the helpers return.                                      *)

\* A route to the subnet of an interface is a route.
LEMMA NetmaskRouteType ==
  ASSUME NEW i \in Ifaces, NEW c \in Address \X Length
  PROVE  /\ NetmaskRoute(i, c) \in Route
         /\ NetmaskRoute(i, c).iface = i
         /\ NetmaskRoute(i, c).len = c[2]
         /\ NetmaskRoute(i, c).src = "IFACENETMASK"
         /\ NetmaskRoute(i, c).valid = TRUE
<1>1. Masked(c[1], c[2]) \in Subnet
  BY DEF Subnet
<1> QED BY <1>1, RoutingAssumption DEF NetmaskRoute, Route

\* New objects take no place of an old one, and none of them is left out.
LEMMA PlacedTable ==
  ASSUME NEW t \in Table, NEW D, NEW new \in [D -> Route], NEW u \in Placed(t, new)
  PROVE  /\ u \in Table
         /\ \A r \in InTable(t) : r \in InTable(u) /\ u[r] = t[r]
         /\ \A r \in InTable(u) : (r \in InTable(t) /\ u[r] = t[r])
                                    \/ \E n \in D : u[r] = new[n]
         /\ \A n \in D : \E r \in InTable(u) : u[r] = new[n]
<1>1. PICK at \in [D -> RouteIds \ InTable(t)] :
        /\ \A m, n \in D : at[m] = at[n] => m = n
        /\ u = [r \in RouteIds |->
                  IF \E n \in D : at[n] = r
                    THEN new[CHOOSE n \in D : at[n] = r] ELSE t[r]]
  BY DEF Placed
<1>2. ASSUME NEW r \in RouteIds, NEW n \in D, at[n] = r
      PROVE  u[r] = new[n]
  <2>1. (CHOOSE k \in D : at[k] = r) = n
    BY <1>1, <1>2
  <2> QED BY <1>1, <1>2, <2>1
<1>3. ASSUME NEW r \in RouteIds, \A n \in D : at[n] # r
      PROVE  u[r] = t[r]
  BY <1>1, <1>3
<1>4. \A n \in D : new[n] \in Route /\ new[n] # None
  BY RoutingAssumption
<1>5. \A r \in RouteIds : u[r] \in Route \cup {None}
  BY <1>2, <1>3, <1>4 DEF Table
<1>6. u \in Table
  BY <1>1, <1>5 DEF Table
<1>7. \A r \in InTable(t) : r \in InTable(u) /\ u[r] = t[r]
  BY <1>1, <1>3 DEF InTable
<1>8. \A r \in InTable(u) : (r \in InTable(t) /\ u[r] = t[r])
                              \/ \E n \in D : u[r] = new[n]
  BY <1>2, <1>3 DEF InTable
<1>9. \A n \in D : \E r \in InTable(u) : u[r] = new[n]
  BY <1>1, <1>2, <1>4 DEF InTable
<1> QED BY <1>6, <1>7, <1>8, <1>9

\* internalAddRoute puts the route in and takes out at most a default route.
LEMMA InsertedTable ==
  ASSUME NEW t \in Table, NEW id \in RouteIds, NEW e \in Route,
         NEW u \in Inserted(t, id, e)
  PROVE  /\ u \in Table
         /\ u[id] = e
         /\ \A r \in RouteIds \ {id} :
               u[r] = t[r] \/ (u[r] = None /\ t[r] # None /\ t[r].len = 0)
<1>1. CASE u = [t EXCEPT ![id] = e]
  BY <1>1 DEF Table
<1>2. ASSUME NEW d \in LastDefault(t), u = [t EXCEPT ![d] = None, ![id] = e]
      PROVE  /\ u \in Table
             /\ u[id] = e
             /\ \A r \in RouteIds \ {id} :
                   u[r] = t[r] \/ (u[r] = None /\ t[r] # None /\ t[r].len = 0)
  <2>1. d \in RouteIds /\ t[d] # None /\ t[d].len = 0
    BY DEF LastDefault, DefaultRoutes, ValidRoutes, InTable
  <2> QED BY <1>2, <2>1 DEF Table
<1> QED BY <1>1, <1>2 DEF Inserted

\* updateNetmaskRoutes leaves the manual routes and one route per interface.
LEMMA NetmaskRoutesTable ==
  ASSUME NEW t \in Table, NEW is \in SUBSET Ifaces, NEW c,
         \A i \in NeedRoute(is, c) : c[i] \in Address \X Length,
         NEW u \in NetmaskRoutes(t, is, c)
  PROVE  /\ u \in Table
         /\ \A r \in InTable(u) :
               \/ r \in Manual(t) /\ u[r] = t[r]
               \/ \E i \in NeedRoute(is, c) : u[r] = NetmaskRoute(i, c[i])
         /\ \A i \in NeedRoute(is, c) :
               \E r \in InTable(u) : u[r] = NetmaskRoute(i, c[i])
<1> DEFINE w == WithoutNetmaskRoutes(t)
           D == NeedRoute(is, c)
           new == [i \in D |-> NetmaskRoute(i, c[i])]
<1>1. w \in Table
  BY DEF WithoutNetmaskRoutes, Table
<1>2. \A r \in InTable(w) : r \in Manual(t) /\ w[r] = t[r]
  BY DEF WithoutNetmaskRoutes, InTable, Manual
<1>3. new \in [D -> Route]
  <2>1. \A i \in D : i \in Ifaces /\ c[i] \in Address \X Length
    BY DEF NeedRoute
  <2>2. \A i \in D : NetmaskRoute(i, c[i]) \in Route
    BY <2>1, NetmaskRouteType
  <2> QED BY <2>2
<1>4. u \in Placed(w, new)
  BY DEF NetmaskRoutes
<1> HIDE DEF w, new, D
<1>5. /\ u \in Table
      /\ \A r \in InTable(u) : (r \in InTable(w) /\ u[r] = w[r])
                                 \/ \E n \in D : u[r] = new[n]
      /\ \A n \in D : \E r \in InTable(u) : u[r] = new[n]
  BY <1>1, <1>3, <1>4, PlacedTable
<1>6. \A n \in D : new[n] = NetmaskRoute(n, c[n])
  BY DEF new
<1>7. D = NeedRoute(is, c)
  BY DEF D
<1> QED BY <1>2, <1>5, <1>6, <1>7

-----------------------------------------------------------------------------
(* RoutesFollowInterfaces, said of any table.                               *)

Follows(t, is, c, on) ==
  /\ \A r \in InTable(t) :
        /\ t[r].iface \in is
        /\ r \in Manual(t) \/ t[r] = NetmaskRoute(t[r].iface, c[t[r].iface])
  /\ on => \A i \in NeedRoute(is, c) :
              \/ \E r \in InTable(t) : t[r] = NetmaskRoute(i, c[i])
              \/ c[i][2] = 0

MFollows(ms, is) ==
  \A m \in MRouteIds : \A i \in Ifaces : UsesInterface(ms[m], i) => i \in is

\* The property is that of the table and the interfaces as they are.
LEMMA FollowsInterfaces ==
  RoutesFollowInterfaces <=> Follows(routes, ift, conf, up) /\ MFollows(mroutes, ift)
BY DEF RoutesFollowInterfaces, Follows, MFollows, LenOf

\* Manual routes may come, change and go, and default routes may go.
LEMMA ManualChange ==
  ASSUME NEW t \in Table, NEW u \in Table, NEW is \in SUBSET Ifaces, NEW c, NEW on,
         Follows(t, is, c, on),
         \A i \in NeedRoute(is, c) : c[i] \in Address \X Length,
         \A r \in RouteIds :
            \/ u[r] = t[r]
            \/ u[r] = None /\ t[r] # None /\ (t[r].src = "MANUAL" \/ t[r].len = 0)
            \/ /\ u[r] # None /\ u[r].src = "MANUAL" /\ u[r].iface \in is
               /\ t[r] = None \/ t[r].src = "MANUAL"
  PROVE  Follows(u, is, c, on)
<1>1. ASSUME NEW r \in InTable(u)
      PROVE  /\ u[r].iface \in is
             /\ r \in Manual(u) \/ u[r] = NetmaskRoute(u[r].iface, c[u[r].iface])
  <2>1. CASE u[r] = t[r]
    BY <2>1 DEF Follows, InTable, Manual
  <2>2. CASE u[r] # t[r]
    BY <2>2 DEF InTable, Manual
  <2> QED BY <2>1, <2>2
<1>2. ASSUME on, NEW i \in NeedRoute(is, c), c[i][2] # 0
      PROVE  \E r \in InTable(u) : u[r] = NetmaskRoute(i, c[i])
  <2>1. PICK r \in InTable(t) : t[r] = NetmaskRoute(i, c[i])
    BY <1>2 DEF Follows
  <2>2. t[r].src = "IFACENETMASK" /\ t[r].len # 0
    BY <1>2, <2>1 DEF NetmaskRoute
  <2>3. r \in RouteIds /\ t[r] # None
    BY DEF InTable
  <2>4. u[r] = t[r]
    BY <2>2, <2>3
  <2> QED BY <2>1, <2>3, <2>4 DEF InTable
<1> QED BY <1>1, <1>2 DEF Follows

\* updateNetmaskRoutes brings the table in line with the interfaces.
LEMMA NetmaskRoutesFollow ==
  ASSUME NEW t \in Table, NEW is \in SUBSET Ifaces, NEW c,
         \A i \in NeedRoute(is, c) : c[i] \in Address \X Length,
         \A r \in Manual(t) : t[r].iface \in is,
         NEW u \in NetmaskRoutes(t, is, c)
  PROVE  u \in Table /\ Follows(u, is, c, TRUE)
<1>1. /\ u \in Table
      /\ \A r \in InTable(u) :
            \/ r \in Manual(t) /\ u[r] = t[r]
            \/ \E i \in NeedRoute(is, c) : u[r] = NetmaskRoute(i, c[i])
      /\ \A i \in NeedRoute(is, c) :
            \E r \in InTable(u) : u[r] = NetmaskRoute(i, c[i])
  BY NetmaskRoutesTable
<1>2. ASSUME NEW r \in InTable(u)
      PROVE  /\ u[r].iface \in is
             /\ r \in Manual(u) \/ u[r] = NetmaskRoute(u[r].iface, c[u[r].iface])
  <2>1. CASE r \in Manual(t) /\ u[r] = t[r]
    BY <2>1 DEF Manual
  <2>2. ASSUME NEW i \in NeedRoute(is, c), u[r] = NetmaskRoute(i, c[i])
        PROVE  u[r].iface = i /\ i \in is
    BY <2>2 DEF NeedRoute, NetmaskRoute
  <2> QED BY <1>1, <2>1, <2>2
<1> QED BY <1>1, <1>2 DEF Follows

\* A table with the routes of the file and of the interfaces, as a start makes it.
LEMMA StartTablesFollow ==
  ASSUME NEW t \in Table, NEW is \in SUBSET Ifaces, NEW c,
         \A i \in NeedRoute(is, c) : c[i] \in Address \X Length,
         \A r \in Manual(t) : t[r].iface \in is,
         NEW u \in StartTables(t, is, c)
  PROVE  u \in Table /\ Follows(u, is, c, TRUE)
<1> DEFINE D == {f \in FileRoutes : f.iface \in is}
           new == [e \in D |-> e]
<1>1. PICK w \in Placed(t, new) : u \in NetmaskRoutes(w, is, c)
  BY DEF StartTables
<1>2. new \in [D -> Route]
  BY RoutingAssumption
<1>3. /\ w \in Table
      /\ \A r \in InTable(w) : (r \in InTable(t) /\ w[r] = t[r])
                                 \/ \E n \in D : w[r] = new[n]
  <2> HIDE DEF D, new
  <2> QED BY <1>1, <1>2, PlacedTable
<1>4. \A r \in Manual(w) : w[r].iface \in is
  BY <1>3 DEF Manual
<1> QED BY <1>1, <1>3, <1>4, NetmaskRoutesFollow

-----------------------------------------------------------------------------
(* The initial states.                                                      *)

\* What configureRouterId leaves is a configuration of the types.
LEMMA RouterIdConfig ==
  ASSUME NEW id, NEW c \in [Ifaces -> (Address \X Length) \cup {<<id, AddrBits>>}],
         NEW is, NEW d, NEW new,
         d = ConfiguredLoopback(id, is, c), new = ConfiguredId(id, is, c)
  PROVE  d \in [Ifaces -> (Address \X Length) \cup {<<new, AddrBits>>}]
<1>1. CASE id = Unspecified
  <2>1. d = c
    BY <1>1 DEF ConfiguredLoopback
  <2>2. <<id, AddrBits>> \in Address \X Length
    BY <1>1, RoutingAssumption DEF Length
  <2> QED BY <2>1, <2>2
<1>2. CASE id # Unspecified
  <2>1. new = id
    BY <1>2 DEF ConfiguredId
  <2>2. d = c \/ d = [c EXCEPT ![Loopback] = <<id, AddrBits>>]
    BY DEF ConfiguredLoopback
  <2> QED BY <2>1, <2>2, RoutingAssumption
<1> QED BY <1>1, <1>2

\* An interface that gets a route is configured with an address.
LEMMA NeedRouteConfig ==
  ASSUME NEW id, NEW c \in [Ifaces -> (Address \X Length) \cup {<<id, AddrBits>>}],
         NEW is \in SUBSET Ifaces
  PROVE  \A i \in NeedRoute(is, c) : c[i] \in Address \X Length
BY DEF NeedRoute

\* Init establishes the invariant.
LEMMA InitInv == Init => Inv
<1> SUFFICES ASSUME Init PROVE Inv
  OBVIOUS
<1> DEFINE none == [r \in RouteIds |-> None]
<1>1. conf \in [Ifaces -> Config]
  BY RouterIdConfig, RoutingAssumption DEF Init, Config
<1>2. \A i \in NeedRoute(Ifaces, conf) : conf[i] \in Address \X Length
  BY <1>1, NeedRouteConfig DEF Config
<1>3. none \in Table /\ \A r \in Manual(none) : none[r].iface \in Ifaces
  BY DEF Table, Manual, InTable
<1>4. routes \in StartTables(none, Ifaces, conf)
  BY DEF Init
<1>5. routes \in Table /\ Follows(routes, Ifaces, conf, TRUE)
  <2> HIDE DEF none
  <2> QED BY <1>2, <1>3, <1>4, StartTablesFollow
<1>6. Types
  BY <1>1, <1>5 DEF Init, Types, EmptyCache
<1>7. CacheNeverDangles
  BY DEF Init, CacheNeverDangles, EmptyCache
<1>8. MFollows(mroutes, ift)
  BY DEF Init, MFollows, UsesInterface
<1>9. Follows(routes, ift, conf, up)
  BY <1>5 DEF Init
<1> QED BY <1>6, <1>7, <1>8, <1>9, FollowsInterfaces DEF Inv

-----------------------------------------------------------------------------
(* The steps.                                                               *)

\* The same of the next state.
LEMMA FollowsInterfacesNext ==
  RoutesFollowInterfaces' <=>
    Follows(routes', ift', conf', up') /\ MFollows(mroutes', ift')
BY DEF RoutesFollowInterfaces, Follows, MFollows, LenOf

\* An empty cache does not dangle.
LEMMA InvalidateCacheStep ==
  ASSUME InvalidateCache
  PROVE  cache' \in [Flows -> RouteIds \cup {None}] /\ CacheNeverDangles'
BY DEF InvalidateCache, EmptyCache, CacheNeverDangles

\* A step of the manual routes either clears the cache or forgets no route.
LEMMA ManualStep ==
  ASSUME Inv, routes' \in Table, UNCHANGED <<ift, conf, mroutes, routerId, up>>,
         \A r \in RouteIds :
            \/ routes'[r] = routes[r]
            \/ /\ routes'[r] = None /\ routes[r] # None
               /\ routes[r].src = "MANUAL" \/ routes[r].len = 0
            \/ /\ routes'[r] # None /\ routes'[r].src = "MANUAL"
               /\ routes'[r].iface \in ift
               /\ routes[r] = None \/ routes[r].src = "MANUAL",
         \/ InvalidateCache
         \/ cache' = cache /\ \A r \in RouteIds : routes[r] # None => routes'[r] # None
  PROVE  Inv'
<1>1. Types'
  BY InvalidateCacheStep DEF Inv, Types, Config
<1>2. CacheNeverDangles'
  BY InvalidateCacheStep DEF Inv, Types, CacheNeverDangles
<1>3. \A i \in NeedRoute(ift, conf) : conf[i] \in Address \X Length
  BY NeedRouteConfig DEF Inv, Types, Config
<1>4. Follows(routes, ift, conf, up) /\ MFollows(mroutes, ift)
  BY FollowsInterfaces DEF Inv
<1>5. Follows(routes', ift, conf, up)
  BY <1>3, <1>4, ManualChange DEF Inv, Types
<1> QED BY <1>1, <1>2, <1>4, <1>5, FollowsInterfacesNext DEF Inv

\* addRoute: a new manual route, and perhaps a default route less.
LEMMA AddRouteStep ==
  ASSUME Inv, NEW id \in RouteIds, NEW e \in ManualRoutes, AddRoute(id, e)
  PROVE  Inv'
<1>1. /\ e \in Route /\ e # None /\ e.src = "MANUAL" /\ e.iface \in ift
      /\ routes[id] = None /\ routes \in Table
  BY RoutingAssumption DEF AddRoute, RouteOK, Inv, Types
<1>2. /\ routes' \in Table /\ routes'[id] = e
      /\ \A r \in RouteIds \ {id} :
            \/ routes'[r] = routes[r]
            \/ routes'[r] = None /\ routes[r] # None /\ routes[r].len = 0
  BY <1>1, InsertedTable DEF AddRoute
<1> QED BY <1>1, <1>2, ManualStep DEF AddRoute

\* removeRoute and deleteRoute clear the cache.
LEMMA RemoveRouteStep ==
  ASSUME Inv, NEW id \in RouteIds, RemoveRoute(id)
  PROVE  Inv'
<1>1. routes \in Table /\ routes[id] # None /\ routes[id].src = "MANUAL"
  BY DEF RemoveRoute, Manual, InTable, Inv, Types
<1>2. routes' \in Table /\ routes' = [routes EXCEPT ![id] = None]
  BY <1>1 DEF RemoveRoute, Table
<1>3. \A r \in RouteIds : routes'[r] = IF r = id THEN None ELSE routes[r]
  BY <1>1, <1>2 DEF Table
<1> QED BY <1>1, <1>2, <1>3, ManualStep DEF RemoveRoute

\* A route that is taken out and put in again clears the cache.
LEMMA RouteKeyChangedStep ==
  ASSUME Inv, NEW id \in RouteIds, NEW e \in ManualRoutes, RouteKeyChanged(id, e)
  PROVE  Inv'
<1> DEFINE t == [routes EXCEPT ![id] = None]
<1>1. /\ e \in Route /\ e # None /\ e.src = "MANUAL" /\ e.iface \in ift
      /\ routes[id] # None /\ routes[id].src = "MANUAL" /\ routes \in Table
  BY RoutingAssumption
  DEF RouteKeyChanged, RouteOK, Manual, InTable, Inv, Types
<1>2. t \in Table /\ \A r \in RouteIds \ {id} : t[r] = routes[r]
  BY <1>1 DEF Table
<1>3. routes' \in Inserted(t, id, e)
  BY DEF RouteKeyChanged
<1> HIDE DEF t
<1>4. /\ routes' \in Table /\ routes'[id] = e
      /\ \A r \in RouteIds \ {id} :
            \/ routes'[r] = t[r]
            \/ routes'[r] = None /\ t[r] # None /\ t[r].len = 0
  BY <1>1, <1>2, <1>3, InsertedTable
<1> QED BY <1>1, <1>2, <1>4, ManualStep DEF RouteKeyChanged

\* A new gateway keeps the cache, and the route stays in the table.
LEMMA RouteFieldChangedStep ==
  ASSUME Inv, NEW id \in RouteIds, NEW e \in ManualRoutes, RouteFieldChanged(id, e)
  PROVE  Inv'
<1>1. /\ e \in Route /\ e.iface \in ift /\ routes[id] \in Route
      /\ routes[id] # None /\ routes[id].src = "MANUAL" /\ routes \in Table
  BY RoutingAssumption DEF RouteFieldChanged, Manual, InTable, Inv, Types, Table
<1>2. PICK new : /\ new = [routes[id] EXCEPT !.gw = e.gw, !.iface = e.iface]
                 /\ routes' = [routes EXCEPT ![id] = new]
  BY <1>1 DEF RouteFieldChanged, Table
<1>3. new \in Route /\ new.iface = e.iface /\ new.src = "MANUAL"
  BY <1>1, <1>2 DEF Route
<1>4. /\ routes' \in Table
      /\ \A r \in RouteIds : routes'[r] = IF r = id THEN new ELSE routes[r]
  BY <1>1, <1>2, <1>3 DEF Table
<1>5. new # None
  BY <1>3, RoutingAssumption
<1> QED BY <1>1, <1>3, <1>4, <1>5, ManualStep DEF RouteFieldChanged, KeepCache

\* An expired route stays in the table until it is purged.
LEMMA RouteExpiresStep ==
  ASSUME Inv, NEW id \in RouteIds, RouteExpires(id)
  PROVE  Inv'
<1>1. /\ routes[id] \in Route /\ routes[id].iface \in ift
      /\ routes[id] # None /\ routes[id].src = "MANUAL" /\ routes \in Table
  BY DEF RouteExpires, Manual, InTable, Inv, Types, Table, RoutesFollowInterfaces
<1>2. PICK new : /\ new = [routes[id] EXCEPT !.valid = FALSE]
                 /\ routes' = [routes EXCEPT ![id] = new]
  BY <1>1 DEF RouteExpires, Table
<1>3. new \in Route /\ new.iface = routes[id].iface /\ new.src = "MANUAL"
  BY <1>1, <1>2 DEF Route
<1>4. /\ routes' \in Table
      /\ \A r \in RouteIds : routes'[r] = IF r = id THEN new ELSE routes[r]
  BY <1>1, <1>2, <1>3 DEF Table
<1>5. new # None
  BY <1>3, RoutingAssumption
<1> QED BY <1>1, <1>3, <1>4, <1>5, ManualStep DEF RouteExpires, KeepCache

\* An interface route is always valid, so that only manual ones are purged.
LEMMA PurgeStep ==
  ASSUME Inv, Purge
  PROVE  Inv'
<1>1. ASSUME NEW r \in InTable(routes)
      PROVE  r \in Manual(routes) \/ routes[r].valid
  <2>1. CASE r \in Manual(routes)
    BY <2>1
  <2>2. CASE routes[r] = NetmaskRoute(routes[r].iface, conf[routes[r].iface])
    <3>1. NetmaskRoute(routes[r].iface, conf[routes[r].iface]).valid
      BY Zenon DEF NetmaskRoute
    <3> QED BY <2>2, <3>1, Zenon
  <2> QED BY <2>1, <2>2 DEF Inv, RoutesFollowInterfaces
<1>2. /\ routes' \in Table
      /\ \A r \in RouteIds :
            routes'[r] = IF r \in ValidRoutes(routes) THEN routes[r] ELSE None
  BY DEF Purge, Inv, Types, Table
<1>3. \A r \in RouteIds :
         \/ routes'[r] = routes[r]
         \/ routes'[r] = None /\ routes[r] # None /\ routes[r].src = "MANUAL"
  BY <1>1, <1>2 DEF ValidRoutes, InTable, Manual
<1> QED BY <1>2, <1>3, ManualStep DEF Purge

\* A step that only changes what is cached, and caches only routes of the table.
LEMMA LookupOnlyStep ==
  ASSUME Inv, UNCHANGED <<ift, conf, routes, mroutes, routerId, up>>,
         cache' \in [Flows -> RouteIds \cup {None}], CacheNeverDangles'
  PROVE  Inv'
<1>1. Types'
  BY DEF Inv, Types, Config
<1>2. RoutesFollowInterfaces'
  BY FollowsInterfaces, FollowsInterfacesNext DEF Inv
<1> QED BY <1>1, <1>2 DEF Inv

\* A lookup answers with a route of the table.
LEMMA LookupStepInv ==
  ASSUME Inv, LookupStep
  PROVE  Inv'
<1>1. CASE IsLocalAddress \/ IsLocalBroadcastAddress
  BY <1>1, LookupOnlyStep
  DEF IsLocalAddress, IsLocalBroadcastAddress, Inv, Types, CacheNeverDangles
<1>2. ASSUME NEW f \in Flows, Lookup(f)
      PROVE  Inv'
  <2>1. PICK r \in Picked(routes, BestRoutes(routes, Dest[f]), Hash[f]) :
          cache' = [cache EXCEPT ![f] = r]
    BY <1>2 DEF Lookup
  <2>2. r \in RouteIds /\ routes[r] # None
    BY <2>1 DEF Picked, BestRoutes, Matching, ValidRoutes, InTable
  <2>3. cache' \in [Flows -> RouteIds \cup {None}] /\ CacheNeverDangles'
    BY <1>2, <2>1, <2>2 DEF Lookup, Inv, Types, CacheNeverDangles
  <2> QED BY <1>2, <2>3, LookupOnlyStep DEF Lookup
<1> QED BY <1>1, <1>2 DEF LookupStep

\* The routes of the interfaces are made anew.
LEMMA ConfiguredStep ==
  ASSUME Inv, NEW c \in Configs, NEW i \in Ifaces,
         ift' = ift \/ ift' = ift \cup {i}, conf' = [conf EXCEPT ![i] = c],
         UpdateNetmaskRoutes(routes, ift', conf'), UNCHANGED <<mroutes, routerId, up>>
  PROVE  Inv'
<1>1. ift' \subseteq Ifaces /\ ift \subseteq ift' /\ conf' \in [Ifaces -> Config]
  BY RoutingAssumption DEF Inv, Types, Config
<1>2. \A j \in NeedRoute(ift', conf') : conf'[j] \in Address \X Length
  BY <1>1, NeedRouteConfig DEF Config
<1>3. \A r \in Manual(routes) : routes[r].iface \in ift'
  BY <1>1 DEF Inv, RoutesFollowInterfaces, Manual
<1>4. routes' \in Table /\ Follows(routes', ift', conf', TRUE)
  BY <1>1, <1>2, <1>3, NetmaskRoutesFollow DEF UpdateNetmaskRoutes, Inv, Types
<1>5. cache' \in [Flows -> RouteIds \cup {None}] /\ CacheNeverDangles'
  BY InvalidateCacheStep DEF UpdateNetmaskRoutes
<1>6. Types'
  BY <1>1, <1>4, <1>5 DEF Inv, Types, Config
<1>7. MFollows(mroutes', ift')
  BY <1>1, FollowsInterfaces DEF Inv, MFollows
<1>8. Follows(routes', ift', conf', up')
  BY <1>4 DEF Follows
<1> QED BY <1>5, <1>6, <1>7, <1>8, FollowsInterfacesNext DEF Inv

\* What deleteInterfaceRoutes leaves does not use the interface; and when it
\* changed nothing, nothing was forgotten.
LEMMA DeleteInterfaceStep ==
  ASSUME Inv, NEW i \in Ifaces, DeleteInterface(i)
  PROVE  Inv'
<1>1. /\ ift' = ift \ {i} /\ ift' \subseteq Ifaces
      /\ conf' = conf /\ conf \in [Ifaces -> Config] /\ routerId' = routerId
      /\ routes \in Table /\ mroutes \in [MRouteIds -> MRoute \cup {None}]
      /\ up' = up
  BY DEF DeleteInterface, Inv, Types
<1>2. /\ routes' \in Table
      /\ \A r \in RouteIds : routes'[r] =
            IF routes[r] # None /\ routes[r].iface = i THEN None ELSE routes[r]
  BY <1>1 DEF DeleteInterface, RoutesWithout, Table
<1>3. ASSUME NEW m \in MRouteIds
      PROVE  /\ mroutes'[m] \in MRoute \cup {None}
             /\ \A j \in Ifaces : UsesInterface(mroutes'[m], j) =>
                   j # i /\ UsesInterface(mroutes[m], j)
  <2>1. CASE mroutes[m] = None \/ mroutes[m].inIface = i
    BY <2>1 DEF DeleteInterface, MRoutesWithout, UsesInterface
  <2>2. CASE ~(mroutes[m] = None \/ mroutes[m].inIface = i)
    <3>1. /\ mroutes[m] \in MRoute
          /\ mroutes'[m] = [mroutes[m] EXCEPT !.outs = @ \ {i}]
      BY <1>1, <2>2 DEF DeleteInterface, MRoutesWithout
    <3>2. /\ mroutes'[m] \in MRoute
          /\ mroutes'[m].inIface = mroutes[m].inIface
          /\ mroutes'[m].outs = mroutes[m].outs \ {i}
      BY <3>1 DEF MRoute
    <3> QED BY <2>2, <3>2 DEF UsesInterface
  <2> QED BY <2>1, <2>2
<1>4. mroutes' \in [MRouteIds -> MRoute \cup {None}]
  BY <1>3 DEF DeleteInterface, MRoutesWithout
<1>5. cache' \in [Flows -> RouteIds \cup {None}] /\ CacheNeverDangles'
  <2>1. CASE InvalidateCache
    BY <2>1, InvalidateCacheStep
  <2>2. CASE ~Changed(i) /\ KeepCache
    BY <1>2, <2>2 DEF Changed, KeepCache, InTable, Inv, Types, CacheNeverDangles
  <2> QED BY <2>1, <2>2 DEF DeleteInterface
<1>6. Types'
  BY <1>1, <1>2, <1>4, <1>5 DEF Types, Config
<1>7. MFollows(mroutes', ift')
  BY <1>1, <1>3, FollowsInterfaces DEF Inv, MFollows
<1>8. Follows(routes', ift', conf', up')
  <2>1. Follows(routes, ift, conf, up)
    BY FollowsInterfaces DEF Inv
  <2>2. \A r \in InTable(routes') :
          /\ r \in InTable(routes) /\ routes'[r] = routes[r] /\ routes[r].iface # i
          /\ r \in Manual(routes) => r \in Manual(routes')
    BY <1>2 DEF InTable, Manual
  <2>3. \A j \in NeedRoute(ift', conf') : j \in NeedRoute(ift, conf) /\ j # i
    BY <1>1 DEF NeedRoute
  <2>4. \A r \in InTable(routes) : routes[r].iface # i =>
           r \in InTable(routes') /\ routes'[r] = routes[r]
    BY <1>2 DEF InTable
  <2>5. \A j \in Ifaces : NetmaskRoute(j, conf[j]).iface = j
    BY DEF NetmaskRoute
  <2>6. \A j \in NeedRoute(ift, conf) : j \in Ifaces
    BY DEF NeedRoute, Inv, Types
  <2>7. ASSUME NEW r \in InTable(routes')
        PROVE  /\ routes'[r].iface \in ift'
               /\ \/ r \in Manual(routes')
                  \/ routes'[r] = NetmaskRoute(routes'[r].iface, conf'[routes'[r].iface])
    <3>1. /\ routes[r].iface \in ift
          /\ r \in Manual(routes)
               \/ routes[r] = NetmaskRoute(routes[r].iface, conf[routes[r].iface])
      BY <2>1, <2>2 DEF Follows
    <3> QED BY <1>1, <2>2, <3>1
  <2>8. ASSUME up', NEW j \in NeedRoute(ift', conf')
        PROVE  \/ \E r \in InTable(routes') : routes'[r] = NetmaskRoute(j, conf'[j])
               \/ conf'[j][2] = 0
    <3>1. \/ \E r \in InTable(routes) : routes[r] = NetmaskRoute(j, conf[j])
          \/ conf[j][2] = 0
      BY <1>1, <2>1, <2>3, <2>8 DEF Follows
    <3>2. j # i /\ NetmaskRoute(j, conf[j]).iface = j
      BY <2>3, <2>5, <2>6
    <3> QED BY <1>1, <2>4, <3>1, <3>2
  <2> QED BY <2>7, <2>8 DEF Follows
<1> QED BY <1>5, <1>6, <1>7, <1>8, FollowsInterfacesNext DEF Inv

\* Interfaces that come, go or change keep the invariant.
LEMMA InterfaceStepInv ==
  ASSUME Inv, InterfaceStep
  PROVE  Inv'
<1>1. CASE InterfaceStateChanged
  BY <1>1, InvalidateCacheStep, LookupOnlyStep DEF InterfaceStateChanged
<1>2. ASSUME NEW i \in Ifaces, DeleteInterface(i)
      PROVE  Inv'
  BY <1>2, DeleteInterfaceStep
<1>3. ASSUME NEW i \in Ifaces \ {Loopback}, NEW c \in Configs,
             CreateInterface(i, c) \/ ConfigureInterface(i, c)
      PROVE  Inv'
  BY <1>3, ConfiguredStep DEF CreateInterface, ConfigureInterface
<1> QED BY <1>1, <1>2, <1>3 DEF InterfaceStep

\* A multicast route leads over interfaces that are there.
LEMMA MulticastStepInv ==
  ASSUME Inv, MulticastStep
  PROVE  Inv'
<1>1. /\ UNCHANGED <<ift, conf, routes, routerId, up>>
      /\ cache' \in [Flows -> RouteIds \cup {None}] /\ CacheNeverDangles'
  BY InvalidateCacheStep DEF MulticastStep, AddMulticastRoute, RemoveMulticastRoute,
                             MulticastRouteChanged
<1>2. /\ mroutes \in [MRouteIds -> MRoute \cup {None}]
      /\ MFollows(mroutes, ift)
      /\ ift \subseteq Ifaces
  BY FollowsInterfaces DEF Inv, Types
<1>3. /\ mroutes' \in [MRouteIds -> MRoute \cup {None}]
      /\ MFollows(mroutes', ift)
  <2>1. ASSUME NEW id \in MRouteIds, NEW e \in MRoutes, AddMulticastRoute(id, e)
        PROVE  /\ mroutes' \in [MRouteIds -> MRoute \cup {None}]
               /\ MFollows(mroutes', ift)
    <3>1. e \in MRoute /\ mroutes' = [mroutes EXCEPT ![id] = e]
      BY <2>1, RoutingAssumption DEF AddMulticastRoute
    <3>2. \A i \in Ifaces : UsesInterface(e, i) => i \in ift
      BY <2>1, RoutingAssumption DEF AddMulticastRoute, MRouteOK, UsesInterface
    <3> QED BY <1>2, <3>1, <3>2 DEF MFollows
  <2>2. ASSUME NEW id \in MRouteIds, RemoveMulticastRoute(id)
        PROVE  /\ mroutes' \in [MRouteIds -> MRoute \cup {None}]
               /\ MFollows(mroutes', ift)
    BY <1>2, <2>2 DEF RemoveMulticastRoute, MFollows, UsesInterface
  <2>3. ASSUME NEW id \in MRouteIds, NEW e \in MRoutes, MulticastRouteChanged(id, e)
        PROVE  /\ mroutes' \in [MRouteIds -> MRoute \cup {None}]
               /\ MFollows(mroutes', ift)
    <3>1. e.group \in Nat /\ mroutes[id] \in MRoute
      BY <1>2, <2>3, RoutingAssumption DEF MulticastRouteChanged, MRoute
    <3>2. PICK new : /\ new = [mroutes[id] EXCEPT !.group = e.group]
                     /\ mroutes' = [mroutes EXCEPT ![id] = new]
      BY <1>2, <2>3 DEF MulticastRouteChanged
    <3>3. /\ new \in MRoute
          /\ new.inIface = mroutes[id].inIface /\ new.outs = mroutes[id].outs
      BY <3>1, <3>2 DEF MRoute
    <3>4. \A i \in Ifaces : UsesInterface(new, i) => UsesInterface(mroutes[id], i)
      BY <2>3, <3>3 DEF UsesInterface, MulticastRouteChanged
    <3> QED BY <1>2, <3>2, <3>3, <3>4 DEF MFollows
  <2> QED BY <2>1, <2>2, <2>3 DEF MulticastStep
<1>4. Types'
  BY <1>1, <1>3 DEF Inv, Types, Config
<1> QED BY <1>1, <1>3, <1>4, FollowsInterfaces, FollowsInterfacesNext DEF Inv

\* A start puts in the routes of the file and of the interfaces.
LEMMA StartStep ==
  ASSUME Inv, Start
  PROVE  Inv'
<1>1. conf' \in [Ifaces -> Config']
  BY RouterIdConfig DEF Start, Inv, Types, Config
<1>2. /\ ift' = ift /\ ift \subseteq Ifaces /\ mroutes' = mroutes /\ routes \in Table
      /\ \A i \in NeedRoute(ift, conf') : conf'[i] \in Address \X Length
      /\ \A r \in Manual(routes) : routes[r].iface \in ift
  BY <1>1, NeedRouteConfig
  DEF Start, Inv, Types, Config, RoutesFollowInterfaces, Manual
<1>3. routes' \in Table /\ Follows(routes', ift, conf', TRUE)
  BY <1>2, StartTablesFollow DEF Start
<1>4. cache' \in [Flows -> RouteIds \cup {None}] /\ CacheNeverDangles'
  BY InvalidateCacheStep DEF Start
<1>5. Types'
  BY <1>1, <1>2, <1>3, <1>4 DEF Inv, Types
<1>6. Follows(routes', ift', conf', up') /\ MFollows(mroutes', ift')
  BY <1>2, <1>3, FollowsInterfaces DEF Start, Inv
<1> QED BY <1>4, <1>5, <1>6, FollowsInterfacesNext DEF Inv

\* A node that goes down with an empty table has nothing cached.
LEMMA StopStep ==
  ASSUME Inv, Stop
  PROVE  Inv'
<1>1. /\ UNCHANGED <<ift, conf, mroutes, routerId>> /\ up' = FALSE
      /\ routes' \in Table /\ InTable(routes') = {}
  BY DEF Stop, Table, InTable
<1>2. cache' \in [Flows -> RouteIds \cup {None}] /\ CacheNeverDangles'
  <2>1. CASE InvalidateCache
    BY <2>1, InvalidateCacheStep
  <2>2. CASE InTable(routes) = {} /\ KeepCache
    BY <2>2 DEF KeepCache, InTable, Inv, Types, CacheNeverDangles
  <2> QED BY <2>1, <2>2 DEF Stop
<1>3. Types'
  BY <1>1, <1>2 DEF Inv, Types, Config
<1>4. Follows(routes', ift', conf', up') /\ MFollows(mroutes', ift')
  BY <1>1, FollowsInterfaces DEF Inv, Follows
<1> QED BY <1>2, <1>3, <1>4, FollowsInterfacesNext DEF Inv

-----------------------------------------------------------------------------
(* The theorems.                                                            *)

\* Every step keeps the invariant.
LEMMA NextInv == Inv /\ [Next]_vars => Inv'
<1> SUFFICES ASSUME Inv, [Next]_vars PROVE Inv'
  OBVIOUS
<1>1. CASE RouteStep
  BY <1>1, AddRouteStep, RemoveRouteStep, RouteKeyChangedStep, RouteFieldChangedStep,
     RouteExpiresStep, PurgeStep DEF RouteStep
<1>2. CASE InterfaceStep
  BY <1>2, InterfaceStepInv
<1>3. CASE MulticastStep
  BY <1>3, MulticastStepInv
<1>4. CASE LookupStep
  BY <1>4, LookupStepInv
<1>5. CASE Start
  BY <1>5, StartStep
<1>6. CASE Stop
  BY <1>6, StopStep
<1>7. CASE UNCHANGED vars
  BY <1>7, LookupOnlyStep DEF vars, Inv, Types, CacheNeverDangles
<1> QED BY <1>1, <1>2, <1>3, <1>4, <1>5, <1>6, <1>7 DEF Next

\* The invariant holds in every state of every behaviour.
LEMMA InvAlways == Spec => []Inv
BY InitInv, NextInv, PTL DEF Spec

\* The pointer that findBestMatchingRoute finds in its cache and dereferences is
\* that of a route in the table, for any routes, interfaces and flows.
THEOREM CacheIsSafe == Spec => []CacheNeverDangles
<1>1. Inv => CacheNeverDangles
  BY DEF Inv
<1> QED BY <1>1, InvAlways, PTL

\* However interfaces come, go and are configured anew, and the node stops and
\* starts, no route leads over an interface that is gone, and each interface
\* has its own route to its subnet.
THEOREM TableFollows == Spec => []RoutesFollowInterfaces
<1>1. Inv => RoutesFollowInterfaces
  BY DEF Inv
<1> QED BY <1>1, InvAlways, PTL

\* A step that keeps the collected addresses changes no configuration and adds
\* no interface; every other one collects them anew, or clears them.
LEMMA AddressStep ==
  ASSUME ift \subseteq Ifaces, AddressCachesExact, [Next]_vars
  PROVE  AddressCachesExact'
<1>1. CASE localAddrs' = {} /\ localBcasts' = {}
  BY <1>1 DEF AddressCachesExact
<1>2. CASE localAddrs' = localAddrs /\ localBcasts' = localBcasts
           /\ conf' = conf /\ ift' \subseteq ift
  <2> DEFINE A(is) == {conf[i][1] : i \in is}
             B(is) == {Broadcast(conf[i][1], conf[i][2]) : i \in is}
  <2>1. /\ A(ift') \subseteq A(ift)
        /\ A(ift) \subseteq A(ift') \cup A(Ifaces \ ift')
        /\ A(Ifaces \ ift) \subseteq A(Ifaces \ ift')
        /\ B(ift') \subseteq B(ift)
        /\ B(ift) \subseteq B(ift') \cup B(Ifaces \ ift')
        /\ B(Ifaces \ ift) \subseteq B(Ifaces \ ift')
    BY <1>2
  <2>2. /\ InterfaceAddrs = A(ift)
        /\ InterfaceBcasts = B(ift) \ {Unspecified}
        /\ {AddrOf(i) : i \in Ifaces \ ift} = A(Ifaces \ ift)
        /\ {Broadcast(AddrOf(i), LenOf(i)) : i \in Ifaces \ ift} = B(Ifaces \ ift)
    BY DEF InterfaceAddrs, InterfaceBcasts, AddrOf, LenOf
  <2>3. /\ InterfaceAddrs' = A(ift')
        /\ InterfaceBcasts' = B(ift') \ {Unspecified}
        /\ {AddrOf(i)' : i \in Ifaces \ ift'} = A(Ifaces \ ift')
        /\ {Broadcast(AddrOf(i)', LenOf(i)') : i \in Ifaces \ ift'} = B(Ifaces \ ift')
    BY <1>2 DEF InterfaceAddrs, InterfaceBcasts, AddrOf, LenOf
  <2> HIDE DEF A, B
  <2> QED BY <1>2, <2>1, <2>2, <2>3 DEF AddressCachesExact
<1>3. CASE IsLocalAddress
  BY <1>3 DEF IsLocalAddress, AddressCachesExact, InterfaceAddrs, InterfaceBcasts,
              AddrOf, LenOf
<1>4. CASE IsLocalBroadcastAddress
  BY <1>4 DEF IsLocalBroadcastAddress, AddressCachesExact, InterfaceAddrs,
              InterfaceBcasts, AddrOf, LenOf
<1>5. CASE RouteStep
  BY <1>1, <1>2, <1>5
  DEF RouteStep, AddRoute, RouteKeyChanged, RouteFieldChanged, RemoveRoute,
      RouteExpires, Purge, InvalidateCache, KeepCache
<1>6. CASE InterfaceStep
  BY <1>1, <1>2, <1>6
  DEF InterfaceStep, DeleteInterface, CreateInterface, ConfigureInterface,
      UpdateNetmaskRoutes, InterfaceStateChanged, InvalidateCache, KeepCache
<1>7. CASE MulticastStep
  BY <1>1, <1>7
  DEF MulticastStep, AddMulticastRoute, RemoveMulticastRoute, MulticastRouteChanged,
      InvalidateCache
<1>8. CASE Start \/ Stop \/ UNCHANGED vars \/ \E f \in Flows : Lookup(f)
  BY <1>1, <1>2, <1>8 DEF Start, Stop, vars, Lookup, InvalidateCache, KeepCache
<1> QED BY <1>3, <1>4, <1>5, <1>6, <1>7, <1>8 DEF Next, LookupStep

\* No packet for this node is forwarded because of an address that came later,
\* and none for another is taken for local, save for an interface that is gone.
THEOREM AddressesAreExact == Spec => []AddressCachesExact
<1>1. Init => AddressCachesExact
  BY DEF Init, AddressCachesExact
<1>2. Inv /\ AddressCachesExact /\ [Next]_vars => AddressCachesExact'
  BY AddressStep DEF Inv, Types
<1> QED BY <1>1, <1>2, InvAlways, PTL DEF Spec

-----------------------------------------------------------------------------
(***************************************************************************)
(* The routing cache gives the answer that a search of the table would     *)
(* give now.  A search stops at the first matching route, so that one must *)
(* first be shown to be the longest prefix: there is one, since lengths    *)
(* have a smallest element, and it is the only one of its length that      *)
(* matches, since the destinations of routes are masked.                   *)
(***************************************************************************)


\* Destinations have no bits beyond their prefix.
DestsMasked ==
  \A r \in InTable(routes) : Masked(routes[r].dest, routes[r].len) = routes[r].dest

Best == DestsMasked /\ CachedIsBest

-----------------------------------------------------------------------------
(* Arithmetic *)

\* What is left of a number without its remainder leaves no remainder.
LEMMA ModTwice ==
  ASSUME NEW a \in Nat, NEW m \in Nat \ {0}
  PROVE  (a - (a % m)) % m = 0
<1>1. a = m * (a \div m) + (a % m) /\ a \div m \in Nat /\ a % m \in 0 .. m - 1
  OBVIOUS
<1>2. a - (a % m) = m * (a \div m)
  BY <1>1
<1>3. \A q \in Nat : (m * q) % m = 0
  OBVIOUS
<1> QED BY <1>1, <1>2, <1>3

\* To mask an address twice is to mask it once.
LEMMA MaskedTwice ==
  ASSUME NEW a \in Address, NEW l \in Length
  PROVE  Masked(Masked(a, l), l) = Masked(a, l)
<1> DEFINE m == 2^(AddrBits - l)
<1>1. m \in Nat \ {0}
  BY PowersOfTwo
<1>2. a \in Nat
  BY DEF Address
<1> HIDE DEF m
<1>3. (a - (a % m)) % m = 0 /\ a % m \in Int
  BY <1>1, <1>2, ModTwice
<1>4. (a - (a % m)) - ((a - (a % m)) % m) = a - (a % m)
  BY <1>2, <1>3
<1> QED BY <1>4 DEF m, Masked

\* The types of the fields that are compared.
LEMMA RouteFields ==
  ASSUME NEW t \in Table, NEW r \in InTable(t)
  PROVE  /\ r \in RouteIds /\ t[r] \in Route
         /\ t[r].len \in Length /\ t[r].len \in Int
         /\ AddrBits - t[r].len \in Nat
         /\ t[r].dest \in Int
<1>1. r \in RouteIds /\ t[r] \in Route
  BY DEF Table, InTable
<1>2. t[r].len \in Length /\ t[r].dest \in Subnet
  BY <1>1 DEF Route
<1>3. ASSUME NEW a \in Address, NEW l \in Length
      PROVE  Masked(a, l) \in Int
  BY PowersOfTwo DEF Address, Masked
<1> QED BY <1>1, <1>2, <1>3, RoutingAssumption DEF Length, Subnet

-----------------------------------------------------------------------------
(* A search *)

\* When a route matches, the one that comes first has the longest prefix, and
\* the others of that length go to the same destination.
LEMMA LongestFirst ==
  ASSUME Types, DestsMasked, NEW d, Matching(routes, d) # {}
  PROVE  \E m \in FirstMatching(routes, d) : \A q \in Matching(routes, d) :
            /\ routes[q].len <= routes[m].len
            /\ routes[q].len = routes[m].len => routes[q].dest = routes[m].dest
<1> DEFINE M == Matching(routes, d)
           T == {AddrBits - routes[q].len : q \in M}
<1>1. \A q \in M : /\ q \in InTable(routes)
                   /\ Masked(d, routes[q].len) = Masked(routes[q].dest, routes[q].len)
  BY DEF Matching, ValidRoutes, Matches
<1>2. \A q \in M : /\ routes[q].len \in Int /\ routes[q].dest \in Int
                   /\ AddrBits - routes[q].len \in Nat
  BY <1>1, RouteFields DEF Types
<1>3. PICK x \in T : \A y \in T : x <= y
  <2>1. T \in SUBSET Nat /\ T # {}
    BY <1>2
  <2> HIDE DEF T
  <2> QED BY <2>1, LeastElement
<1>4. PICK m \in M : x = AddrBits - routes[m].len
  OBVIOUS
<1>5. \A q \in M : routes[q].len <= routes[m].len
  <2> TAKE q \in M
  <2>1. AddrBits - routes[m].len <= AddrBits - routes[q].len
    BY <1>3, <1>4
  <2> QED BY <1>2, <2>1, RoutingAssumption
<1>6. \A q \in M : routes[q].len = routes[m].len => routes[q].dest = routes[m].dest
  BY <1>1 DEF DestsMasked
<1>7. m \in FirstMatching(routes, d)
  BY <1>2, <1>5, <1>6 DEF FirstMatching, RouteLessThan
<1> QED BY <1>5, <1>6, <1>7

\* What a search answers is as good as any route to another destination.
LEMMA SearchIsBest ==
  ASSUME Types, DestsMasked, NEW d, NEW r \in BestRoutes(routes, d)
  PROVE  /\ Matches(d, routes[r])
         /\ \A q \in Matching(routes, d) :
               routes[q].len <= routes[r].len \/ routes[q].dest = routes[r].dest
<1>1. r \in Matching(routes, d)
  BY DEF BestRoutes
<1>2. PICK m \in FirstMatching(routes, d) : \A q \in Matching(routes, d) :
            /\ routes[q].len <= routes[m].len
            /\ routes[q].len = routes[m].len => routes[q].dest = routes[m].dest
  BY <1>1, LongestFirst
<1>3. /\ routes[r].dest = routes[m].dest
      /\ \A v \in ValidRoutes(routes) : routes[v].dest # routes[m].dest =>
            ~(RouteLessThan(routes[m], routes[v]) /\ RouteLessThan(routes[v], routes[r]))
  BY DEF BestRoutes
<1>4. ASSUME NEW q \in Matching(routes, d), ~(routes[q].len <= routes[r].len),
             routes[q].dest # routes[r].dest
      PROVE  FALSE
  <2>1. m \in Matching(routes, d)
    BY DEF FirstMatching
  <2>2. \A p \in Matching(routes, d) : p \in InTable(routes) /\ p \in ValidRoutes(routes)
    BY DEF Matching, ValidRoutes
  <2>3. routes[q].len \in Int /\ routes[m].len \in Int /\ routes[r].len \in Int
    BY <1>1, <2>1, <2>2, RouteFields DEF Types
  <2>4. routes[m].len > routes[q].len /\ routes[q].len > routes[r].len
    BY <1>2, <1>3, <1>4, <2>3
  <2> QED BY <1>3, <1>4, <2>2, <2>4 DEF RouteLessThan
<1> QED BY <1>1, <1>4 DEF Matching

-----------------------------------------------------------------------------
(* The steps.                                                               *)

\* Routes that were there before, or that are masked
LEMMA DestsStep ==
  ASSUME DestsMasked,
         \A r \in InTable(routes') :
            \/ Masked(routes'[r].dest, routes'[r].len) = routes'[r].dest
            \/ /\ r \in InTable(routes)
               /\ routes'[r].dest = routes[r].dest /\ routes'[r].len = routes[r].len
  PROVE  DestsMasked'
BY DEF DestsMasked

\* An empty cache answers nothing.
LEMMA ClearedIsBest ==
  ASSUME InvalidateCache
  PROVE  CachedIsBest'
BY DEF InvalidateCache, EmptyCache, CachedIsBest, Trusted

\* A cache that is kept is still right when routes only go, or turn invalid.
LEMMA KeptIsBest ==
  ASSUME Inv, Inv', CachedIsBest, cache' = cache,
         \A r \in RouteIds :
            \/ routes'[r] = None
            \/ /\ routes[r] # None
               /\ routes'[r].dest = routes[r].dest /\ routes'[r].len = routes[r].len
               /\ routes'[r].valid => routes[r].valid
  PROVE  CachedIsBest'
<1> SUFFICES ASSUME NEW f \in Flows, Trusted(f)'
             PROVE  /\ Matches(Dest[f], routes'[cache[f]])
                    /\ \A q \in Matching(routes', Dest[f]) :
                          \/ routes'[q].len <= routes'[cache[f]].len
                          \/ routes'[q].dest = routes'[cache[f]].dest
  BY DEF CachedIsBest
<1>1. /\ cache[f] # None /\ routes'[cache[f]] # None /\ routes'[cache[f]].valid
      /\ cache[f] \in RouteIds
  BY DEF Trusted, Inv, Types, CacheNeverDangles
<1>2. /\ Trusted(f)
      /\ routes'[cache[f]].dest = routes[cache[f]].dest
      /\ routes'[cache[f]].len = routes[cache[f]].len
  BY <1>1 DEF Trusted
<1>3. ASSUME NEW q \in Matching(routes', Dest[f])
      PROVE  /\ q \in Matching(routes, Dest[f])
             /\ routes'[q].dest = routes[q].dest /\ routes'[q].len = routes[q].len
  BY DEF Matching, ValidRoutes, InTable, Matches
<1>4. /\ Matches(Dest[f], routes[cache[f]])
      /\ \A q \in Matching(routes, Dest[f]) :
            \/ routes[q].len <= routes[cache[f]].len
            \/ routes[q].dest = routes[cache[f]].dest
  BY <1>2 DEF CachedIsBest
<1>5. Matches(Dest[f], routes'[cache[f]])
  BY <1>2, <1>4 DEF Matches
<1> QED BY <1>2, <1>3, <1>4, <1>5

\* What a lookup puts into the cache is the best there is.
LEMMA LookupIsBest ==
  ASSUME Inv, Best, NEW f \in Flows, Lookup(f)
  PROVE  Best'
<1>1. PICK r \in BestRoutes(routes, Dest[f]) : cache' = [cache EXCEPT ![f] = r]
  BY DEF Lookup, Picked
<1>2. /\ Matches(Dest[f], routes[r])
      /\ \A q \in Matching(routes, Dest[f]) :
            routes[q].len <= routes[r].len \/ routes[q].dest = routes[r].dest
  BY SearchIsBest DEF Inv, Best
<1>3. routes' = routes /\ cache'[f] = r /\ \A g \in Flows \ {f} : cache'[g] = cache[g]
  BY <1>1 DEF Lookup, Inv, Types
<1>4. CachedIsBest'
  BY <1>2, <1>3 DEF Best, CachedIsBest, Trusted
<1> QED BY <1>3, <1>4 DEF Best, DestsMasked

\* The routes that updateNetmaskRoutes leaves are masked when the manual ones are.
LEMMA NetmaskRoutesMasked ==
  ASSUME NEW t \in Table, NEW is \in SUBSET Ifaces, NEW c,
         \A i \in NeedRoute(is, c) : c[i] \in Address \X Length,
         \A r \in Manual(t) : Masked(t[r].dest, t[r].len) = t[r].dest,
         NEW u \in NetmaskRoutes(t, is, c)
  PROVE  \A r \in InTable(u) : Masked(u[r].dest, u[r].len) = u[r].dest
<1>1. ASSUME NEW i \in NeedRoute(is, c)
      PROVE  LET n == NetmaskRoute(i, c[i]) IN Masked(n.dest, n.len) = n.dest
  <2>1. c[i][1] \in Address /\ c[i][2] \in Length
    OBVIOUS
  <2> QED BY <2>1, MaskedTwice DEF NetmaskRoute
<1> QED BY <1>1, NetmaskRoutesTable

\* The same of the tables a start makes.
LEMMA StartTablesMasked ==
  ASSUME NEW t \in Table, NEW is \in SUBSET Ifaces, NEW c,
         \A i \in NeedRoute(is, c) : c[i] \in Address \X Length,
         \A r \in InTable(t) : Masked(t[r].dest, t[r].len) = t[r].dest,
         NEW u \in StartTables(t, is, c)
  PROVE  \A r \in InTable(u) : Masked(u[r].dest, u[r].len) = u[r].dest
<1> DEFINE D == {f \in FileRoutes : f.iface \in is}
           new == [e \in D |-> e]
<1>1. PICK w \in Placed(t, new) : u \in NetmaskRoutes(w, is, c)
  BY DEF StartTables
<1>2. new \in [D -> Route] /\ \A n \in D : Masked(new[n].dest, new[n].len) = new[n].dest
  BY RoutingAssumption
<1>3. /\ w \in Table
      /\ \A r \in InTable(w) : (r \in InTable(t) /\ w[r] = t[r])
                                 \/ \E n \in D : w[r] = new[n]
  <2> HIDE DEF D, new
  <2> QED BY <1>1, <1>2, PlacedTable
<1>4. \A r \in Manual(w) : Masked(w[r].dest, w[r].len) = w[r].dest
  <2> HIDE DEF D, new
  <2> QED BY <1>2, <1>3 DEF Manual
<1> QED BY <1>1, <1>3, <1>4, NetmaskRoutesMasked

\* At first the table is masked and nothing is cached.
LEMMA InitBest == Init => Best
<1> SUFFICES ASSUME Init PROVE Best
  OBVIOUS
<1> DEFINE none == [r \in RouteIds |-> None]
<1>1. Inv
  BY InitInv
<1>2. \A i \in NeedRoute(Ifaces, conf) : conf[i] \in Address \X Length
  BY <1>1, NeedRouteConfig DEF Inv, Types, Config
<1>3. none \in Table /\ InTable(none) = {}
  BY DEF Table, InTable
<1>4. routes \in StartTables(none, Ifaces, conf)
  BY DEF Init
<1>5. DestsMasked
  <2> HIDE DEF none
  <2>1. \A r \in InTable(none) : Masked(none[r].dest, none[r].len) = none[r].dest
    BY <1>3
  <2>2. \A r \in InTable(routes) : Masked(routes[r].dest, routes[r].len) = routes[r].dest
    <3>1. Ifaces \in SUBSET Ifaces
      OBVIOUS
    <3> QED BY <1>2, <1>3, <1>4, <2>1, <3>1, StartTablesMasked, ZenonT(30)
  <2> QED BY <2>2 DEF DestsMasked
<1>6. CachedIsBest
  BY DEF Init, EmptyCache, CachedIsBest, Trusted
<1> QED BY <1>5, <1>6 DEF Best

\* A route that is added, or put in again, is masked, and clears the cache.
LEMMA InsertBest ==
  ASSUME Best, InvalidateCache, NEW t \in Table, NEW id \in RouteIds,
         NEW e \in Route, RouteOK(e), routes' \in Inserted(t, id, e),
         \A r \in RouteIds \ {id} : t[r] = routes[r]
  PROVE  Best'
<1>1. /\ routes'[id] = e
      /\ \A r \in RouteIds \ {id} : routes'[r] = routes[r] \/ routes'[r] = None
  BY InsertedTable
<1>2. DestsMasked'
  BY <1>1, DestsStep DEF Best, InTable, RouteOK
<1> QED BY <1>2, ClearedIsBest DEF Best

\* What happens to the routes of users and protocols
LEMMA RouteStepBest ==
  ASSUME Inv, Inv', Best, RouteStep
  PROVE  Best'
<1>1. routes \in Table
  BY DEF Inv, Types
<1>2. ASSUME NEW id \in RouteIds, NEW e \in ManualRoutes, AddRoute(id, e)
      PROVE  Best'
  BY <1>1, <1>2, RoutingAssumption, InsertBest DEF AddRoute
<1>3. ASSUME NEW id \in RouteIds, NEW e \in ManualRoutes, RouteKeyChanged(id, e)
      PROVE  Best'
  <2> DEFINE t == [routes EXCEPT ![id] = None]
  <2>1. t \in Table /\ \A r \in RouteIds \ {id} : t[r] = routes[r]
    BY <1>1 DEF Table
  <2>2. routes' \in Inserted(t, id, e) /\ RouteOK(e) /\ InvalidateCache /\ e \in Route
    BY <1>3, RoutingAssumption DEF RouteKeyChanged
  <2> HIDE DEF t
  <2> QED BY <2>1, <2>2, InsertBest
<1>4. ASSUME NEW id \in RouteIds, NEW e \in ManualRoutes, RouteFieldChanged(id, e)
      PROVE  Best'
  <2>1. /\ id \in InTable(routes) /\ routes[id] \in Route
        /\ routes' = [routes EXCEPT ![id].gw = e.gw, ![id].iface = e.iface]
        /\ cache' = cache
    BY <1>1, <1>4 DEF RouteFieldChanged, KeepCache, Manual, Table, InTable
  <2>2. /\ routes'[id].dest = routes[id].dest /\ routes'[id].len = routes[id].len
        /\ routes'[id].valid = routes[id].valid
        /\ \A r \in RouteIds \ {id} : routes'[r] = routes[r]
    BY <1>1, <2>1 DEF Route, Table
  <2>3. DestsMasked'
    BY <2>1, <2>2, DestsStep DEF Best, InTable
  <2>4. CachedIsBest'
    BY <2>1, <2>2, KeptIsBest DEF Best, InTable
  <2> QED BY <2>3, <2>4 DEF Best
<1>5. ASSUME NEW id \in RouteIds, RemoveRoute(id)
      PROVE  Best'
  <2>1. InvalidateCache /\ \A r \in RouteIds : routes'[r] = routes[r] \/ routes'[r] = None
    BY <1>1, <1>5 DEF RemoveRoute, Table
  <2>2. DestsMasked'
    BY <2>1, DestsStep DEF Best, InTable
  <2> QED BY <2>1, <2>2, ClearedIsBest DEF Best
<1>6. ASSUME NEW id \in RouteIds, RouteExpires(id)
      PROVE  Best'
  <2>1. /\ id \in InTable(routes) /\ routes[id] \in Route /\ routes[id].valid
        /\ routes' = [routes EXCEPT ![id].valid = FALSE]
        /\ cache' = cache
    BY <1>1, <1>6 DEF RouteExpires, KeepCache, Manual, Table, InTable
  <2>2. /\ routes'[id].dest = routes[id].dest /\ routes'[id].len = routes[id].len
        /\ \A r \in RouteIds \ {id} : routes'[r] = routes[r]
    BY <1>1, <2>1 DEF Route, Table
  <2>3. DestsMasked'
    BY <2>1, <2>2, DestsStep DEF Best, InTable
  <2>4. CachedIsBest'
    BY <2>1, <2>2, KeptIsBest DEF Best, InTable
  <2> QED BY <2>3, <2>4 DEF Best
<1>7. ASSUME Purge
      PROVE  Best'
  <2>1. InvalidateCache /\ \A r \in RouteIds : routes'[r] = routes[r] \/ routes'[r] = None
    BY <1>7 DEF Purge
  <2>2. DestsMasked'
    BY <2>1, DestsStep DEF Best, InTable
  <2> QED BY <2>1, <2>2, ClearedIsBest DEF Best
<1> QED BY <1>2, <1>3, <1>4, <1>5, <1>6, <1>7 DEF RouteStep

\* What happens to the interfaces
LEMMA InterfaceStepBest ==
  ASSUME Inv, Inv', Best, InterfaceStep
  PROVE  Best'
<1>1. CASE InterfaceStateChanged
  BY <1>1, ClearedIsBest DEF InterfaceStateChanged, Best, DestsMasked
<1>2. ASSUME NEW i \in Ifaces, DeleteInterface(i)
      PROVE  Best'
  <2>1. \A r \in RouteIds : routes'[r] = routes[r] \/ routes'[r] = None
    BY <1>2 DEF DeleteInterface, RoutesWithout
  <2>2. InvalidateCache \/ cache' = cache
    BY <1>2 DEF DeleteInterface, KeepCache
  <2>3. DestsMasked'
    BY <2>1, DestsStep DEF Best, InTable
  <2>4. CachedIsBest'
    BY <2>1, <2>2, ClearedIsBest, KeptIsBest DEF Best
  <2> QED BY <2>3, <2>4 DEF Best
<1>3. ASSUME NEW i \in Ifaces, NEW c \in Configs,
             CreateInterface(i, c) \/ ConfigureInterface(i, c)
      PROVE  Best'
  <2>1. routes' \in NetmaskRoutes(routes, ift', conf') /\ InvalidateCache
    BY <1>3 DEF CreateInterface, ConfigureInterface, UpdateNetmaskRoutes
  <2>2. ift' \in SUBSET Ifaces /\ routes \in Table
    BY DEF Inv, Types
  <2>3. \A j \in NeedRoute(ift', conf') : conf'[j] \in Address \X Length
    BY <2>2, NeedRouteConfig DEF Inv, Types, Config
  <2>4. \A r \in Manual(routes) : Masked(routes[r].dest, routes[r].len) = routes[r].dest
    BY DEF Best, DestsMasked, Manual
  <2>5. DestsMasked'
    BY <2>1, <2>2, <2>3, <2>4, NetmaskRoutesMasked DEF DestsMasked
  <2> QED BY <2>1, <2>5, ClearedIsBest DEF Best
<1> QED BY <1>1, <1>2, <1>3 DEF InterfaceStep

\* Multicast routes come and go without a change to the others.
LEMMA MulticastStepBest ==
  ASSUME Best, MulticastStep
  PROVE  Best'
<1>1. routes' = routes /\ InvalidateCache
  BY DEF MulticastStep, AddMulticastRoute, RemoveMulticastRoute, MulticastRouteChanged
<1> QED BY <1>1, ClearedIsBest DEF Best, DestsMasked

\* A start clears the cache.
LEMMA StartBest ==
  ASSUME Inv, Inv', Best, Start
  PROVE  Best'
<1>1. /\ routes' \in StartTables(routes, ift, conf') /\ InvalidateCache
      /\ ift' = ift /\ ift \in SUBSET Ifaces /\ routes \in Table
  BY DEF Start, Inv, Types
<1>2. \A j \in NeedRoute(ift, conf') : conf'[j] \in Address \X Length
  BY <1>1, NeedRouteConfig DEF Inv, Types, Config
<1>3. DestsMasked'
  BY <1>1, <1>2, StartTablesMasked DEF Best, DestsMasked
<1> QED BY <1>1, <1>3, ClearedIsBest DEF Best

\* A stop empties the table.
LEMMA StopBest ==
  ASSUME Inv, Inv', Best, Stop
  PROVE  Best'
<1>1. \A r \in RouteIds : routes'[r] = None
  BY DEF Stop
<1>2. InvalidateCache \/ cache' = cache
  BY DEF Stop, KeepCache
<1>3. DestsMasked'
  BY <1>1 DEF DestsMasked, InTable
<1>4. CachedIsBest'
  BY <1>1, <1>2, ClearedIsBest, KeptIsBest DEF Best
<1> QED BY <1>3, <1>4 DEF Best

-----------------------------------------------------------------------------
(* The theorem.                                                             *)

\* Every step keeps the table masked and the cache right.
LEMMA NextBest == Inv /\ Inv' /\ Best /\ [Next]_vars => Best'
<1> SUFFICES ASSUME Inv, Inv', Best, [Next]_vars PROVE Best'
  OBVIOUS
<1>1. CASE RouteStep
  BY <1>1, RouteStepBest
<1>2. CASE InterfaceStep
  BY <1>2, InterfaceStepBest
<1>3. CASE MulticastStep
  BY <1>3, MulticastStepBest
<1>4. CASE LookupStep
  <2>1. CASE IsLocalAddress \/ IsLocalBroadcastAddress
    BY <2>1 DEF IsLocalAddress, IsLocalBroadcastAddress, Best, DestsMasked,
                CachedIsBest, Trusted
  <2> QED BY <1>4, <2>1, LookupIsBest DEF LookupStep
<1>5. CASE Start
  BY <1>5, StartBest
<1>6. CASE Stop
  BY <1>6, StopBest
<1>7. CASE UNCHANGED vars
  BY <1>7 DEF vars, Best, DestsMasked, CachedIsBest, Trusted
<1> QED BY <1>1, <1>2, <1>3, <1>4, <1>5, <1>6, <1>7 DEF Next

\* For any routes, interfaces and flows, an answer from the routing cache leads
\* to the destination of the flow by the longest prefix: it is as good as a
\* search of the table would be now.
THEOREM CacheIsBest == Spec => []CachedIsBest
<1>1. Best => CachedIsBest
  BY DEF Best
<1> QED BY <1>1, InvAlways, InitBest, NextBest, PTL DEF Spec

-----------------------------------------------------------------------------
(***************************************************************************)
(* The addresses keep their types: a broadcast address is the last one of  *)
(* a block of 2^(AddrBits - l) addresses, of which there are 2^l.          *)
(***************************************************************************)
AddressTypes ==
  /\ routerId \in Address
  /\ up \in BOOLEAN
  /\ localAddrs \subseteq Address
  /\ localBcasts \subseteq Address

\* The broadcast address of a subnet is an address.
LEMMA BroadcastType ==
  ASSUME NEW a \in Address, NEW l \in Length
  PROVE  Broadcast(a, l) \in Address
<1> DEFINE k == 2^l
           m == 2^(AddrBits - l)
           size == 2^AddrBits
           q == a \div m
<1>1. k \in Nat \ {0} /\ m \in Nat \ {0} /\ size = k * m
  BY PowersOfTwo
<1>2. a \in Nat /\ a < size /\ size \in Nat
  <2>1. size \in Nat
    <3> HIDE DEF k, m, size
    <3> QED BY <1>1
  <2> QED BY <2>1 DEF Address
<1> HIDE DEF k, m, size
<1>3. q \in Nat /\ a = m * q + (a % m) /\ a % m \in 0 .. m - 1
  BY <1>1, <1>2
<1>4. a - (a % m) = m * q
  BY <1>1, <1>2, <1>3
<1> HIDE DEF q
<1>5. m * q <= a /\ m * q \in Nat
  BY <1>1, <1>2, <1>3
<1>6. q < k
  <2> SUFFICES ASSUME k <= q PROVE FALSE
    BY <1>1, <1>3
  <2>1. k * m <= m * q
    BY <1>1, <1>3
  <2> QED BY <1>1, <1>2, <1>5, <2>1
<1>7. m * q + m <= k * m
  <2>1. q + 1 <= k /\ q + 1 \in Nat
    BY <1>1, <1>3, <1>6
  <2>2. m * (q + 1) <= k * m
    BY <1>1, <2>1
  <2>3. m * (q + 1) = m * q + m
    BY <1>1, <1>3
  <2> QED BY <2>2, <2>3
<1>8. m * q + m - 1 \in 0 .. size - 1
  BY <1>1, <1>2, <1>5, <1>7
<1>9. Broadcast(a, l) = (a - (a % m)) + m - 1
  BY DEF Broadcast, Masked, m
<1> QED BY <1>4, <1>8, <1>9 DEF Address, size

\* There is a highest address, so the id that is chosen is one of a router.
LEMMA ConfiguredIdType ==
  ASSUME NEW id \in Address, NEW is \in SUBSET Ifaces,
         NEW c \in [Ifaces -> Address \X Length]
  PROVE  ConfiguredId(id, is, c) \in Address
<1> DEFINE last == 2^AddrBits - 1
           A == {c[i][1] : i \in is \ {Loopback}} \cup {Unspecified}
           T == {last - a : a \in A}
<1>1. 2^AddrBits \in Nat \ {0}
  BY PowersOfTwo, RoutingAssumption DEF Length
<1>2. A \subseteq Address /\ A # {}
  BY RoutingAssumption
<1>3. last \in Nat /\ \A a \in A : a \in 0 .. last
  BY <1>1, <1>2 DEF Address
<1> HIDE DEF last
<1>4. \A i \in is \ {Loopback} : c[i][1] \in A
  OBVIOUS
<1>5. \E a \in A : \A i \in is \ {Loopback} : c[i][1] <= a
  <2> HIDE DEF A
  <2>1. T \subseteq Nat /\ T # {}
    BY <1>2, <1>3
  <2>2. PICK t \in T : \A y \in T : t <= y
    <3> HIDE DEF T
    <3> QED BY <2>1, LeastElement
  <2>3. PICK a \in A : t = last - a
    BY <2>2
  <2>4. \A b \in A : last - a <= last - b
    BY <2>2, <2>3
  <2>5. \A b \in A : b <= a
    BY <1>3, <2>4
  <2> QED BY <1>4, <2>5
<1> DEFINE x == CHOOSE a \in A : \A i \in is \ {Loopback} : c[i][1] <= a
<1>6. x \in A
  <2> HIDE DEF A
  <2> QED BY <1>5
<1>7. ConfiguredId(id, is, c) = IF id # Unspecified THEN id ELSE x
  BY DEF ConfiguredId
<1> HIDE DEF x, A
<1> QED BY <1>2, <1>6, <1>7

\* With the addresses typed, so is the configuration.
LEMMA ConfTyped ==
  ASSUME Types, routerId \in Address
  PROVE  conf \in [Ifaces -> Address \X Length]
<1>1. AddrBits \in Length
  BY RoutingAssumption DEF Length
<1> QED BY <1>1 DEF Types, Config

LEMMA AddressTypesStep ==
  ASSUME Inv, AddressTypes, [Next]_vars
  PROVE  AddressTypes'
<1>1. conf \in [Ifaces -> Address \X Length] /\ ift \subseteq Ifaces
  BY ConfTyped DEF Inv, Types, AddressTypes
<1>2. CASE IsLocalAddress
  BY <1>1, <1>2 DEF IsLocalAddress, InterfaceAddrs, AddrOf, AddressTypes
<1>3. CASE IsLocalBroadcastAddress
  <2>1. \A i \in ift : Broadcast(AddrOf(i), LenOf(i)) \in Address
    BY <1>1, BroadcastType DEF AddrOf, LenOf
  <2> QED BY <1>3, <2>1 DEF IsLocalBroadcastAddress, InterfaceBcasts, AddressTypes
<1>4. CASE Start
  <2>1. ConfiguredId(routerId, ift, conf) \in Address
    BY <1>1, ConfiguredIdType DEF AddressTypes
  <2> QED BY <1>4, <2>1 DEF Start, InvalidateCache, AddressTypes
<1>5. CASE Stop
  BY <1>5 DEF Stop, InvalidateCache, KeepCache, AddressTypes
<1>6. CASE RouteStep
  BY <1>6
  DEF RouteStep, AddRoute, RouteKeyChanged, RouteFieldChanged, RemoveRoute,
      RouteExpires, Purge, InvalidateCache, KeepCache, AddressTypes
<1>7. CASE InterfaceStep
  BY <1>7
  DEF InterfaceStep, DeleteInterface, CreateInterface, ConfigureInterface,
      UpdateNetmaskRoutes, InterfaceStateChanged, InvalidateCache, KeepCache, AddressTypes
<1>8. CASE MulticastStep
  BY <1>8
  DEF MulticastStep, AddMulticastRoute, RemoveMulticastRoute, MulticastRouteChanged,
      InvalidateCache, AddressTypes
<1>9. CASE UNCHANGED vars \/ \E f \in Flows : Lookup(f)
  BY <1>9 DEF vars, Lookup, AddressTypes
<1> QED BY <1>2, <1>3, <1>4, <1>5, <1>6, <1>7, <1>8, <1>9 DEF Next, LookupStep

\* The table, the caches and the collected addresses of a router keep their
\* types for any interfaces and routes: every broadcast address computed from
\* a netmask is an address, and the router id is one.
THEOREM TypeCorrect == Spec => []TypeOK
<1>1. Init => AddressTypes
  BY RoutingAssumption, ConfiguredIdType DEF Init, AddressTypes
<1>2. Inv /\ AddressTypes /\ [Next]_vars => AddressTypes'
  BY AddressTypesStep
<1>3. Inv /\ AddressTypes => TypeOK
  BY ConfTyped DEF Inv, Types, AddressTypes, TypeOK, Table
<1> QED BY InvAlways, <1>1, <1>2, <1>3, PTL DEF Spec
=============================================================================
