------------------------------ MODULE MCIPv4Flow ------------------------------
(* A router between two networks. Datagram a comes from above, as c does,    *)
(* which is for the node itself and is cut up on its way over lo0; b comes   *)
(* in over e1 in two fragments, of which one is cut again and one has no TTL *)
(* left; d is for the node, in two fragments; m is multicast, n a broadcast  *)
(* to the other network and l one to all interfaces; t must not be cut.      *)
EXTENDS IPv4Flow

CONSTANTS lo, e0, e1, h1, a, b, c, d, l, m, n, t

P(i, o, s, more, ttl) == [id |-> i, off |-> o, len |-> s, more |-> more, ttl |-> ttl]
In(p, f) == [p |-> p, from |-> f]
To(i, h) == [ie |-> i, hop |-> h]

MCInputs == {In(P(a, 0, 8, FALSE, 2), HL), In(P(c, 0, 12, FALSE, 2), HL),
             In(P(b, 8, 12, TRUE, 1), e1), In(P(b, 20, 8, FALSE, 0), e1),
             In(P(d, 0, 8, TRUE, 1), e1), In(P(d, 8, 4, FALSE, 1), e1),
             In(P(m, 0, 8, FALSE, 1), e0), In(P(n, 0, 8, FALSE, 1), e1),
             In(P(l, 0, 8, FALSE, 1), HL), In(P(m, 0, 8, FALSE, 1), HL),
             In(P(t, 0, 12, FALSE, 2), HL)}
MCKind == [i \in {a, b, c, d, l, m, n, t} |->
             CASE i \in {c, d} -> "local" [] i = l -> "limited" [] i = m -> "multicast"
               [] i = n -> "subnet" [] OTHER -> "unicast"]
MCRoutes == [i \in {a, b, c, d, l, m, n, t} |->
               CASE i = a -> {To(e0, h1)} [] i = b -> {To(e0, h1), To(e1, Wire)}
                 [] i = t -> {To(e0, h1), NoRoute}
                 [] i = l -> {To(e0, Wire), NoRoute} [] i = m -> {To(e1, Wire), NoRoute}
                 [] OTHER -> {To(e1, Wire)}]
MCSubnet == [i \in {a, b, c, d, l, m, n, t} |-> e0]
MCJoined == [i \in {a, b, c, d, l, m, n, t} |-> {e0}]
MCMRouteIn == [i \in {a, b, c, d, l, m, n, t} |-> e0]
MCMRouteOuts == [i \in {a, b, c, d, l, m, n, t} |-> {e0, e1}]
MCProtocol == [i \in {a, b, c, d, l, m, n, t} |-> "udp"]
MCMtu == [i \in {lo, e0, e1} |-> IF i = e1 THEN 0 ELSE 28]

Accept == [x \in HookPoints |-> "ACCEPT"]
MCHookVerdicts == {Accept} \cup {[Accept EXCEPT ![x] = "QUEUE"] : x \in HookPoints}
                           \cup {[Accept EXCEPT !["LOCALIN"] = "STOLEN"]}
                           \cup {[Accept EXCEPT !["POSTROUTING"] = "DROP"]}
=============================================================================
