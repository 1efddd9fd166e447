-------------------------- MODULE MCFlowRoutingTable --------------------------
(* A router with its loopback and two interfaces, addresses of 3 bits. The  *)
(* routes include two to one destination over different gateways (ECMP), a  *)
(* shorter prefix of it that is also one of a subnet, a default route and   *)
(* one that addRoute refuses.                                               *)
EXTENDS FlowRoutingTable, TLC

CONSTANTS e0, e1, lo, f1, f2

Manual3(d, l, g, i) ==
    [dest |-> d, len |-> l, gw |-> g, iface |-> i, src |-> "MANUAL", valid |-> TRUE]

MCConfigs == {<<2, 2>>, <<5, 2>>, <<0, 0>>}
MCInitConf == [i \in {lo, e0, e1} |->
                 CASE i = lo -> <<7, 3>> [] i = e0 -> <<2, 2>> [] OTHER -> <<5, 2>>]
MCDest == [f \in {f1, f2} |-> IF f = f1 THEN 6 ELSE 5]
MCHash == [f \in {f1, f2} |-> IF f = f1 THEN 2 ELSE 3]
MCManualRoutes ==
    {Manual3(6, 2, 2, e0), Manual3(6, 2, 5, e1), Manual3(4, 1, 2, e0),
     Manual3(0, 0, 5, e1), Manual3(3, 2, 5, e1)}
MCFileRoutes == {Manual3(6, 2, 2, e0)}
MCMRoutes == {[group |-> 0, inIface |-> e0, outs |-> {e1}],
              [group |-> 1, inIface |-> None, outs |-> {e1}]}
Symmetry == Permutations(RouteIds)
=============================================================================
