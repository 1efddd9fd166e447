------------------------------ MODULE MCMimicDCN ------------------------------
(* A cluster of two racks. Frames e1 and e2 go to other clusters by one path *)
(* of the ECMP, i comes for the host that e1 left, q is an ARP request of    *)
(* that host, and z stays in the cluster. The first flow of the ingress      *)
(* traffic ends before the second and is larger than a message.              *)
EXTENDS MimicDCN

CONSTANTS e1, e2, i, q, z

Gate(g, ss, st, sb, ds, dt, db) ==
    [gate |-> g, srcSubtree |-> ss, srcToR |-> st, srcByte3 |-> sb,
     destSubtree |-> ds, destToR |-> dt, destByte3 |-> db]

MCFrame == [f \in {e1, e2, i, q, z} |->
              CASE f = e1 -> Gate(6, 0, 1, 8, 1, 0, 4)
                [] f = e2 -> Gate(1, 0, 0, 4, 1, 1, 8)
                [] f = i -> Gate(10, 1, 0, 4, 0, 1, 8)
                [] f = q -> Gate(6, 0, 1, 8, 0, 0, 0)
                [] f = z -> Gate(1, 0, 0, 4, 0, 1, 8)]
MCHash == [f \in {e1, e2, i, q, z} |-> [s \in 0 .. 3 |-> IF s \in {0, 1} THEN 7 ELSE s]]
MCTorSeeds == <<0, 1>>
MCAggSeeds == <<3, 2>>

F(start, end, bytes) == [start |-> start, end |-> end, bytes |-> bytes]
MCFlows == [d \in Dirs |-> IF d = "ing" THEN <<F(0, 2, 3), F(1, 3, 1)>> ELSE <<F(2, 3, 1)>>]
=============================================================================
