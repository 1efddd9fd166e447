-------------------------- MODULE MCHomaTransport --------------------------
(* Three hosts: two send to the third, which sends to the first, so that its *)
(* NIC carries both data and grants.                                         *)
EXTENDS HomaTransport

CONSTANTS h1, h2, h3

MCMsgSrc == <<h1, h2, h3>>
MCMsgDst == <<h3, h3, h1>>
MCMsgSize == <<6, 5, 4>>

\* Two grants, one and none, for the run in which packets are lost.
MCShortMsgSize == <<6, 4, 3>>

=============================================================================
