---------------------------- MODULE MCHomaSender ----------------------------
(* Two hosts that send to each other: two messages compete for the NIC of h1, *)
(* and the data of h2 competes with the grants h2 issues for both of them.    *)
EXTENDS HomaSender

CONSTANTS h1, h2

MCMsgSrc == <<h1, h1, h2>>
MCMsgDst == <<h2, h2, h1>>
\* With a request of 2 bytes and 3 unscheduled bytes in packets of 2: message 1
\* needs two grants (one of a single byte), message 2 needs one, and message 3
\* needs two.  The shorter message 2 starts when some of message 1 has gone.
MCMsgSize == <<8, 6, 9>>
=============================================================================
