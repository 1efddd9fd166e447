--------------------------- MODULE MCHomaReceiver ---------------------------
(* Three senders compete for two scheduled priorities; the first sends two   *)
(* messages.                                                                 *)
EXTENDS HomaReceiver

CONSTANTS s1, s2, s3, d1

MCMsgSrc == <<s1, s1, s2, s3>>
MCMsgDst == <<d1, d1, d1, d1>>
MCMsgSize == <<6, 4, 6, 7>>
=============================================================================
