---------------------------- MODULE MCHomaBubble ----------------------------
(* Two senders, of which one is kept granted until the bandwidth check sees  *)
(* a bubble; the third message of the run is all unscheduled.                *)
EXTENDS HomaReceiver

CONSTANTS s1, s2, d1

MCMsgSrc == <<s1, s2, s2>>
MCMsgDst == <<d1, d1, d1>>
MCMsgSize == <<10, 8, 3>>
=============================================================================
