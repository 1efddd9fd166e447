-------------------------- MODULE MessageDelivery --------------------------
(***************************************************************************)
(* What HomaTransport promises its applications: a message that is sent is  *)
(* delivered to its destination, once.  Nothing is promised about the order *)
(* of the messages, not even of those between two hosts.                    *)
(***************************************************************************)
EXTENDS HomaNet

VARIABLES
  sent,      \* the messages that the applications handed over
  delivered  \* how often each message was delivered

vars == <<sent, delivered>>

TypeOK == sent \subseteq Msg /\ delivered \in [Msg -> 0 .. 1]

Init == sent = {} /\ delivered = [m \in Msg |-> 0]

Send(m) ==
  /\ m \notin sent
  /\ sent' = sent \cup {m}
  /\ UNCHANGED delivered

Deliver(m) ==
  /\ m \in sent
  /\ delivered[m] = 0
  /\ delivered' = [delivered EXCEPT ![m] = 1]
  /\ UNCHANGED sent

Next == \E m \in Msg : Send(m) \/ Deliver(m)

Spec == Init /\ [][Next]_vars
FairSpec == Spec /\ \A m \in Msg : WF_vars(Deliver(m))
=============================================================================
