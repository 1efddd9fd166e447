-------------------------- MODULE HomaSenderProofs --------------------------
(***************************************************************************)
(* What is true of the SendController for any number of hosts and messages  *)
(* of any size.  First three invariants that are proved together: an idle   *)
(* NIC transmits at once only because nothing else is queued, and the set   *)
(* of ready messages stays exact only because every entry is under its key. *)
(*                                                                          *)
(* Then the bytes: every byte of a message is sent exactly once.  They are  *)
(* divided into those sent, those ready, those of grants on their way and   *)
(* those that nobody has asked for.  Every step of HomaSender moves bytes   *)
(* from one of these parts to another, and the counters of the message are  *)
(* the sizes of unions of them, which is why no grant ever finds too few    *)
(* bytes.  From this follow the order in which packets leave, and that the  *)
(* counters of messages and hosts are the sums of what they count.          *)
(***************************************************************************)
EXTENDS HomaSender, HomaSchedulerProofs

Inv == TypeOK /\ IdleMeansDrained /\ ReadySetExact

-----------------------------------------------------------------------------
(* Grants and the packets that answer them.                                 *)

\* A grant that the receiver may still issue is well formed.
LEMMA NextGrantType ==
  ASSUME NEW m \in Msg, NEW first \in Nat, first < MsgSize[m]
  PROVE  /\ NextGrant(m, first) \in Grant
         /\ NextGrant(m, first).len \in Nat
BY MsgAssumption, SizeAssumption DEF NextGrant, Grant, Lesser

\* The packet that answers a grant is well formed and takes no more bytes than
\* are left to schedule.
LEMMA SchedPktType ==
  ASSUME TypeOK, NEW g \in Grant
  PROVE  /\ SchedPkt(g) \in Pkt
         /\ outbndMsg[g.msg].bytesToSched - SchedPkt(g).len \in Nat
<1>1. /\ g.msg \in Msg
      /\ g.first \in Nat
      /\ g.len \in Nat
  BY DEF Grant
<1>2. outbndMsg[g.msg].bytesToSched \in Nat
  BY <1>1 DEF TypeOK, OutboundMessage
<1> QED BY <1>1, <1>2 DEF SchedPkt, Pkt, PktType, Lesser

-----------------------------------------------------------------------------
(* One transmission.                                                        *)

\* What a handler has made of the fields when it transmits a data packet.
Prepared(h, ready, out, total) ==
  /\ out \in [Msg -> OutboundMessage]
  /\ total \in Int
  /\ ready = ReadySet(h, out)
  /\ \A k \in Host \ {h} : outbndMsgSet[k] = ReadySet(k, out)

\* Transmitting a packet keeps the fields well typed and the set exact.
LEMMA TransmitDataStep ==
  ASSUME TypeOK, NEW h \in Host, NEW ready, NEW out, NEW total,
         Prepared(h, ready, out, total), TransmitData(h, ready, out, total)
  PROVE  /\ outbndMsg' \in [Msg -> OutboundMessage]
         /\ bytesLeftToSend' \in [Host -> Int]
         /\ pktsSent' \subseteq Pkt
         /\ sendTimer' = [sendTimer EXCEPT ![h] = TRUE]
         /\ outbndMsgSet' \in [Host -> SUBSET (Int \X Msg)]
         /\ ReadySetExact'
<1>1. PICK e \in ready : \E p \in out[e[2]].txPkts :
        LET m == e[2]
            left == out[m].bytesLeft - p.len
            sent == [out EXCEPT ![m].txPkts = @ \ {p}, ![m].bytesLeft = left,
                                ![m].status = IF left <= 0 THEN "done" ELSE @]
        IN /\ outbndMsg' = sent
           /\ outbndMsgSet' =
                [outbndMsgSet EXCEPT ![h] = (ready \ {e}) \cup Refiled(m, sent)]
           /\ bytesLeftToSend' = [bytesLeftToSend EXCEPT ![h] = total - p.len]
           /\ sendTimer' = [sendTimer EXCEPT ![h] = TRUE]
           /\ pktsSent' = pktsSent \cup {p}
  BY ZenonT(40) DEF TransmitData
<1> DEFINE m == e[2]
<1>2. /\ m \in Msg
      /\ MsgSrc[m] = h
      /\ out[m].status = "active"
      /\ out[m].txPkts # {}
      /\ e = Entry(m, out)
  BY DEF Prepared, ReadySet, Entry
<1>3. PICK p \in out[m].txPkts :
        LET left == out[m].bytesLeft - p.len
            sent == [out EXCEPT ![m].txPkts = @ \ {p}, ![m].bytesLeft = left,
                                ![m].status = IF left <= 0 THEN "done" ELSE @]
        IN /\ outbndMsg' = sent
           /\ outbndMsgSet' =
                [outbndMsgSet EXCEPT ![h] = (ready \ {e}) \cup Refiled(m, sent)]
           /\ bytesLeftToSend' = [bytesLeftToSend EXCEPT ![h] = total - p.len]
           /\ sendTimer' = [sendTimer EXCEPT ![h] = TRUE]
           /\ pktsSent' = pktsSent \cup {p}
  BY <1>1
<1> DEFINE left == out[m].bytesLeft - p.len
<1>4. /\ out \in [Msg -> OutboundMessage]
      /\ out[m] \in OutboundMessage
      /\ p \in Pkt
      /\ p.len \in Nat
      /\ left \in Int
  BY <1>2 DEF Prepared, OutboundMessage, Pkt
<1>5. /\ outbndMsg' \in [Msg -> OutboundMessage]
      /\ outbndMsg'[m].bytesLeft = left
      /\ outbndMsg'[m].txPkts = out[m].txPkts \ {p}
      /\ outbndMsg'[m].status = IF left <= 0 THEN "done" ELSE "active"
      /\ \A k \in Msg \ {m} : outbndMsg'[k] = out[k]
  BY <1>2, <1>3, <1>4 DEF OutboundMessage
<1>6. ReadySet(h, outbndMsg') = (ready \ {e}) \cup Refiled(m, outbndMsg')
  <2>1. ASSUME NEW k \in Msg, k # m
        PROVE  /\ Entry(k, outbndMsg') = Entry(k, out)
               /\ Entry(k, out) # e
    BY <1>2, <1>5, <2>1 DEF Entry
  <2>2. ready = ReadySet(h, out)
    BY DEF Prepared
  <2>3. Refiled(m, outbndMsg') =
          IF outbndMsg'[m].status = "active" /\ outbndMsg'[m].txPkts # {}
          THEN {Entry(m, outbndMsg')} ELSE {}
    BY <1>4, <1>5 DEF Refiled
  <2>4. \A k \in Msg \ {m} : outbndMsg'[k] = out[k]
    BY <1>5
  <2>5. ReadySet(h, outbndMsg') =
          {Entry(k, out) : k \in {i \in Msg \ {m} : /\ MsgSrc[i] = h
                                                   /\ out[i].status = "active"
                                                   /\ out[i].txPkts # {}}}
          \cup Refiled(m, outbndMsg')
    BY <1>2, <2>1, <2>3, <2>4 DEF ReadySet
  <2>6. ready \ {e} =
          {Entry(k, out) : k \in {i \in Msg \ {m} : /\ MsgSrc[i] = h
                                                   /\ out[i].status = "active"
                                                   /\ out[i].txPkts # {}}}
    BY <1>2, <2>1, <2>2 DEF ReadySet
  <2> QED BY <2>5, <2>6
<1>7. outbndMsgSet' = [outbndMsgSet EXCEPT ![h] = ReadySet(h, outbndMsg')]
  BY <1>3, <1>6
<1>8. ASSUME NEW k \in Host, k # h
      PROVE  outbndMsgSet[k] = ReadySet(k, outbndMsg')
  <2>1. outbndMsgSet[k] = ReadySet(k, out)
    BY <1>8 DEF Prepared
  <2> QED BY <1>2, <1>5, <1>8, <2>1 DEF ReadySet, Entry
<1>9. ReadySetExact'
  BY <1>7, <1>8 DEF ReadySetExact, TypeOK
<1>10. ReadySet(h, outbndMsg') \in SUBSET (Int \X Msg)
  BY <1>5 DEF ReadySet, Entry, OutboundMessage
<1>11. bytesLeftToSend' \in [Host -> Int]
  BY <1>3, <1>4 DEF TypeOK, Prepared
<1>12. pktsSent' \subseteq Pkt /\ sendTimer' = [sendTimer EXCEPT ![h] = TRUE]
  BY <1>3, <1>4 DEF TypeOK
<1>13. outbndMsgSet' \in [Host -> SUBSET (Int \X Msg)]
  BY <1>7, <1>10 DEF TypeOK
<1> QED BY <1>5, <1>9, <1>11, <1>12, <1>13

\* sendOrQueue(NULL) keeps the invariant's part that depends on the prepared
\* fields, whichever way it goes, and leaves an idle NIC only when nothing is
\* queued.
LEMMA SendOrQueueDataStep ==
  ASSUME Inv, NEW h \in Host, NEW ready, NEW out, NEW total,
         Prepared(h, ready, out, total),
         SendOrQueueData(h, ready, out, total),
         UNCHANGED outGrantQueue
  PROVE  /\ outbndMsg' \in [Msg -> OutboundMessage]
         /\ bytesLeftToSend' \in [Host -> Int]
         /\ pktsSent' \subseteq Pkt
         /\ sendTimer' \in [Host -> BOOLEAN]
         /\ outbndMsgSet' \in [Host -> SUBSET (Int \X Msg)]
         /\ IdleMeansDrained'
         /\ ReadySetExact'
<1>1. CASE sendTimer[h]
  <2>1. /\ outbndMsg' = out
        /\ outbndMsgSet' = [outbndMsgSet EXCEPT ![h] = ready]
        /\ bytesLeftToSend' = [bytesLeftToSend EXCEPT ![h] = total]
        /\ UNCHANGED <<sendTimer, pktsSent>>
    BY <1>1 DEF SendOrQueueData
  <2>2. ready \in SUBSET (Int \X Msg)
    BY DEF Prepared, ReadySet, Entry, OutboundMessage
  <2>3. outbndMsg' \in [Msg -> OutboundMessage]
    BY <2>1 DEF Prepared
  <2>4. /\ bytesLeftToSend' \in [Host -> Int]
        /\ pktsSent' \subseteq Pkt
        /\ sendTimer' \in [Host -> BOOLEAN]
        /\ outbndMsgSet' \in [Host -> SUBSET (Int \X Msg)]
    BY <2>1, <2>2 DEF Prepared, Inv, TypeOK
  <2>5. IdleMeansDrained'
    BY <1>1, <2>1 DEF Inv, TypeOK, IdleMeansDrained
  <2>6. ReadySetExact'
    BY <2>1 DEF Prepared, Inv, TypeOK, ReadySetExact
  <2> QED BY <2>3, <2>4, <2>5, <2>6
<1>2. CASE ~sendTimer[h]
  <2>1. TransmitData(h, ready, out, total)
    BY <1>2 DEF SendOrQueueData
  <2>2. /\ outbndMsg' \in [Msg -> OutboundMessage]
        /\ bytesLeftToSend' \in [Host -> Int]
        /\ pktsSent' \subseteq Pkt
        /\ sendTimer' = [sendTimer EXCEPT ![h] = TRUE]
        /\ outbndMsgSet' \in [Host -> SUBSET (Int \X Msg)]
        /\ ReadySetExact'
    BY <2>1, TransmitDataStep DEF Inv
  <2>3. \A k \in Host \ {h} : outbndMsgSet'[k] = outbndMsgSet[k]
    BY <2>1 DEF TransmitData, Inv, TypeOK
  <2>4. IdleMeansDrained'
    BY <2>2, <2>3 DEF Inv, TypeOK, IdleMeansDrained
  <2>5. sendTimer' \in [Host -> BOOLEAN]
    BY <2>2 DEF Inv, TypeOK
  <2> QED BY <2>2, <2>4, <2>5
<1> QED BY <1>1, <1>2
-----------------------------------------------------------------------------
(* Each action keeps the invariant.                                         *)

\* processSendMsgFromApp prepares the fields with one message more.
LEMMA AppSendPrepared ==
  ASSUME Inv, NEW m \in Msg, AppSend(m)
  PROVE  LET h == MsgSrc[m]
             needGrant == MsgSize[m] - TotalUnsched(m)
             out == [outbndMsg EXCEPT ![m] =
                       [status |-> "active", bytesToSched |-> needGrant,
                        bytesLeft |-> MsgSize[m], txPkts |-> ReqUnschedDataPkts(m)]]
             ready == outbndMsgSet[h] \cup {Entry(m, out)}
             total == bytesLeftToSend[h] + MsgSize[m]
         IN  Prepared(h, ready, out, total) /\ SendOrQueueData(h, ready, out, total)
<1> DEFINE h == MsgSrc[m]
           needGrant == MsgSize[m] - TotalUnsched(m)
           out == [outbndMsg EXCEPT ![m] =
                     [status |-> "active", bytesToSched |-> needGrant,
                      bytesLeft |-> MsgSize[m], txPkts |-> ReqUnschedDataPkts(m)]]
           ready == outbndMsgSet[h] \cup {Entry(m, out)}
           total == bytesLeftToSend[h] + MsgSize[m]
<1>1. outbndMsg[m].status = "new" /\ SendOrQueueData(h, ready, out, total)
  BY DEF AppSend, Started
<1>2. /\ h \in Host
      /\ needGrant \in Nat
      /\ MsgSize[m] \in Int
  BY UnschedBounds, MsgAssumption
<1>3. Prepared(h, ready, out, total)
  <2>1. /\ out \in [Msg -> OutboundMessage]
        /\ out[m].status = "active"
        /\ out[m].txPkts # {}
        /\ \A k \in Msg \ {m} : out[k] = outbndMsg[k]
    BY <1>2, UnschedPktsType DEF Inv, TypeOK, OutboundMessage
  <2>2. total \in Int
    BY <1>2 DEF Inv, TypeOK
  <2>3. \A k \in Host : outbndMsgSet[k] = ReadySet(k, outbndMsg)
    BY DEF Inv, ReadySetExact
  <2>4. ready = ReadySet(h, out)
    BY <1>1, <1>2, <2>1, <2>3 DEF ReadySet, Entry
  <2>5. \A k \in Host \ {h} : outbndMsgSet[k] = ReadySet(k, out)
    BY <1>1, <2>1, <2>3 DEF ReadySet, Entry
  <2> QED BY <2>1, <2>2, <2>4, <2>5 DEF Prepared
<1> QED BY <1>1, <1>3

\* processReceivedGrant prepares them with one packet more.
LEMMA ReceiveGrantPrepared ==
  ASSUME Inv, NEW g \in grantNet, ReceiveGrant(g)
  PROVE  LET m == g.msg
             h == MsgSrc[m]
             p == SchedPkt(g)
             out == [outbndMsg EXCEPT ![m].txPkts = @ \cup {p},
                                      ![m].bytesToSched = @ - p.len]
             ready == (outbndMsgSet[h] \ {Entry(m, outbndMsg)}) \cup {Entry(m, out)}
         IN  /\ Prepared(h, ready, out, bytesLeftToSend[h])
             /\ SendOrQueueData(h, ready, out, bytesLeftToSend[h])
<1> DEFINE m == g.msg
           h == MsgSrc[m]
           p == SchedPkt(g)
           out == [outbndMsg EXCEPT ![m].txPkts = @ \cup {p},
                                    ![m].bytesToSched = @ - p.len]
           ready == (outbndMsgSet[h] \ {Entry(m, outbndMsg)}) \cup {Entry(m, out)}
<1>1. /\ outbndMsg[m].status = "active"
      /\ SendOrQueueData(h, ready, out, bytesLeftToSend[h])
  BY DEF ReceiveGrant, Active
<1>2. /\ g \in Grant
      /\ m \in Msg
      /\ h \in Host
  BY MsgAssumption DEF Inv, TypeOK, Grant
<1>3. /\ p \in Pkt
      /\ p.len \in Nat
      /\ outbndMsg[m].bytesToSched - p.len \in Nat
  <2>1. p \in Pkt /\ outbndMsg[m].bytesToSched - p.len \in Nat
    BY <1>2, SchedPktType DEF Inv
  <2> HIDE DEF p
  <2> QED BY <2>1 DEF Pkt
<1>4. Prepared(h, ready, out, bytesLeftToSend[h])
  <2> HIDE DEF p
  <2>1. /\ out \in [Msg -> OutboundMessage]
        /\ out[m].status = "active"
        /\ out[m].txPkts # {}
        /\ out[m].bytesLeft = outbndMsg[m].bytesLeft
        /\ \A k \in Msg \ {m} : out[k] = outbndMsg[k]
    BY <1>1, <1>2, <1>3, SMTT(30) DEF Inv, TypeOK, OutboundMessage
  <2>2. bytesLeftToSend[h] \in Int
    BY <1>2 DEF Inv, TypeOK
  <2>3. \A k \in Host : outbndMsgSet[k] = ReadySet(k, outbndMsg)
    BY DEF Inv, ReadySetExact
  <2> HIDE DEF out
  <2>4. ready = outbndMsgSet[h] \cup {Entry(m, out)}
    BY <2>1 DEF Entry
  <2>5. ready = ReadySet(h, out)
    BY <1>1, <1>2, <2>1, <2>3, <2>4 DEF ReadySet, Entry
  <2>6. \A k \in Host \ {h} : outbndMsgSet[k] = ReadySet(k, out)
    BY <1>1, <2>1, <2>3 DEF ReadySet, Entry
  <2> QED BY <2>1, <2>2, <2>5, <2>6 DEF Prepared
<1> QED BY <1>1, <1>4

LEMMA AppSendStep ==
  ASSUME Inv, NEW m \in Msg, AppSend(m), UNCHANGED offered
  PROVE  Inv'
<1> DEFINE h == MsgSrc[m]
           needGrant == MsgSize[m] - TotalUnsched(m)
           out == [outbndMsg EXCEPT ![m] =
                     [status |-> "active", bytesToSched |-> needGrant,
                      bytesLeft |-> MsgSize[m], txPkts |-> ReqUnschedDataPkts(m)]]
           ready == outbndMsgSet[h] \cup {Entry(m, out)}
           total == bytesLeftToSend[h] + MsgSize[m]
<1>1. /\ outbndMsg[m].status = "new"
      /\ SendOrQueueData(h, ready, out, total)
      /\ bytesNeedGrant' = [bytesNeedGrant EXCEPT ![h] = @ + needGrant]
      /\ UNCHANGED <<outGrantQueue, grantNet>>
  BY DEF AppSend, Started
<1>2. /\ h \in Host
      /\ needGrant \in Nat
      /\ MsgSize[m] \in Int
  BY UnschedBounds, MsgAssumption
<1>3. Prepared(h, ready, out, total)
  BY AppSendPrepared
<1>4. bytesNeedGrant' \in [Host -> Int]
  BY <1>1, <1>2 DEF Inv, TypeOK
<1> HIDE DEF h, ready, out, total
<1>5. /\ outbndMsg' \in [Msg -> OutboundMessage]
      /\ bytesLeftToSend' \in [Host -> Int]
      /\ pktsSent' \subseteq Pkt
      /\ sendTimer' \in [Host -> BOOLEAN]
      /\ outbndMsgSet' \in [Host -> SUBSET (Int \X Msg)]
      /\ IdleMeansDrained'
      /\ ReadySetExact'
  BY <1>1, <1>2, <1>3, SendOrQueueDataStep
<1> QED BY <1>1, <1>4, <1>5 DEF Inv, TypeOK

LEMMA ReceiveGrantStep ==
  ASSUME Inv, NEW g \in grantNet, ReceiveGrant(g), UNCHANGED offered
  PROVE  Inv'
<1> DEFINE m == g.msg
           h == MsgSrc[m]
           p == SchedPkt(g)
           out == [outbndMsg EXCEPT ![m].txPkts = @ \cup {p},
                                    ![m].bytesToSched = @ - p.len]
           ready == (outbndMsgSet[h] \ {Entry(m, outbndMsg)}) \cup {Entry(m, out)}
<1>1. /\ outbndMsg[m].status = "active"
      /\ grantNet' = grantNet \ {g}
      /\ bytesNeedGrant' = [bytesNeedGrant EXCEPT ![h] = @ - p.len]
      /\ SendOrQueueData(h, ready, out, bytesLeftToSend[h])
      /\ UNCHANGED outGrantQueue
  BY DEF ReceiveGrant, Active
<1>2. /\ g \in Grant
      /\ m \in Msg
      /\ h \in Host
  BY MsgAssumption DEF Inv, TypeOK, Grant
<1>3. /\ p \in Pkt
      /\ p.len \in Nat
      /\ outbndMsg[m].bytesToSched - p.len \in Nat
  <2>1. p \in Pkt /\ outbndMsg[m].bytesToSched - p.len \in Nat
    BY <1>2, SchedPktType DEF Inv
  <2> HIDE DEF p
  <2> QED BY <2>1 DEF Pkt
<1>4. Prepared(h, ready, out, bytesLeftToSend[h])
  BY ReceiveGrantPrepared
<1>5. /\ bytesNeedGrant' \in [Host -> Int]
      /\ grantNet' \subseteq Grant
  BY <1>1, <1>2, <1>3 DEF Inv, TypeOK
<1> HIDE DEF h, ready, out, p
<1>6. /\ outbndMsg' \in [Msg -> OutboundMessage]
      /\ bytesLeftToSend' \in [Host -> Int]
      /\ pktsSent' \subseteq Pkt
      /\ sendTimer' \in [Host -> BOOLEAN]
      /\ outbndMsgSet' \in [Host -> SUBSET (Int \X Msg)]
      /\ IdleMeansDrained'
      /\ ReadySetExact'
  BY <1>1, <1>2, <1>4, SendOrQueueDataStep
<1> QED BY <1>1, <1>5, <1>6 DEF Inv, TypeOK

LEMMA SendTimerStep ==
  ASSUME Inv, NEW h \in Host, SendTimer(h), UNCHANGED offered
  PROVE  Inv'
<1>1. CASE \E g \in outGrantQueue[h] :
             /\ outGrantQueue' = [outGrantQueue EXCEPT ![h] = @ \ {g}]
             /\ grantNet' = grantNet \cup {g}
             /\ UNCHANGED <<outbndMsg, hostVars, sendTimer, pktsSent>>
  <2>1. sendTimer[h]
    BY DEF SendTimer
  <2>2. TypeOK'
    BY <1>1 DEF Inv, TypeOK, hostVars
  <2>3. IdleMeansDrained'
    BY <1>1, <2>1 DEF Inv, TypeOK, IdleMeansDrained, hostVars
  <2>4. ReadySetExact'
    BY <1>1 DEF Inv, ReadySetExact, ReadySet, Entry, hostVars
  <2> QED BY <2>2, <2>3, <2>4 DEF Inv
<1>2. CASE /\ TransmitData(h, outbndMsgSet[h], outbndMsg, bytesLeftToSend[h])
           /\ UNCHANGED <<bytesNeedGrant, outGrantQueue, grantNet>>
  <2>1. Prepared(h, outbndMsgSet[h], outbndMsg, bytesLeftToSend[h])
    BY DEF Prepared, Inv, TypeOK, ReadySetExact
  <2>2. /\ outbndMsg' \in [Msg -> OutboundMessage]
        /\ bytesLeftToSend' \in [Host -> Int]
        /\ pktsSent' \subseteq Pkt
        /\ sendTimer' = [sendTimer EXCEPT ![h] = TRUE]
        /\ outbndMsgSet' \in [Host -> SUBSET (Int \X Msg)]
        /\ ReadySetExact'
    BY <1>2, <2>1, TransmitDataStep DEF Inv
  <2>3. \A k \in Host \ {h} : outbndMsgSet'[k] = outbndMsgSet[k]
    BY <1>2 DEF TransmitData, Inv, TypeOK
  <2>4. IdleMeansDrained'
    BY <1>2, <2>2, <2>3 DEF Inv, TypeOK, IdleMeansDrained
  <2>5. TypeOK'
    BY <1>2, <2>2 DEF Inv, TypeOK
  <2> QED BY <2>2, <2>4, <2>5 DEF Inv
<1>3. CASE /\ outGrantQueue[h] = {}
           /\ outbndMsgSet[h] = {}
           /\ sendTimer' = [sendTimer EXCEPT ![h] = FALSE]
           /\ UNCHANGED <<outbndMsg, hostVars, outGrantQueue, netVars>>
  <2>1. TypeOK'
    BY <1>3 DEF Inv, TypeOK, hostVars, netVars
  <2>2. IdleMeansDrained'
    BY <1>3 DEF Inv, TypeOK, IdleMeansDrained, hostVars
  <2>3. ReadySetExact'
    BY <1>3 DEF Inv, ReadySetExact, ReadySet, Entry, hostVars
  <2> QED BY <2>1, <2>2, <2>3 DEF Inv
<1> QED BY <1>1, <1>2, <1>3 DEF SendTimer

LEMMA ReceiverGrantsStep ==
  ASSUME Inv, NEW h \in Host, NEW granted \in SUBSET Msg, ReceiverGrants(h, granted)
  PROVE  Inv'
<1> DEFINE grants == {NextGrant(m, offered[m]) : m \in granted}
<1>1. /\ \A m \in granted : offered[m] < MsgSize[m]
      /\ SendOrQueueGrants(h, grants)
      /\ offered' = [m \in Msg |->
                       IF m \in granted THEN offered[m] + NextGrant(m, offered[m]).len
                                        ELSE offered[m]]
  BY DEF ReceiverGrants, NeedsGrant
<1>2. /\ grants \subseteq Grant
      /\ \A m \in granted : NextGrant(m, offered[m]).len \in Nat
  BY <1>1, NextGrantType DEF Inv, TypeOK
<1>3. offered' \in [Msg -> Nat]
  BY <1>1, <1>2 DEF Inv, TypeOK
<1> HIDE DEF grants
<1>4. UNCHANGED <<outbndMsg, outbndMsgSet, bytesLeftToSend, bytesNeedGrant, pktsSent>>
  BY <1>1 DEF SendOrQueueGrants, hostVars
<1>5. ReadySetExact'
  BY <1>4 DEF Inv, ReadySetExact, ReadySet, Entry
<1>6. CASE /\ grants = {} \/ sendTimer[h]
           /\ outGrantQueue' = [outGrantQueue EXCEPT ![h] = @ \cup grants]
           /\ UNCHANGED <<grantNet, sendTimer>>
  <2>1. TypeOK'
    BY <1>2, <1>3, <1>4, <1>6 DEF Inv, TypeOK
  <2>2. \A k \in Host : ~sendTimer[k] => outGrantQueue'[k] = outGrantQueue[k]
    BY <1>6 DEF Inv, TypeOK
  <2>3. IdleMeansDrained'
    BY <1>4, <1>6, <2>2 DEF Inv, IdleMeansDrained
  <2> QED BY <1>5, <2>1, <2>3 DEF Inv
<1>7. CASE /\ ~sendTimer[h]
           /\ \E g \in grants :
                /\ grantNet' = grantNet \cup {g}
                /\ outGrantQueue' = [outGrantQueue EXCEPT ![h] = @ \cup (grants \ {g})]
                /\ sendTimer' = [sendTimer EXCEPT ![h] = TRUE]
  <2>1. PICK g \in grants :
          /\ grantNet' = grantNet \cup {g}
          /\ outGrantQueue' = [outGrantQueue EXCEPT ![h] = @ \cup (grants \ {g})]
          /\ sendTimer' = [sendTimer EXCEPT ![h] = TRUE]
    BY <1>7
  <2>2. TypeOK'
    BY <1>2, <1>3, <1>4, <2>1 DEF Inv, TypeOK
  <2>3. IdleMeansDrained'
    BY <1>4, <2>1 DEF Inv, TypeOK, IdleMeansDrained
  <2> QED BY <1>5, <2>2, <2>3 DEF Inv
<1> QED BY <1>1, <1>6, <1>7 DEF SendOrQueueGrants

-----------------------------------------------------------------------------
(* The theorems.                                                            *)

LEMMA InitInv == Init => Inv
<1> SUFFICES ASSUME Init PROVE Inv
  OBVIOUS
<1>1. TypeOK
  BY UnschedBounds DEF Init, SenderInit, TypeOK, OutboundMessage
<1>2. IdleMeansDrained
  BY DEF Init, SenderInit, IdleMeansDrained
<1>3. ReadySetExact
  BY DEF Init, SenderInit, ReadySetExact, ReadySet, Entry
<1> QED BY <1>1, <1>2, <1>3 DEF Inv

LEMMA NextInv == Inv /\ [Next]_vars => Inv'
<1> SUFFICES ASSUME Inv, [Next]_vars PROVE Inv'
  OBVIOUS
<1>1. ASSUME NEW m \in Msg, AppSend(m), UNCHANGED offered PROVE Inv'
  BY <1>1, AppSendStep
<1>2. ASSUME NEW g \in grantNet, ReceiveGrant(g), UNCHANGED offered PROVE Inv'
  BY <1>2, ReceiveGrantStep
<1>3. ASSUME NEW h \in Host, SendTimer(h), UNCHANGED offered PROVE Inv'
  BY <1>3, SendTimerStep
<1>4. ASSUME NEW h \in Host, NEW granted \in SUBSET Msg, ReceiverGrants(h, granted)
      PROVE  Inv'
  BY <1>4, ReceiverGrantsStep
<1>5. CASE UNCHANGED vars
  <2>1. UNCHANGED <<outbndMsg, outbndMsgSet, bytesLeftToSend, bytesNeedGrant,
                    sendTimer, outGrantQueue, pktsSent, grantNet, offered>>
    BY <1>5 DEF vars, senderVars
  <2> QED BY <2>1 DEF Inv, TypeOK, IdleMeansDrained, ReadySetExact, ReadySet, Entry
<1> QED BY <1>1, <1>2, <1>3, <1>4, <1>5 DEF Next, SenderNext

LEMMA AlwaysInv == Spec => []Inv
BY InitInv, NextInv, PTL DEF Spec

\* The fields of every SendController keep their types, for any set of hosts
\* and messages.
THEOREM TypeCorrect == Spec => []TypeOK
<1>1. Inv => TypeOK
  BY DEF Inv
<1> QED BY AlwaysInv, <1>1, PTL

\* A NIC is idle only when neither a grant nor a packet waits for it: the two
\* assertions of sendOrQueue that guard the idle NIC never fail, and no
\* message waits for a timer that is not scheduled.
THEOREM IdleNicIsDrained == Spec => []IdleMeansDrained
<1>1. Inv => IdleMeansDrained
  BY DEF Inv
<1> QED BY AlwaysInv, <1>1, PTL

\* outbndMsgSet holds exactly the messages with a packet ready, each under its
\* current key: std::set::erase always finds what it is asked to remove.
THEOREM ReadySetIsExact == Spec => []ReadySetExact
<1>1. Inv => ReadySetExact
  BY DEF Inv
<1> QED BY AlwaysInv, <1>1, PTL

-----------------------------------------------------------------------------
(* The bytes of a message.                                                  *)


\* The bytes of message m with outbound state o, when the packets sent of it
\* were sent, grants are on their way, and off bytes were let go.
Divided(m, o, sent, grants, off) ==
  /\ off \in Nat /\ TotalUnsched(m) <= off /\ off <= MsgSize[m]
  /\ o \in OutboundMessage
  /\ sent \subseteq {p \in Pkt : p.msg = m}
  /\ grants \subseteq {g \in Grant : g.msg = m /\ g.len > 0}
  /\ o.status = "new" => sent = {} /\ grants = {} /\ off = TotalUnsched(m)
  /\ o.status # "new" =>
       /\ o.txPkts \subseteq {p \in Pkt : p.msg = m}
       /\ o.txPkts \cap sent = {}
       /\ Disjoint(sent \cup o.txPkts)
       /\ Disjoint(grants)
       /\ Apart(sent \cup o.txPkts, grants)
       /\ Bytes(sent \cup o.txPkts) \cup Bytes(grants) = 0 .. off - 1
       /\ o.bytesToSched = Cardinality(Whole(m) \ Bytes(sent \cup o.txPkts))
       /\ o.bytesLeft = Cardinality(Whole(m) \ Bytes(sent))
       /\ o.status = "done" <=> o.bytesLeft = 0

AllDivided(out, sent, grants, off) ==
  \A m \in Msg : Divided(m, out[m], {p \in sent : p.msg = m},
                         {g \in grants : g.msg = m}, off[m])

\* A grant waits only at the host that issued it, and not on the network too.
GrantsPlaced ==
  \A h \in Host : \A g \in outGrantQueue[h] : MsgDst[g.msg] = h /\ g \notin grantNet

ByteInv ==
  /\ AllDivided(outbndMsg, pktsSent, Outstanding, offered)
  /\ GrantsPlaced

-----------------------------------------------------------------------------
(* What a step does to the division of the bytes of one message.            *)

\* processSendMsgFromApp lets go of the request and unscheduled packets.
LEMMA DividedStart ==
  ASSUME NEW m \in Msg, NEW o, NEW sent, NEW grants, NEW off,
         Divided(m, o, sent, grants, off), o.status = "new"
  PROVE  Divided(m, [status |-> "active", bytesToSched |-> MsgSize[m] - TotalUnsched(m),
                     bytesLeft |-> MsgSize[m], txPkts |-> ReqUnschedDataPkts(m)],
                 sent, grants, off)
<1> DEFINE tx == ReqUnschedDataPkts(m)
           n == TotalUnsched(m)
           new == [status |-> "active", bytesToSched |-> MsgSize[m] - n,
                   bytesLeft |-> MsgSize[m], txPkts |-> tx]
<1>1. sent = {} /\ grants = {} /\ off = n
  BY DEF Divided
<1>2. n \in Nat /\ n <= MsgSize[m]
  BY UnschedBounds
<1>3. /\ tx \subseteq {p \in Pkt : p.msg = m}
      /\ Disjoint(tx)
      /\ Bytes(tx) = 0 .. n - 1
  BY UnschedPktsDivide
<1> HIDE DEF tx, n
<1>4. /\ MsgSize[m] \in Nat \ {0}
      /\ Cardinality(Whole(m)) = MsgSize[m]
      /\ 0 .. n - 1 \subseteq Whole(m)
      /\ IsFiniteSet(0 .. n - 1)
      /\ Cardinality(0 .. n - 1) = n
  BY <1>2, WholeSize
<1>5. Bytes({}) = {}
  BY DEF Bytes
<1>6. Cardinality(Whole(m) \ ({} \cup (0 .. n - 1))) =
        Cardinality(Whole(m) \ {}) - Cardinality(0 .. n - 1)
  <2> DEFINE C == 0 .. n - 1
  <2>1. IsFiniteSet(C) /\ C \subseteq Whole(m) /\ {} \cap C = {}
    BY <1>4
  <2> HIDE DEF C
  <2>2. Cardinality(Whole(m) \ ({} \cup C)) = Cardinality(Whole(m) \ {}) - Cardinality(C)
    BY <2>1, TakeOut
  <2> QED BY <2>2 DEF C
<1>7. Whole(m) \ {} = Whole(m) /\ {} \cup (0 .. n - 1) = 0 .. n - 1
  OBVIOUS
<1>8. /\ MsgSize[m] - n = Cardinality(Whole(m) \ Bytes(tx))
      /\ MsgSize[m] = Cardinality(Whole(m) \ {})
  BY <1>3, <1>4, <1>6, <1>7
<1>9. new \in OutboundMessage
  BY <1>2, <1>3, <1>4 DEF OutboundMessage
<1>10. /\ sent \cup tx = tx
       /\ tx \cap sent = {}
       /\ Disjoint(grants)
       /\ Apart(tx, grants)
       /\ Bytes(tx) \cup Bytes(grants) = 0 .. off - 1
  BY <1>1, <1>3, <1>5 DEF Disjoint, Apart
<1>11. /\ off \in Nat /\ n <= off /\ off <= MsgSize[m]
       /\ sent \subseteq {p \in Pkt : p.msg = m}
       /\ grants \subseteq {g \in Grant : g.msg = m /\ g.len > 0}
  BY <1>1, <1>2
<1>12. Divided(m, new, sent, grants, off)
  BY <1>1, <1>3, <1>4, <1>5, <1>8, <1>9, <1>10, <1>11 DEF Divided, n
<1> QED BY <1>12 DEF tx, n

\* A grant on its way finds its message started, not yet transmitted, and with
\* the granted bytes unscheduled.
LEMMA DividedGrant ==
  ASSUME NEW m \in Msg, NEW o, NEW sent, NEW grants, NEW off,
         Divided(m, o, sent, grants, off), NEW g \in grants
  PROVE  /\ o.status = "active"
         /\ g \in Grant /\ g.msg = m /\ g.len > 0
         /\ o.bytesToSched >= g.len
         /\ IsFiniteSet(BytesOf(g))
         /\ Cardinality(BytesOf(g)) = g.len
         /\ BytesOf(g) \subseteq Whole(m)
         /\ BytesOf(g) # {}
         /\ Bytes(sent \cup o.txPkts) \cap BytesOf(g) = {}
<1>1. o.status # "new" /\ o \in OutboundMessage
  BY DEF Divided
<1>2. g \in Grant /\ g.msg = m /\ g.len > 0 /\ g.first \in Nat /\ g.len \in Nat
  BY DEF Divided, Grant
<1>3. /\ IsFiniteSet(BytesOf(g))
      /\ Cardinality(BytesOf(g)) = g.len
      /\ BytesOf(g) # {}
  BY <1>2, BytesOfSize
<1>4. /\ Apart(sent \cup o.txPkts, grants)
      /\ Bytes(sent \cup o.txPkts) \cup Bytes(grants) = 0 .. off - 1
      /\ o.bytesToSched = Cardinality(Whole(m) \ Bytes(sent \cup o.txPkts))
      /\ o.bytesLeft = Cardinality(Whole(m) \ Bytes(sent))
      /\ o.status = "done" <=> o.bytesLeft = 0
      /\ off \in Nat /\ off <= MsgSize[m]
  BY <1>1 DEF Divided
<1>5. BytesOf(g) \subseteq Bytes(grants)
  BY DEF Bytes
<1>6. BytesOf(g) \subseteq Whole(m)
  BY <1>4, <1>5, WholeSize
<1>7. Bytes(sent \cup o.txPkts) \cap BytesOf(g) = {}
  BY <1>4 DEF Apart, Bytes
<1>8. Bytes(sent) \cap BytesOf(g) = {}
  BY <1>7 DEF Bytes
<1>9. o.bytesToSched >= g.len
  <2>1. /\ Cardinality(BytesOf(g)) <= Cardinality(Whole(m) \ Bytes(sent \cup o.txPkts))
        /\ Cardinality(Whole(m) \ Bytes(sent \cup o.txPkts)) \in Nat
    BY <1>3, <1>6, <1>7, TakeOut
  <2> QED BY <1>2, <1>3, <1>4, <2>1
<1>10. o.bytesLeft # 0
  <2>1. /\ Cardinality(BytesOf(g)) <= Cardinality(Whole(m) \ Bytes(sent))
        /\ Cardinality(Whole(m) \ Bytes(sent)) \in Nat
    BY <1>3, <1>6, <1>8, TakeOut
  <2> QED BY <1>2, <1>3, <1>4, <2>1
<1>11. o.status = "active"
  BY <1>1, <1>4, <1>10 DEF OutboundMessage
<1> QED BY <1>2, <1>3, <1>6, <1>7, <1>9, <1>11

\* The packet that answers a grant carries all its bytes, which move from the
\* grants to the packets ready.
LEMMA DividedSched ==
  ASSUME NEW m \in Msg, NEW o, NEW sent, NEW grants, NEW off,
         Divided(m, o, sent, grants, off), NEW g \in grants,
         NEW p \in Pkt, p.msg = m, p.first = g.first,
         p.len = Lesser(g.len, o.bytesToSched)
  PROVE  Divided(m, [o EXCEPT !.txPkts = @ \cup {p}, !.bytesToSched = @ - p.len],
                 sent, grants \ {g}, off)
<1> DEFINE new == [o EXCEPT !.txPkts = @ \cup {p}, !.bytesToSched = @ - p.len]
           B == Bytes(sent \cup o.txPkts)
           C == BytesOf(g)
<1>1. /\ o.status = "active"
      /\ g \in Grant /\ g.msg = m /\ g.len > 0
      /\ o.bytesToSched >= g.len
      /\ IsFiniteSet(C)
      /\ Cardinality(C) = g.len
      /\ C \subseteq Whole(m)
      /\ C # {}
      /\ B \cap C = {}
  BY DividedGrant
<1>2. o \in OutboundMessage /\ g.len \in Nat
  BY <1>1 DEF Divided, Grant
<1>3. p.len = g.len /\ BytesOf(p) = C
  <2>1. p.len = g.len
    BY <1>1, <1>2 DEF Lesser, OutboundMessage
  <2> QED BY <2>1 DEF BytesOf
<1>4. /\ sent \subseteq {q \in Pkt : q.msg = m}
      /\ o.txPkts \subseteq {q \in Pkt : q.msg = m}
      /\ o.txPkts \cap sent = {}
      /\ Disjoint(sent \cup o.txPkts)
      /\ Disjoint(grants)
      /\ Apart(sent \cup o.txPkts, grants)
      /\ B \cup Bytes(grants) = 0 .. off - 1
      /\ o.bytesToSched = Cardinality(Whole(m) \ B)
      /\ o.bytesLeft = Cardinality(Whole(m) \ Bytes(sent))
      /\ o.status = "done" <=> o.bytesLeft = 0
      /\ off \in Nat /\ TotalUnsched(m) <= off /\ off <= MsgSize[m]
      /\ grants \subseteq {i \in Grant : i.msg = m /\ i.len > 0}
  BY <1>1 DEF Divided
<1>5. /\ new \in OutboundMessage
      /\ new.status = o.status
      /\ new.bytesLeft = o.bytesLeft
      /\ new.bytesToSched = o.bytesToSched - g.len
      /\ new.txPkts = o.txPkts \cup {p}
  <2>1. o.txPkts \cup {p} \in SUBSET Pkt /\ o.bytesToSched - p.len \in Nat
    BY <1>1, <1>2, <1>3 DEF OutboundMessage
  <2>2. p.len = g.len
    BY <1>3
  <2> HIDE DEF B, C
  <2> QED BY <1>2, <2>1, <2>2 DEF OutboundMessage
<1> HIDE DEF new, C
<1>6. Bytes(sent \cup new.txPkts) = B \cup C
  BY <1>3, <1>5 DEF Bytes
<1>7. Bytes(grants) = Bytes(grants \ {g}) \cup C
  BY DEF Bytes, C
<1>8. Cardinality(Whole(m) \ (B \cup C)) = o.bytesToSched - g.len
  <2>1. IsFiniteSet(C) /\ C \subseteq Whole(m) /\ B \cap C = {}
    BY <1>1
  <2> HIDE DEF B
  <2>2. Cardinality(Whole(m) \ (B \cup C)) = Cardinality(Whole(m) \ B) - Cardinality(C)
    BY <2>1, TakeOut, ZenonT(40)
  <2> QED BY <1>1, <1>4, <2>2
<1>9. \A q \in sent \cup o.txPkts : BytesOf(q) \cap C = {}
  BY <1>4 DEF Apart, C
<1>10. p \notin sent /\ new.txPkts \cap sent = {}
  BY <1>1, <1>3, <1>4, <1>5, <1>9
<1>11. Disjoint(sent \cup new.txPkts)
  BY <1>3, <1>4, <1>5, <1>9 DEF Disjoint
<1>12. Disjoint(grants \ {g}) /\ \A i \in grants \ {g} : C \cap BytesOf(i) = {}
  BY <1>4 DEF Disjoint, C
<1>13. Apart(sent \cup new.txPkts, grants \ {g})
  BY <1>3, <1>4, <1>5, <1>12 DEF Apart
<1>14. Bytes(sent \cup new.txPkts) \cup Bytes(grants \ {g}) = 0 .. off - 1
  BY <1>4, <1>6, <1>7
<1>15. Divided(m, new, sent, grants \ {g}, off)
  <2> HIDE DEF B
  <2>1. new.bytesToSched = Cardinality(Whole(m) \ Bytes(sent \cup new.txPkts))
    BY <1>5, <1>6, <1>8
  <2>2. new.status = "active" /\ (new.status = "done" <=> new.bytesLeft = 0)
    BY <1>1, <1>4, <1>5
  <2>3. new.bytesLeft = Cardinality(Whole(m) \ Bytes(sent))
    BY <1>4, <1>5
  <2> QED BY <1>4, <1>5, <1>10, <1>11, <1>12, <1>13, <1>14, <2>1, <2>2, <2>3 DEF Divided
<1> QED BY <1>15 DEF new

\* A transmission moves a packet from those ready to those sent.
LEMMA DividedSent ==
  ASSUME NEW m \in Msg, NEW o, NEW sent, NEW grants, NEW off,
         Divided(m, o, sent, grants, off), o.status = "active", NEW p \in o.txPkts
  PROVE  Divided(m, [o EXCEPT !.txPkts = @ \ {p}, !.bytesLeft = @ - p.len,
                              !.status = IF o.bytesLeft - p.len <= 0 THEN "done" ELSE @],
                 sent \cup {p}, grants, off)
<1> DEFINE left == o.bytesLeft - p.len
           new == [o EXCEPT !.txPkts = @ \ {p}, !.bytesLeft = @ - p.len,
                            !.status = IF left <= 0 THEN "done" ELSE @]
           B == Bytes(sent)
           C == BytesOf(p)
<1>1. /\ o \in OutboundMessage
      /\ sent \subseteq {q \in Pkt : q.msg = m}
      /\ o.txPkts \subseteq {q \in Pkt : q.msg = m}
      /\ o.txPkts \cap sent = {}
      /\ Disjoint(sent \cup o.txPkts)
      /\ Disjoint(grants)
      /\ Apart(sent \cup o.txPkts, grants)
      /\ Bytes(sent \cup o.txPkts) \cup Bytes(grants) = 0 .. off - 1
      /\ o.bytesToSched = Cardinality(Whole(m) \ Bytes(sent \cup o.txPkts))
      /\ o.bytesLeft = Cardinality(Whole(m) \ B)
      /\ off \in Nat /\ TotalUnsched(m) <= off /\ off <= MsgSize[m]
      /\ grants \subseteq {i \in Grant : i.msg = m /\ i.len > 0}
  BY DEF Divided
<1>2. p \in Pkt /\ p.msg = m /\ p.first \in Nat /\ p.len \in Nat
  BY <1>1 DEF Pkt
<1>3. IsFiniteSet(C) /\ Cardinality(C) = p.len
  BY <1>2, BytesOfSize
<1>4. C \subseteq Whole(m)
  <2>1. C \subseteq Bytes(sent \cup o.txPkts)
    BY DEF Bytes
  <2>2. 0 .. off - 1 \subseteq Whole(m)
    BY <1>1, WholeSize
  <2> QED BY <1>1, <2>1, <2>2
<1>5. B \cap C = {}
  <2>1. \A q \in sent : BytesOf(q) \cap C = {}
    BY <1>1 DEF Disjoint
  <2> QED BY <2>1 DEF Bytes
<1> HIDE DEF B, C
<1>6. /\ Cardinality(Whole(m) \ (B \cup C)) = left
      /\ left \in Nat
  <2>1. /\ Cardinality(C) <= Cardinality(Whole(m) \ B)
        /\ Cardinality(Whole(m) \ (B \cup C)) = Cardinality(Whole(m) \ B) - Cardinality(C)
        /\ Cardinality(Whole(m) \ B) \in Nat
    BY <1>3, <1>4, <1>5, TakeOut
  <2> QED BY <1>1, <1>2, <1>3, <2>1
<1> HIDE DEF left
<1>7. /\ new \in OutboundMessage
      /\ new.status = IF left <= 0 THEN "done" ELSE "active"
      /\ new.bytesLeft = left
      /\ new.bytesToSched = o.bytesToSched
      /\ new.txPkts = o.txPkts \ {p}
  <2>1. left \in Int /\ left = o.bytesLeft - p.len
    BY <1>6 DEF left
  <2>2. o \in OutboundMessage /\ o.status = "active"
    BY <1>1
  <2> QED BY <2>1, <2>2 DEF OutboundMessage
<1> HIDE DEF new
<1>8. (sent \cup {p}) \cup new.txPkts = sent \cup o.txPkts
  BY <1>7
<1>9. Bytes(sent \cup {p}) = B \cup C
  BY DEF Bytes, B, C
<1>10. /\ new.bytesLeft = Cardinality(Whole(m) \ Bytes(sent \cup {p}))
       /\ new.status = "done" <=> new.bytesLeft = 0
       /\ new.status # "new"
  BY <1>6, <1>7, <1>9
<1>11. /\ sent \cup {p} \subseteq {q \in Pkt : q.msg = m}
       /\ new.txPkts \subseteq {q \in Pkt : q.msg = m}
       /\ new.txPkts \cap (sent \cup {p}) = {}
  BY <1>1, <1>2, <1>7
<1>12. Divided(m, new, sent \cup {p}, grants, off)
  BY <1>1, <1>7, <1>8, <1>10, <1>11 DEF Divided
<1> QED BY <1>12 DEF new, left

\* The receiver lets go of the bytes of its next grant, the first ones that it
\* has not let go of before.
LEMMA DividedOffer ==
  ASSUME NEW m \in Msg, NEW o, NEW sent, NEW grants, NEW off,
         Divided(m, o, sent, grants, off), o.status # "new", off < MsgSize[m]
  PROVE  /\ Divided(m, o, sent, grants \cup {NextGrant(m, off)},
                    off + NextGrant(m, off).len)
         /\ NextGrant(m, off) \notin grants
<1> DEFINE g == NextGrant(m, off)
<1>1. /\ o \in OutboundMessage
      /\ sent \subseteq {q \in Pkt : q.msg = m}
      /\ Apart(sent \cup o.txPkts, grants)
      /\ Bytes(sent \cup o.txPkts) \cup Bytes(grants) = 0 .. off - 1
      /\ Disjoint(grants)
      /\ off \in Nat /\ TotalUnsched(m) <= off /\ off <= MsgSize[m]
      /\ grants \subseteq {i \in Grant : i.msg = m /\ i.len > 0}
  BY DEF Divided
<1>2. /\ g \in Grant /\ g.msg = m /\ g.first = off
      /\ g.len \in Nat /\ g.len > 0
      /\ off + g.len <= MsgSize[m]
  BY <1>1, MsgAssumption, SizeAssumption DEF NextGrant, Grant, Lesser
<1> HIDE DEF g
<1>3. /\ \A b \in BytesOf(g) : b \in Nat /\ off <= b
      /\ (0 .. off - 1) \cup BytesOf(g) = 0 .. (off + g.len) - 1
      /\ BytesOf(g) # {}
  BY <1>1, <1>2 DEF BytesOf
<1>4. /\ \A q \in sent \cup o.txPkts : BytesOf(q) \cap BytesOf(g) = {}
      /\ \A i \in grants : BytesOf(i) \cap BytesOf(g) = {}
  <2>1. (0 .. off - 1) \cap BytesOf(g) = {}
    BY <1>1, <1>3
  <2> QED BY <1>1, <2>1 DEF Bytes
<1>5. g \notin grants
  BY <1>3, <1>4
<1>6. Disjoint(grants \cup {g})
  BY <1>1, <1>4 DEF Disjoint
<1>7. Apart(sent \cup o.txPkts, grants \cup {g})
  BY <1>1, <1>4 DEF Apart
<1>8. Bytes(sent \cup o.txPkts) \cup Bytes(grants \cup {g}) = 0 .. (off + g.len) - 1
  <2>1. Bytes(grants \cup {g}) = Bytes(grants) \cup BytesOf(g)
    BY DEF Bytes
  <2> QED BY <1>1, <1>3, <2>1
<1>9. /\ off + g.len \in Nat /\ TotalUnsched(m) <= off + g.len
      /\ grants \cup {g} \subseteq {i \in Grant : i.msg = m /\ i.len > 0}
  BY <1>1, <1>2, UnschedBounds
<1>10. Divided(m, o, sent, grants \cup {g}, off + g.len)
  BY <1>1, <1>2, <1>6, <1>7, <1>8, <1>9 DEF Divided
<1> QED BY <1>5, <1>10 DEF g

-----------------------------------------------------------------------------
(* What an action does to the bytes of every message.                       *)

\* What a handler offers to the NIC: messages that are being sent.
Servable(ready, out) ==
  /\ out \in [Msg -> OutboundMessage]
  /\ \A e \in ready : e[2] \in Msg /\ out[e[2]].status = "active"

\* One transmission keeps the bytes of every message divided.
LEMMA TransmitBytes ==
  ASSUME NEW h \in Host, NEW ready, NEW out, NEW total, NEW grants, NEW off,
         Servable(ready, out), TransmitData(h, ready, out, total),
         AllDivided(out, pktsSent, grants, off)
  PROVE  AllDivided(outbndMsg', pktsSent', grants, off)
<1>1. PICK e \in ready : \E p \in out[e[2]].txPkts :
        LET m == e[2]
            left == out[m].bytesLeft - p.len
            sent == [out EXCEPT ![m].txPkts = @ \ {p}, ![m].bytesLeft = left,
                                ![m].status = IF left <= 0 THEN "done" ELSE @]
        IN outbndMsg' = sent /\ pktsSent' = pktsSent \cup {p}
  BY DEF TransmitData
<1> DEFINE m == e[2]
<1>2. m \in Msg /\ out[m].status = "active" /\ out \in [Msg -> OutboundMessage]
  BY DEF Servable
<1>3. PICK p \in out[m].txPkts :
        LET left == out[m].bytesLeft - p.len
            sent == [out EXCEPT ![m].txPkts = @ \ {p}, ![m].bytesLeft = left,
                                ![m].status = IF left <= 0 THEN "done" ELSE @]
        IN outbndMsg' = sent /\ pktsSent' = pktsSent \cup {p}
  BY <1>1
<1> HIDE DEF m
<1> DEFINE new == [out[m] EXCEPT !.txPkts = @ \ {p}, !.bytesLeft = @ - p.len,
                     !.status = IF out[m].bytesLeft - p.len <= 0 THEN "done" ELSE @]
           SentOf(k) == {q \in pktsSent : q.msg = k}
           GrantsOf(k) == {g \in grants : g.msg = k}
<1>4. /\ outbndMsg'[m] = new
      /\ \A k \in Msg \ {m} : outbndMsg'[k] = out[k]
      /\ pktsSent' = pktsSent \cup {p}
  BY <1>2, <1>3
<1>5. \A k \in Msg : Divided(k, out[k], SentOf(k), GrantsOf(k), off[k])
  BY DEF AllDivided
<1>6. p.msg = m
  BY <1>2, <1>5 DEF Divided
<1>7. /\ {q \in pktsSent' : q.msg = m} = SentOf(m) \cup {p}
      /\ \A k \in Msg \ {m} : {q \in pktsSent' : q.msg = k} = SentOf(k)
  BY <1>4, <1>6
<1> HIDE DEF SentOf, GrantsOf
<1>8. Divided(m, new, SentOf(m) \cup {p}, GrantsOf(m), off[m])
  BY <1>2, <1>5, DividedSent
<1> HIDE DEF new
<1>9. \A k \in Msg : Divided(k, outbndMsg'[k], {q \in pktsSent' : q.msg = k},
                             GrantsOf(k), off[k])
  BY <1>4, <1>5, <1>7, <1>8
<1> QED BY <1>9 DEF AllDivided, GrantsOf

\* sendOrQueue(NULL) keeps the bytes of every message divided.
LEMMA SendOrQueueBytes ==
  ASSUME NEW h \in Host, NEW ready, NEW out, NEW total, NEW grants, NEW off,
         Servable(ready, out), SendOrQueueData(h, ready, out, total),
         AllDivided(out, pktsSent, grants, off)
  PROVE  AllDivided(outbndMsg', pktsSent', grants, off)
<1>1. CASE outbndMsg' = out /\ pktsSent' = pktsSent
  BY <1>1
<1>2. CASE TransmitData(h, ready, out, total)
  BY <1>2, TransmitBytes
<1> QED BY <1>1, <1>2 DEF SendOrQueueData

\* The set that a controller keeps is servable.
LEMMA ReadySetServable ==
  ASSUME Inv, NEW h \in Host
  PROVE  Servable(outbndMsgSet[h], outbndMsg)
BY DEF Inv, TypeOK, ReadySetExact, ReadySet, Entry, Servable

\* A message that a handler changes is servable with the rest of the set.
LEMMA PreparedServable ==
  ASSUME Inv, NEW h \in Host, NEW m \in Msg, NEW o \in OutboundMessage,
         o.status = "active"
  PROVE  LET out == [outbndMsg EXCEPT ![m] = o]
         IN  /\ Servable(outbndMsgSet[h] \cup {Entry(m, out)}, out)
             /\ \A e : Servable((outbndMsgSet[h] \ {e}) \cup {Entry(m, out)}, out)
<1> DEFINE out == [outbndMsg EXCEPT ![m] = o]
<1>1. /\ out \in [Msg -> OutboundMessage]
      /\ out[m] = o
      /\ \A k \in Msg \ {m} : out[k] = outbndMsg[k]
  BY DEF Inv, TypeOK
<1>2. \A e \in outbndMsgSet[h] : e[2] \in Msg /\ outbndMsg[e[2]].status = "active"
  BY ReadySetServable DEF Servable
<1> HIDE DEF out
<1>3. Entry(m, out)[2] = m
  BY DEF Entry
<1>4. \A e \in outbndMsgSet[h] \cup {Entry(m, out)} :
        e[2] \in Msg /\ out[e[2]].status = "active"
  BY <1>1, <1>2, <1>3
<1> QED BY <1>1, <1>4 DEF Servable, out

\* A new message is cut into its request and unscheduled packets.
LEMMA AppSendBytes ==
  ASSUME Inv, ByteInv, NEW m \in Msg, AppSend(m), UNCHANGED offered
  PROVE  ByteInv'
<1> DEFINE h == MsgSrc[m]
           o == [status |-> "active", bytesToSched |-> MsgSize[m] - TotalUnsched(m),
                 bytesLeft |-> MsgSize[m], txPkts |-> ReqUnschedDataPkts(m)]
           out == [outbndMsg EXCEPT ![m] = o]
           ready == outbndMsgSet[h] \cup {Entry(m, out)}
           total == bytesLeftToSend[h] + MsgSize[m]
<1>1. /\ outbndMsg[m].status = "new"
      /\ SendOrQueueData(h, ready, out, total)
      /\ UNCHANGED <<outGrantQueue, grantNet>>
  BY DEF AppSend, Started
<1>2. h \in Host
  BY MsgAssumption
<1>3. \A k \in Msg : Divided(k, outbndMsg[k], {p \in pktsSent : p.msg = k},
                             {g \in Outstanding : g.msg = k}, offered[k])
  BY DEF ByteInv, AllDivided
<1>4. Divided(m, o, {p \in pktsSent : p.msg = m}, {g \in Outstanding : g.msg = m},
              offered[m])
  BY <1>1, <1>3, DividedStart
<1>5. o \in OutboundMessage /\ o.status = "active"
  <2>1. o \in OutboundMessage
    BY <1>4 DEF Divided
  <2> QED BY <2>1
<1> HIDE DEF o
<1>6. /\ out[m] = o
      /\ \A k \in Msg \ {m} : out[k] = outbndMsg[k]
  BY DEF Inv, TypeOK
<1>7. Servable(ready, out)
  BY <1>2, <1>5, PreparedServable
<1> HIDE DEF h, out, ready, total
<1>8. AllDivided(out, pktsSent, Outstanding, offered)
  BY <1>3, <1>4, <1>6 DEF AllDivided
<1>9. AllDivided(outbndMsg', pktsSent', Outstanding, offered)
  BY <1>1, <1>2, <1>7, <1>8, SendOrQueueBytes
<1>10. Outstanding' = Outstanding /\ offered' = offered
  BY <1>1 DEF Outstanding
<1>11. GrantsPlaced'
  BY <1>1 DEF ByteInv, GrantsPlaced
<1> QED BY <1>9, <1>10, <1>11 DEF ByteInv

\* A grant that arrives is answered with the packet of all its bytes.
LEMMA ReceiveGrantBytes ==
  ASSUME Inv, ByteInv, NEW g \in grantNet, ReceiveGrant(g), UNCHANGED offered
  PROVE  ByteInv'
<1> DEFINE m == g.msg
           h == MsgSrc[m]
           p == SchedPkt(g)
           o == [outbndMsg[m] EXCEPT !.txPkts = @ \cup {p}, !.bytesToSched = @ - p.len]
           out == [outbndMsg EXCEPT ![m] = o]
           ready == (outbndMsgSet[h] \ {Entry(m, outbndMsg)}) \cup {Entry(m, out)}
           SentOf(k) == {q \in pktsSent : q.msg = k}
           GrantsOf(k) == {i \in Outstanding : i.msg = k}
<1>1. /\ outbndMsg[m].status = "active"
      /\ grantNet' = grantNet \ {g}
      /\ UNCHANGED outGrantQueue
  BY DEF ReceiveGrant, Active
<1>2. /\ m \in Msg /\ h \in Host
      /\ outbndMsg \in [Msg -> OutboundMessage]
      /\ p \in Pkt /\ outbndMsg[m].bytesToSched - p.len \in Nat
  BY MsgAssumption, SchedPktType DEF Inv, TypeOK, Grant
<1>3. out = [outbndMsg EXCEPT ![m].txPkts = @ \cup {p}, ![m].bytesToSched = @ - p.len]
  BY <1>2
<1>4. SendOrQueueData(h, ready, out, bytesLeftToSend[h])
  BY <1>3 DEF ReceiveGrant
<1>5. \A k \in Msg : Divided(k, outbndMsg[k], SentOf(k), GrantsOf(k), offered[k])
  BY DEF ByteInv, AllDivided
<1>6. /\ g \in GrantsOf(m)
      /\ p.msg = m /\ p.first = g.first
      /\ p.len = Lesser(g.len, outbndMsg[m].bytesToSched)
  BY DEF Outstanding, SchedPkt
<1> HIDE DEF p
<1>7. o \in OutboundMessage /\ o.status = "active"
  BY <1>1, <1>2 DEF OutboundMessage
<1> HIDE DEF GrantsOf, SentOf
<1>8. Divided(m, o, SentOf(m), GrantsOf(m) \ {g}, offered[m])
  BY <1>2, <1>5, <1>6, DividedSched
<1>9. Servable(ready, out)
  <2> HIDE DEF o, h
  <2> QED BY <1>2, <1>7, PreparedServable
<1>10. /\ out[m] = o
       /\ \A k \in Msg \ {m} : out[k] = outbndMsg[k]
  <2> HIDE DEF o
  <2> QED BY <1>2
<1> HIDE DEF o, out, ready
<1>11. Outstanding' = Outstanding \ {g}
  BY <1>1 DEF Outstanding, ByteInv, GrantsPlaced
<1>12. /\ {i \in Outstanding' : i.msg = m} = GrantsOf(m) \ {g}
       /\ \A k \in Msg \ {m} : {i \in Outstanding' : i.msg = k} = GrantsOf(k)
  BY <1>11 DEF GrantsOf
<1> HIDE DEF m
<1>13. AllDivided(out, pktsSent, Outstanding', offered)
  <2>1. \A k \in Msg : Divided(k, out[k], SentOf(k), {i \in Outstanding' : i.msg = k},
                               offered[k])
    BY <1>5, <1>8, <1>10, <1>12
  <2> QED BY <2>1 DEF AllDivided, SentOf
<1> HIDE DEF h
<1>14. AllDivided(outbndMsg', pktsSent', Outstanding', offered)
  BY <1>2, <1>4, <1>9, <1>13, SendOrQueueBytes
<1>15. GrantsPlaced'
  BY <1>1 DEF ByteInv, GrantsPlaced
<1> QED BY <1>14, <1>15 DEF ByteInv

\* The timer sends a queued grant or a packet.
LEMMA SendTimerBytes ==
  ASSUME Inv, ByteInv, NEW h \in Host, SendTimer(h), UNCHANGED offered
  PROVE  ByteInv'
<1>1. AllDivided(outbndMsg, pktsSent, Outstanding, offered)
  BY DEF ByteInv
<1>2. ASSUME NEW g \in outGrantQueue[h],
             outGrantQueue' = [outGrantQueue EXCEPT ![h] = @ \ {g}],
             grantNet' = grantNet \cup {g},
             UNCHANGED <<outbndMsg, hostVars, sendTimer, pktsSent>>
      PROVE  ByteInv'
  <2>1. /\ outGrantQueue'[h] = outGrantQueue[h] \ {g}
        /\ \A k \in Host \ {h} : outGrantQueue'[k] = outGrantQueue[k]
    BY <1>2 DEF Inv, TypeOK
  <2>2. Outstanding' = Outstanding
    BY <1>2, <2>1 DEF Outstanding
  <2>3. GrantsPlaced'
    BY <1>2, <2>1 DEF ByteInv, GrantsPlaced
  <2> QED BY <1>1, <1>2, <2>2, <2>3 DEF ByteInv
<1>3. CASE /\ TransmitData(h, outbndMsgSet[h], outbndMsg, bytesLeftToSend[h])
           /\ UNCHANGED <<bytesNeedGrant, outGrantQueue, grantNet>>
  <2>1. AllDivided(outbndMsg', pktsSent', Outstanding, offered)
    BY <1>1, <1>3, ReadySetServable, TransmitBytes
  <2>2. Outstanding' = Outstanding /\ GrantsPlaced'
    BY <1>3 DEF Outstanding, ByteInv, GrantsPlaced
  <2> QED BY <2>1, <2>2 DEF ByteInv
<1>4. CASE UNCHANGED <<outbndMsg, hostVars, outGrantQueue, netVars>>
  <2>1. Outstanding' = Outstanding /\ GrantsPlaced'
    BY <1>4 DEF Outstanding, ByteInv, GrantsPlaced, netVars
  <2> QED BY <1>1, <1>4, <2>1 DEF ByteInv, netVars
<1> QED BY <1>2, <1>3, <1>4 DEF SendTimer

\* sendOrQueue(grant) puts every new grant on its way, in one place.
LEMMA SendOrQueueGrantsPlaced ==
  ASSUME Inv, GrantsPlaced, NEW h \in Host, NEW grants, SendOrQueueGrants(h, grants),
         grants \cap Outstanding = {}, \A g \in grants : MsgDst[g.msg] = h
  PROVE  Outstanding' = Outstanding \cup grants /\ GrantsPlaced'
<1>1. CASE /\ outGrantQueue' = [outGrantQueue EXCEPT ![h] = @ \cup grants]
           /\ grantNet' = grantNet
  <2>1. /\ outGrantQueue'[h] = outGrantQueue[h] \cup grants
        /\ \A k \in Host \ {h} : outGrantQueue'[k] = outGrantQueue[k]
    BY <1>1 DEF Inv, TypeOK
  <2>2. Outstanding' = Outstanding \cup grants
    BY <1>1, <2>1 DEF Outstanding
  <2>3. GrantsPlaced'
    BY <1>1, <2>1 DEF GrantsPlaced, Outstanding
  <2> QED BY <2>2, <2>3
<1>2. ASSUME NEW g \in grants,
             grantNet' = grantNet \cup {g},
             outGrantQueue' = [outGrantQueue EXCEPT ![h] = @ \cup (grants \ {g})]
      PROVE  Outstanding' = Outstanding \cup grants /\ GrantsPlaced'
  <2>1. /\ outGrantQueue'[h] = outGrantQueue[h] \cup (grants \ {g})
        /\ \A k \in Host \ {h} : outGrantQueue'[k] = outGrantQueue[k]
    BY <1>2 DEF Inv, TypeOK
  <2>2. Outstanding' = Outstanding \cup grants
    BY <1>2, <2>1 DEF Outstanding
  <2>3. GrantsPlaced'
    BY <1>2, <2>1 DEF GrantsPlaced, Outstanding
  <2> QED BY <2>2, <2>3
<1> QED BY <1>1, <1>2 DEF SendOrQueueGrants

\* A receiver grants bytes that it has not let go of before.
LEMMA ReceiverGrantsPlaced ==
  ASSUME Inv, ByteInv, NEW h \in Host, NEW granted \in SUBSET Msg,
         ReceiverGrants(h, granted)
  PROVE  /\ Outstanding' = Outstanding \cup {NextGrant(m, offered[m]) : m \in granted}
         /\ GrantsPlaced' /\ UNCHANGED <<outbndMsg, pktsSent>>
         /\ \A m \in granted :
              Divided(m, outbndMsg[m], {p \in pktsSent : p.msg = m},
                      {g \in Outstanding : g.msg = m} \cup {NextGrant(m, offered[m])},
                      offered[m] + NextGrant(m, offered[m]).len)
<1> DEFINE Next1(m) == NextGrant(m, offered[m])
           grants == {Next1(m) : m \in granted}
           SentOf(m) == {p \in pktsSent : p.msg = m}
           GrantsOf(m) == {g \in Outstanding : g.msg = m}
<1>1. /\ \A m \in granted : MsgDst[m] = h /\ NeedsGrant(m)
      /\ SendOrQueueGrants(h, grants)
  BY DEF ReceiverGrants
<1>2. UNCHANGED <<outbndMsg, pktsSent>>
  BY <1>1 DEF SendOrQueueGrants
<1>3. \A m \in Msg : Divided(m, outbndMsg[m], SentOf(m), GrantsOf(m), offered[m])
  BY DEF ByteInv, AllDivided
<1>4. \A m \in Msg : Next1(m).msg = m
  BY DEF NextGrant
<1> HIDE DEF Next1
<1>5. ASSUME NEW m \in granted
      PROVE  outbndMsg[m].status # "new" /\ offered[m] < MsgSize[m]
  <2>1. SentOf(m) # {} /\ offered[m] < MsgSize[m]
    BY <1>1 DEF NeedsGrant
  <2>2. Divided(m, outbndMsg[m], SentOf(m), GrantsOf(m), offered[m])
    BY <1>3
  <2> HIDE DEF SentOf, GrantsOf
  <2>3. outbndMsg[m].status = "new" => SentOf(m) = {}
    BY <2>2 DEF Divided
  <2> QED BY <2>1, <2>3
<1>6. \A m \in granted : /\ Divided(m, outbndMsg[m], SentOf(m),
                                    GrantsOf(m) \cup {Next1(m)}, offered[m] + Next1(m).len)
                         /\ Next1(m) \notin GrantsOf(m)
  <2> HIDE DEF SentOf, GrantsOf
  <2> QED BY <1>3, <1>5, DividedOffer DEF Next1
<1>7. grants \cap Outstanding = {} /\ \A g \in grants : MsgDst[g.msg] = h
  <2>1. \A m \in granted : Next1(m) \notin GrantsOf(m)
    BY <1>6
  <2>2. ASSUME NEW m \in granted
        PROVE  Next1(m) \notin Outstanding /\ MsgDst[Next1(m).msg] = h
    BY <1>1, <1>4, <2>1
  <2> QED BY <2>2
<1> HIDE DEF grants
<1>8. Outstanding' = Outstanding \cup grants /\ GrantsPlaced'
  BY <1>1, <1>7, SendOrQueueGrantsPlaced DEF ByteInv
<1> QED BY <1>2, <1>6, <1>8 DEF grants, Next1, SentOf, GrantsOf

LEMMA ReceiverGrantsBytes ==
  ASSUME Inv, ByteInv, NEW h \in Host, NEW granted \in SUBSET Msg,
         ReceiverGrants(h, granted)
  PROVE  ByteInv'
<1> DEFINE Next1(m) == NextGrant(m, offered[m])
           SentOf(m) == {p \in pktsSent : p.msg = m}
           GrantsOf(m) == {g \in Outstanding : g.msg = m}
<1>1. offered' = [m \in Msg |-> IF m \in granted THEN offered[m] + Next1(m).len
                                                 ELSE offered[m]]
  BY DEF ReceiverGrants
<1>2. /\ Outstanding' = Outstanding \cup {Next1(m) : m \in granted} /\ GrantsPlaced'
      /\ UNCHANGED <<outbndMsg, pktsSent>>
      /\ \A m \in granted : Divided(m, outbndMsg[m], SentOf(m), GrantsOf(m) \cup {Next1(m)},
                                    offered[m] + Next1(m).len)
  BY ReceiverGrantsPlaced
<1>3. \A m \in Msg : Divided(m, outbndMsg[m], SentOf(m), GrantsOf(m), offered[m])
  BY DEF ByteInv, AllDivided
<1>4. \A m \in Msg : Next1(m).msg = m
  BY DEF NextGrant
<1> HIDE DEF Next1
<1>5. /\ \A m \in granted : {g \in Outstanding' : g.msg = m} = GrantsOf(m) \cup {Next1(m)}
      /\ \A m \in Msg \ granted : {g \in Outstanding' : g.msg = m} = GrantsOf(m)
  BY <1>2, <1>4
<1>6. \A m \in Msg : Divided(m, outbndMsg[m], SentOf(m), {g \in Outstanding' : g.msg = m},
                             offered'[m])
  <2>1. \A m \in granted : Divided(m, outbndMsg[m], SentOf(m), GrantsOf(m) \cup {Next1(m)},
                                    offered[m] + Next1(m).len)
    BY <1>2
  <2> HIDE DEF SentOf, GrantsOf
  <2> QED BY <1>1, <1>3, <1>5, <2>1
<1>7. AllDivided(outbndMsg', pktsSent', Outstanding', offered')
  BY <1>2, <1>6 DEF AllDivided
<1> QED BY <1>2, <1>7 DEF ByteInv

-----------------------------------------------------------------------------
(* The theorems.                                                            *)

LEMMA InitBytes == Init => ByteInv
<1> SUFFICES ASSUME Init PROVE ByteInv
  OBVIOUS
<1>1. Outstanding = {} /\ pktsSent = {} /\ GrantsPlaced
  BY DEF Init, SenderInit, Outstanding, GrantsPlaced
<1>2. ASSUME NEW m \in Msg
      PROVE  Divided(m, outbndMsg[m], {}, {}, offered[m])
  <2>1. /\ outbndMsg[m] \in OutboundMessage
        /\ outbndMsg[m].status = "new"
        /\ offered[m] = TotalUnsched(m)
    BY DEF Init, SenderInit, OutboundMessage
  <2> QED BY <2>1, UnschedBounds DEF Divided
<1>3. AllDivided(outbndMsg, pktsSent, Outstanding, offered)
  BY <1>1, <1>2 DEF AllDivided
<1> QED BY <1>1, <1>3 DEF ByteInv

LEMMA NextBytes == Inv /\ ByteInv /\ [Next]_vars => ByteInv'
<1> SUFFICES ASSUME Inv, ByteInv, [Next]_vars PROVE ByteInv'
  OBVIOUS
<1>1. ASSUME NEW m \in Msg, AppSend(m), UNCHANGED offered PROVE ByteInv'
  BY <1>1, AppSendBytes
<1>2. ASSUME NEW g \in grantNet, ReceiveGrant(g), UNCHANGED offered PROVE ByteInv'
  BY <1>2, ReceiveGrantBytes
<1>3. ASSUME NEW h \in Host, SendTimer(h), UNCHANGED offered PROVE ByteInv'
  BY <1>3, SendTimerBytes
<1>4. ASSUME NEW h \in Host, NEW granted \in SUBSET Msg, ReceiverGrants(h, granted)
      PROVE  ByteInv'
  BY <1>4, ReceiverGrantsBytes
<1>5. CASE UNCHANGED vars
  <2>1. UNCHANGED <<outbndMsg, outGrantQueue, pktsSent, grantNet, offered>>
    BY <1>5 DEF vars, senderVars
  <2>2. Outstanding' = Outstanding /\ GrantsPlaced'
    BY <2>1 DEF ByteInv, GrantsPlaced, Outstanding
  <2> QED BY <2>1, <2>2 DEF ByteInv
<1> QED BY <1>1, <1>2, <1>3, <1>4, <1>5 DEF Next, SenderNext

LEMMA AlwaysByteInv == Spec => []ByteInv
BY AlwaysInv, InitBytes, NextBytes, PTL DEF Spec

LEMMA WorkFound == Inv /\ ByteInv => GrantsFindWork
<1> SUFFICES ASSUME Inv, ByteInv, NEW g \in Outstanding
             PROVE  /\ outbndMsg[g.msg].status = "active"
                    /\ g.len > 0
                    /\ outbndMsg[g.msg].bytesToSched >= g.len
  BY DEF GrantsFindWork, Active
<1> DEFINE m == g.msg
           sent == {p \in pktsSent : p.msg = m}
           grants == {i \in Outstanding : i.msg = m}
<1>1. m \in Msg /\ g \in grants
  BY DEF Inv, TypeOK, Outstanding, Grant
<1>2. Divided(m, outbndMsg[m], sent, grants, offered[m])
  BY <1>1 DEF ByteInv, AllDivided
<1> DEFINE o == outbndMsg[m]
           off == offered[m]
<1>3. m \in Msg /\ g \in grants /\ Divided(m, o, sent, grants, off)
  BY <1>1, <1>2
<1> HIDE DEF m, o, sent, grants, off
<1>4. o.status = "active" /\ g.len > 0 /\ o.bytesToSched >= g.len
  BY <1>3, DividedGrant
<1> QED BY <1>4 DEF o, m

\* A grant always finds its message in outboundMsgMap with the granted bytes
\* unscheduled: outboundMsgMap.at never throws, ASSERT(bytesToSched > 0) never
\* fails and std::min never cuts a grant short.
THEOREM GrantsAlwaysFindWork == Spec => []GrantsFindWork
BY AlwaysInv, AlwaysByteInv, WorkFound, PTL

\* Every byte of a message is transmitted exactly once: what is sent, what is
\* ready and what the grants on their way ask for never overlap, and together
\* they are the bytes that the receiver let go.
THEOREM EveryByteSentOnce == Spec => []EveryByteOnce
<1>1. Inv /\ ByteInv => EveryByteOnce
  <2> SUFFICES ASSUME Inv, ByteInv, NEW m \in Msg, Started(m)
               PROVE  /\ outbndMsg[m].txPkts \cap pktsSent = {}
                      /\ Disjoint(Pieces(m))
                      /\ Bytes(Pieces(m)) = 0 .. (offered[m] - 1)
    BY DEF EveryByteOnce, Disjoint, Bytes
  <2> DEFINE tx == outbndMsg[m].txPkts
             sent == {p \in pktsSent : p.msg = m}
             grants == {i \in Outstanding : i.msg = m}
  <2>1. /\ tx \subseteq {p \in Pkt : p.msg = m}
        /\ tx \cap sent = {}
        /\ Disjoint(sent \cup tx)
        /\ Disjoint(grants)
        /\ Apart(sent \cup tx, grants)
        /\ Bytes(sent \cup tx) \cup Bytes(grants) = 0 .. offered[m] - 1
    <3>1. Divided(m, outbndMsg[m], sent, grants, offered[m])
      BY DEF ByteInv, AllDivided
    <3> HIDE DEF sent, grants
    <3> QED BY <3>1 DEF Divided, Started
  <2>2. tx \cap pktsSent = {}
    BY <2>1
  <2>3. Pieces(m) = (sent \cup tx) \cup grants
    BY <2>1 DEF Pieces
  <2> HIDE DEF sent, tx, grants
  <2>4. Disjoint(Pieces(m))
    BY <2>1, <2>3 DEF Disjoint, Apart
  <2>5. Bytes(Pieces(m)) = 0 .. offered[m] - 1
    BY <2>1, <2>3, BytesUnion
  <2> QED BY <2>2, <2>4, <2>5 DEF tx
<1> QED BY AlwaysInv, AlwaysByteInv, <1>1, PTL

-----------------------------------------------------------------------------
(* What is ready, and in which order it is sent.                            *)

\* A message that is not started has nothing, and the only packet without
\* bytes is a request that nothing of its message precedes.
Clean(out, sent) ==
  \A m \in Msg :
    /\ out[m].status = "new" =>
         out[m].txPkts = {} /\ out[m].bytesLeft = 0 /\ out[m].bytesToSched = 0
    /\ \A p \in out[m].txPkts :
         p.len = 0 => p = ReqPkt(m) /\ \A q \in sent : q.msg # m

CleanInv == Clean(outbndMsg, pktsSent)

\* The controller of h transmits packet p of message m.
Transmits(h, out, total, m, p) ==
  /\ MsgSrc[m] = h /\ out[m].status = "active"
  /\ p \in Pkt /\ p.msg = m
  /\ FirstPkt(p, out[m].txPkts)
  /\ \A k \in Msg : MsgSrc[k] = h /\ out[k].status = "active" /\ out[k].txPkts # {}
       => out[m].bytesLeft <= out[k].bytesLeft
  /\ outbndMsg' = [out EXCEPT ![m].txPkts = @ \ {p},
                     ![m].bytesLeft = out[m].bytesLeft - p.len,
                     ![m].status = IF out[m].bytesLeft - p.len <= 0
                                     THEN "done" ELSE @]
  /\ bytesLeftToSend' = [bytesLeftToSend EXCEPT ![h] = total - p.len]
  /\ pktsSent' = pktsSent \cup {p}

\* The packet that a transmission picks, and what becomes of the fields.
LEMMA TransmitPick ==
  ASSUME NEW h \in Host, NEW ready, NEW out, NEW total, NEW grants, NEW off,
         Prepared(h, ready, out, total), TransmitData(h, ready, out, total),
         AllDivided(out, pktsSent, grants, off)
  PROVE  \E m \in Msg : \E p \in out[m].txPkts : Transmits(h, out, total, m, p)
<1>1. PICK e \in ready : \E p \in out[e[2]].txPkts :
        LET m == e[2]
            left == out[m].bytesLeft - p.len
            sent == [out EXCEPT ![m].txPkts = @ \ {p}, ![m].bytesLeft = left,
                                ![m].status = IF left <= 0 THEN "done" ELSE @]
        IN /\ FirstMsg(e, ready)
           /\ FirstPkt(p, out[m].txPkts)
           /\ outbndMsg' = sent
           /\ bytesLeftToSend' = [bytesLeftToSend EXCEPT ![h] = total - p.len]
           /\ pktsSent' = pktsSent \cup {p}
  BY DEF TransmitData
<1> DEFINE m == e[2]
<1>2. /\ out \in [Msg -> OutboundMessage]
      /\ ready = ReadySet(h, out)
  BY DEF Prepared
<1>3. /\ m \in Msg
      /\ MsgSrc[m] = h
      /\ out[m].status = "active"
      /\ e[1] = out[m].bytesLeft
  BY <1>2 DEF ReadySet, Entry
<1>4. PICK p \in out[m].txPkts :
           /\ FirstPkt(p, out[m].txPkts)
           /\ outbndMsg' = [out EXCEPT ![m].txPkts = @ \ {p},
                              ![m].bytesLeft = out[m].bytesLeft - p.len,
                              ![m].status = IF out[m].bytesLeft - p.len <= 0
                                              THEN "done" ELSE @]
           /\ bytesLeftToSend' = [bytesLeftToSend EXCEPT ![h] = total - p.len]
           /\ pktsSent' = pktsSent \cup {p}
  BY <1>1
<1>5. ASSUME NEW k \in Msg, MsgSrc[k] = h, out[k].status = "active", out[k].txPkts # {}
      PROVE  out[m].bytesLeft <= out[k].bytesLeft
  <2>1. Entry(k, out) \in ready
    BY <1>2, <1>5 DEF ReadySet
  <2>2. out[m].bytesLeft \in Int /\ out[k].bytesLeft \in Int
    BY <1>2, <1>3 DEF OutboundMessage
  <2> QED BY <1>1, <1>3, <2>1, <2>2 DEF FirstMsg, Entry
<1>6. p.msg = m /\ p \in Pkt
  BY <1>3 DEF AllDivided, Divided
<1> HIDE DEF m
<1> QED BY <1>3, <1>4, <1>5, <1>6 DEF Transmits

\* A transmission keeps the messages clean.
LEMMA TransmitClean ==
  ASSUME NEW h \in Host, NEW ready, NEW out, NEW total, NEW grants, NEW off,
         Prepared(h, ready, out, total), TransmitData(h, ready, out, total),
         AllDivided(out, pktsSent, grants, off), Clean(out, pktsSent)
  PROVE  CleanInv'
<1>1. PICK m \in Msg : \E p \in out[m].txPkts : Transmits(h, out, total, m, p)
  BY TransmitPick
<1>2. PICK p \in out[m].txPkts : Transmits(h, out, total, m, p)
  BY <1>1
<1>3. out \in [Msg -> OutboundMessage]
  BY DEF Prepared
<1>4. /\ outbndMsg'[m].status # "new"
      /\ outbndMsg'[m].txPkts = out[m].txPkts \ {p}
      /\ \A k \in Msg \ {m} : outbndMsg'[k] = out[k]
  BY <1>2, <1>3 DEF OutboundMessage, Transmits
<1>5. ASSUME NEW q \in out[m].txPkts, q.len = 0
      PROVE  q = p
  <2>1. q = ReqPkt(m) /\ q.first = 0
    BY <1>5 DEF Clean, ReqPkt
  <2>2. p.first \in Nat /\ p.len \in Nat
    BY <1>2 DEF Pkt, Transmits
  <2>3. p.first < q.first \/ (p.first = q.first /\ p.len <= q.len)
    BY <1>2 DEF FirstPkt, Transmits
  <2>4. p.len = 0
    BY <1>5, <2>1, <2>2, <2>3
  <2>5. p = ReqPkt(m)
    BY <2>4 DEF Clean
  <2> QED BY <2>1, <2>5
<1>6. p.msg = m /\ pktsSent' = pktsSent \cup {p}
  BY <1>2 DEF Transmits
<1>7. ASSUME NEW q \in outbndMsg'[m].txPkts
      PROVE  q.len # 0
  BY <1>4, <1>5
<1>8. \A k \in Msg \ {m} : \A q \in outbndMsg'[k].txPkts :
        q.len = 0 => q = ReqPkt(k) /\ \A r \in pktsSent' : r.msg # k
  BY <1>4, <1>6 DEF Clean
<1> QED BY <1>4, <1>7, <1>8 DEF CleanInv, Clean

\* So does sendOrQueue(NULL).
LEMMA SendOrQueueClean ==
  ASSUME NEW h \in Host, NEW ready, NEW out, NEW total, NEW grants, NEW off,
         Prepared(h, ready, out, total), SendOrQueueData(h, ready, out, total),
         AllDivided(out, pktsSent, grants, off), Clean(out, pktsSent)
  PROVE  CleanInv'
<1>1. CASE outbndMsg' = out /\ pktsSent' = pktsSent
  BY <1>1 DEF CleanInv
<1>2. CASE TransmitData(h, ready, out, total)
  BY <1>2, TransmitClean
<1> QED BY <1>1, <1>2 DEF SendOrQueueData

\* What processSendMsgFromApp makes of the messages is divided and clean.
LEMMA AppSendClean ==
  ASSUME Inv, ByteInv, CleanInv, NEW m \in Msg, AppSend(m)
  PROVE  LET out == [outbndMsg EXCEPT ![m] =
                       [status |-> "active", bytesToSched |-> MsgSize[m] - TotalUnsched(m),
                        bytesLeft |-> MsgSize[m], txPkts |-> ReqUnschedDataPkts(m)]]
         IN  AllDivided(out, pktsSent, Outstanding, offered) /\ Clean(out, pktsSent)
<1> DEFINE o == [status |-> "active", bytesToSched |-> MsgSize[m] - TotalUnsched(m),
                 bytesLeft |-> MsgSize[m], txPkts |-> ReqUnschedDataPkts(m)]
           out == [outbndMsg EXCEPT ![m] = o]
           SentOf(k) == {p \in pktsSent : p.msg = k}
           GrantsOf(k) == {g \in Outstanding : g.msg = k}
<1>1. outbndMsg[m].status = "new"
  BY DEF AppSend, Started
<1>2. \A k \in Msg : Divided(k, outbndMsg[k], SentOf(k), GrantsOf(k), offered[k])
  BY DEF ByteInv, AllDivided
<1>3. Divided(m, o, SentOf(m), GrantsOf(m), offered[m]) /\ SentOf(m) = {}
  <2> HIDE DEF SentOf, GrantsOf, o
  <2>1. SentOf(m) = {}
    BY <1>1, <1>2 DEF Divided
  <2> QED BY <1>1, <1>2, <2>1, DividedStart DEF o
<1>4. ASSUME NEW p \in ReqUnschedDataPkts(m), p.len = 0
      PROVE  p = ReqPkt(m)
  <2> SUFFICES ASSUME NEW k \in 0 .. UnschedPart(m), k * MaxUnschedData < UnschedPart(m),
                      p = UnschedPkt(m, k)
               PROVE  FALSE
    BY DEF ReqUnschedDataPkts
  <2>1. k * MaxUnschedData \in Nat /\ UnschedPart(m) \in Nat /\ MaxUnschedData \in Nat \ {0}
    BY UnschedBounds, SizeAssumption
  <2>2. p.len = Lesser(MaxUnschedData, UnschedPart(m) - k * MaxUnschedData)
    BY DEF UnschedPkt
  <2> QED BY <1>4, <2>1, <2>2 DEF Lesser
<1>5. o.status = "active" /\ o.txPkts = ReqUnschedDataPkts(m)
  OBVIOUS
<1> HIDE DEF o
<1>6. /\ out[m] = o
      /\ \A k \in Msg \ {m} : out[k] = outbndMsg[k]
  BY DEF Inv, TypeOK
<1>7. Clean(out, pktsSent)
  <2> HIDE DEF out
  <2> QED BY <1>3, <1>4, <1>5, <1>6 DEF CleanInv, Clean
<1> HIDE DEF out
<1>8. AllDivided(out, pktsSent, Outstanding, offered)
  BY <1>2, <1>3, <1>6 DEF AllDivided
<1> QED BY <1>7, <1>8 DEF out, o

\* The same of processReceivedGrant.
LEMMA ReceiveGrantClean ==
  ASSUME Inv, ByteInv, CleanInv, NEW g \in grantNet, ReceiveGrant(g)
  PROVE  LET m == g.msg
             p == SchedPkt(g)
             out == [outbndMsg EXCEPT ![m].txPkts = @ \cup {p},
                                      ![m].bytesToSched = @ - p.len]
         IN  /\ AllDivided(out, pktsSent, Outstanding \ {g}, offered)
             /\ Clean(out, pktsSent)
             /\ p.len = g.len /\ g.len > 0 /\ m \in Msg
<1> DEFINE m == g.msg
           p == SchedPkt(g)
           o == [outbndMsg[m] EXCEPT !.txPkts = @ \cup {p}, !.bytesToSched = @ - p.len]
           out == [outbndMsg EXCEPT ![m] = o]
           SentOf(k) == {q \in pktsSent : q.msg = k}
           GrantsOf(k) == {i \in Outstanding : i.msg = k}
<1>1. outbndMsg[m].status = "active"
  BY DEF ReceiveGrant, Active
<1>2. /\ m \in Msg
      /\ outbndMsg \in [Msg -> OutboundMessage]
      /\ p \in Pkt /\ g.len \in Nat
  BY SchedPktType DEF Inv, TypeOK, Grant
<1>3. out = [outbndMsg EXCEPT ![m].txPkts = @ \cup {p}, ![m].bytesToSched = @ - p.len]
  BY <1>2
<1>4. \A k \in Msg : Divided(k, outbndMsg[k], SentOf(k), GrantsOf(k), offered[k])
  BY DEF ByteInv, AllDivided
<1>5. /\ g \in GrantsOf(m)
      /\ p.msg = m /\ p.first = g.first
      /\ p.len = Lesser(g.len, outbndMsg[m].bytesToSched)
  BY DEF Outstanding, SchedPkt
<1> HIDE DEF p
<1>6. /\ o.status = "active" /\ o.txPkts = outbndMsg[m].txPkts \cup {p}
  BY <1>1, <1>2 DEF OutboundMessage
<1> HIDE DEF GrantsOf, SentOf
<1>7. Divided(m, o, SentOf(m), GrantsOf(m) \ {g}, offered[m])
  BY <1>2, <1>4, <1>5, DividedSched
<1>8. p.len = g.len /\ g.len > 0
  <2> DEFINE old == outbndMsg[m]
             off == offered[m]
             sn == SentOf(m)
             gr == GrantsOf(m)
  <2>1. /\ m \in Msg /\ g \in gr /\ Divided(m, old, sn, gr, off)
        /\ old.bytesToSched \in Nat /\ p.len = Lesser(g.len, old.bytesToSched)
    BY <1>2, <1>4, <1>5 DEF OutboundMessage
  <2> HIDE DEF m, old, off, sn, gr
  <2>2. g.len > 0 /\ old.bytesToSched >= g.len
    BY <2>1, DividedGrant
  <2> QED BY <1>2, <2>1, <2>2 DEF Lesser
<1>9. /\ out[m] = o
      /\ \A k \in Msg \ {m} : out[k] = outbndMsg[k]
  <2> HIDE DEF o
  <2> QED BY <1>2
<1> HIDE DEF o
<1>10. Clean(out, pktsSent)
  <2>1. CleanInv /\ g.len \in Nat
    BY <1>2
  <2> HIDE DEF out, m
  <2> QED BY <1>1, <1>2, <1>6, <1>8, <1>9, <2>1 DEF CleanInv, Clean
<1>11. AllDivided(out, pktsSent, Outstanding \ {g}, offered)
  <2>1. /\ {i \in Outstanding \ {g} : i.msg = m} = GrantsOf(m) \ {g}
        /\ \A k \in Msg \ {m} : {i \in Outstanding \ {g} : i.msg = k} = GrantsOf(k)
    BY DEF GrantsOf
  <2> HIDE DEF out, m
  <2>2. \A k \in Msg : Divided(k, out[k], SentOf(k), {i \in Outstanding \ {g} : i.msg = k},
                               offered[k])
    BY <1>4, <1>7, <1>9, <2>1
  <2> QED BY <2>2 DEF AllDivided, SentOf
<1> QED BY <1>2, <1>3, <1>8, <1>10, <1>11 DEF p

LEMMA NextClean == Inv /\ ByteInv /\ CleanInv /\ [Next]_vars => CleanInv'
<1> SUFFICES ASSUME Inv, ByteInv, CleanInv, [Next]_vars PROVE CleanInv'
  OBVIOUS
<1>1. ASSUME NEW m \in Msg, AppSend(m) PROVE CleanInv'
  <2> DEFINE h == MsgSrc[m]
             out == [outbndMsg EXCEPT ![m] =
                       [status |-> "active", bytesToSched |-> MsgSize[m] - TotalUnsched(m),
                        bytesLeft |-> MsgSize[m], txPkts |-> ReqUnschedDataPkts(m)]]
             ready == outbndMsgSet[h] \cup {Entry(m, out)}
             total == bytesLeftToSend[h] + MsgSize[m]
  <2>1. Prepared(h, ready, out, total) /\ SendOrQueueData(h, ready, out, total)
    BY <1>1, AppSendPrepared
  <2>2. AllDivided(out, pktsSent, Outstanding, offered) /\ Clean(out, pktsSent)
    BY <1>1, AppSendClean
  <2>3. h \in Host
    BY MsgAssumption
  <2> HIDE DEF h, out, ready, total
  <2> QED BY <2>1, <2>2, <2>3, SendOrQueueClean
<1>2. ASSUME NEW g \in grantNet, ReceiveGrant(g) PROVE CleanInv'
  <2> DEFINE m == g.msg
             h == MsgSrc[m]
             p == SchedPkt(g)
             out == [outbndMsg EXCEPT ![m].txPkts = @ \cup {p},
                                      ![m].bytesToSched = @ - p.len]
             ready == (outbndMsgSet[h] \ {Entry(m, outbndMsg)}) \cup {Entry(m, out)}
  <2>1. /\ Prepared(h, ready, out, bytesLeftToSend[h])
        /\ SendOrQueueData(h, ready, out, bytesLeftToSend[h])
    BY <1>2, ReceiveGrantPrepared
  <2>2. /\ AllDivided(out, pktsSent, Outstanding \ {g}, offered)
        /\ Clean(out, pktsSent) /\ m \in Msg
    BY <1>2, ReceiveGrantClean
  <2>3. h \in Host
    BY <2>2, MsgAssumption
  <2> HIDE DEF h, out, ready, p, m
  <2> QED BY <2>1, <2>2, <2>3, SendOrQueueClean
<1>3. ASSUME NEW h \in Host, SendTimer(h) PROVE CleanInv'
  <2>1. CASE TransmitData(h, outbndMsgSet[h], outbndMsg, bytesLeftToSend[h])
    <3>1. Prepared(h, outbndMsgSet[h], outbndMsg, bytesLeftToSend[h])
      BY DEF Prepared, Inv, TypeOK, ReadySetExact
    <3>2. AllDivided(outbndMsg, pktsSent, Outstanding, offered) /\ Clean(outbndMsg, pktsSent)
      BY DEF ByteInv, CleanInv
    <3> QED BY <2>1, <3>1, <3>2, TransmitClean
  <2>2. CASE UNCHANGED <<outbndMsg, pktsSent>>
    BY <2>2 DEF CleanInv
  <2> QED BY <1>3, <2>1, <2>2 DEF SendTimer, netVars
<1>4. ASSUME NEW h \in Host, NEW granted \in SUBSET Msg, ReceiverGrants(h, granted)
      PROVE  CleanInv'
  <2>1. UNCHANGED <<outbndMsg, pktsSent>>
    BY <1>4 DEF ReceiverGrants, SendOrQueueGrants
  <2> QED BY <2>1 DEF CleanInv
<1>5. CASE UNCHANGED vars
  <2>1. UNCHANGED <<outbndMsg, pktsSent>>
    BY <1>5 DEF vars, senderVars
  <2> QED BY <2>1 DEF CleanInv
<1> QED BY <1>1, <1>2, <1>3, <1>4, <1>5 DEF Next, SenderNext

LEMMA InitClean == Init => CleanInv
BY DEF Init, SenderInit, CleanInv, Clean

LEMMA AlwaysClean == Spec => []CleanInv
BY AlwaysInv, AlwaysByteInv, InitClean, NextClean, PTL DEF Spec

\* Only a message in outboundMsgMap has packets ready: the last byte of a
\* message leaves with its last packet.
LEMMA ReadyIsActive ==
  ASSUME Inv, ByteInv, CleanInv, NEW m \in Msg, outbndMsg[m].txPkts # {}
  PROVE  outbndMsg[m].status = "active"
<1> DEFINE o == outbndMsg[m]
           sent == {q \in pktsSent : q.msg = m}
           grants == {g \in Outstanding : g.msg = m}
<1>1. o \in OutboundMessage /\ o.status # "new"
  BY DEF Inv, TypeOK, CleanInv, Clean
<1>2. PICK p \in o.txPkts : TRUE
  OBVIOUS
<1>3. p.len = 0 => sent = {}
  BY <1>2 DEF CleanInv, Clean
<1>4. Divided(m, o, sent, grants, offered[m])
  BY DEF ByteInv, AllDivided
<1> DEFINE off == offered[m]
<1> HIDE DEF sent, grants, off
<1>5. /\ p \in Pkt
      /\ o.txPkts \cap sent = {}
      /\ Disjoint(sent \cup o.txPkts)
      /\ Bytes(sent \cup o.txPkts) \cup Bytes(grants) = 0 .. off - 1
      /\ o.bytesLeft = Cardinality(Whole(m) \ Bytes(sent))
      /\ o.status = "done" <=> o.bytesLeft = 0
      /\ off \in Nat /\ off <= MsgSize[m]
  BY <1>1, <1>2, <1>4 DEF Divided, off
<1>6. SUFFICES ASSUME o.bytesLeft = 0
               PROVE  FALSE
  BY <1>1, <1>5 DEF OutboundMessage
<1>7. Whole(m) \subseteq Bytes(sent)
  <2>0. IsFiniteSet(Whole(m))
    BY MsgAssumption, FS_Interval DEF Whole
  <2>1. IsFiniteSet(Whole(m) \ Bytes(sent))
    BY <2>0, FS_Difference
  <2>2. Whole(m) \ Bytes(sent) = {}
    BY <1>5, <1>6, <2>1, FS_EmptySet
  <2> QED BY <2>2
<1>8. CASE p.len = 0
  <2>1. Bytes(sent) = {}
    BY <1>3, <1>8 DEF Bytes
  <2>2. 0 \in Whole(m)
    BY MsgAssumption DEF Whole
  <2> QED BY <1>7, <2>1, <2>2
<1>9. CASE p.len # 0
  <2>1. p.first \in BytesOf(p)
    BY <1>5, <1>9, BytesOfSize DEF Pkt
  <2>2. p.first \in Whole(m)
    <3>1. 0 .. off - 1 \subseteq Whole(m)
      BY <1>5, WholeSize
    <3>2. p.first \in Bytes(sent \cup o.txPkts)
      BY <1>2, <2>1, BytesIn
    <3> QED BY <1>5, <3>1, <3>2
  <2>3. PICK q \in sent : p.first \in BytesOf(q)
    BY <1>7, <2>2, BytesIn
  <2> QED BY <1>2, <1>5, <2>1, <2>3 DEF Disjoint
<1> QED BY <1>8, <1>9

\* The packet that one transmission of h hands to the network is the one that
\* SRBF picks: what the handler had made of the messages decides.
LEMMA TransmitOrder ==
  ASSUME NEW h \in Host, NEW ready, NEW out, NEW total, NEW grants, NEW off,
         Prepared(h, ready, out, total), TransmitData(h, ready, out, total),
         AllDivided(out, pktsSent, grants, off),
         NEW p \in pktsSent' \ pktsSent
  PROVE  /\ MsgSrc[p.msg] = h
         /\ \A k \in Msg : MsgSrc[k] = h /\ out[k].status = "active" /\ out[k].txPkts # {}
              => outbndMsg'[p.msg].bytesLeft + p.len <= out[k].bytesLeft
         /\ \A q \in outbndMsg'[p.msg].txPkts : p.first <= q.first
<1>1. PICK m \in Msg : \E q \in out[m].txPkts : Transmits(h, out, total, m, q)
  BY TransmitPick
<1>2. Transmits(h, out, total, m, p) /\ p.msg = m
  BY <1>1 DEF Transmits
<1>3. out \in [Msg -> OutboundMessage] /\ p.len \in Nat /\ p.first \in Nat
  BY <1>2 DEF Prepared, Transmits, Pkt
<1>4. /\ outbndMsg'[m].bytesLeft = out[m].bytesLeft - p.len
      /\ outbndMsg'[m].txPkts = out[m].txPkts \ {p}
      /\ out[m].bytesLeft \in Int
  BY <1>2, <1>3 DEF OutboundMessage, Transmits
<1>5. outbndMsg'[m].bytesLeft + p.len = out[m].bytesLeft
  BY <1>3, <1>4
<1>6. \A q \in out[m].txPkts : q.first \in Nat /\ p.first <= q.first
  <2>1. \A q \in out[m].txPkts : q.first \in Nat
    BY <1>3 DEF OutboundMessage, Pkt
  <2> QED BY <1>2, <1>3, <2>1 DEF Transmits, FirstPkt
<1> QED BY <1>2, <1>4, <1>5, <1>6 DEF Transmits

\* What SendOrder says of one packet of host h.
Ordered(h, p) ==
  /\ MsgSrc[p.msg] = h
  /\ outGrantQueue[h] = {}
  /\ \A k \in Msg :
       MsgSrc[k] = h /\ outbndMsg[k].txPkts # {} =>
         outbndMsg'[p.msg].bytesLeft + p.len <= outbndMsg[k].bytesLeft
  /\ \A q \in outbndMsg'[p.msg].txPkts : p.first <= q.first

\* A handler of an idle NIC transmits at once: nothing else was ready before.
LEMMA IdleOrdered ==
  ASSUME Inv, ByteInv, CleanInv,
         NEW h \in Host, NEW ready, NEW out, NEW total, NEW grants, NEW off,
         Prepared(h, ready, out, total), SendOrQueueData(h, ready, out, total),
         AllDivided(out, pktsSent, grants, off),
         NEW p \in pktsSent' \ pktsSent
  PROVE  Ordered(h, p)
<1>1. ~sendTimer[h] /\ TransmitData(h, ready, out, total)
  BY DEF SendOrQueueData
<1>2. outGrantQueue[h] = {} /\ ReadySet(h, outbndMsg) = {}
  BY <1>1 DEF Inv, IdleMeansDrained, ReadySetExact
<1>3. \A k \in Msg : ~ (MsgSrc[k] = h /\ outbndMsg[k].txPkts # {})
  BY <1>2, ReadyIsActive DEF ReadySet
<1> QED BY <1>1, <1>2, <1>3, TransmitOrder DEF Ordered

LEMMA NextOrdered ==
  ASSUME Inv, ByteInv, CleanInv, [Next]_vars, NEW p \in pktsSent' \ pktsSent
  PROVE  Ordered(MsgSrc[p.msg], p)
<1> SUFFICES \E h \in Host : Ordered(h, p)
  BY DEF Ordered
<1>1. ASSUME NEW m \in Msg, AppSend(m) PROVE Ordered(MsgSrc[m], p)
  <2> DEFINE h == MsgSrc[m]
             out == [outbndMsg EXCEPT ![m] =
                       [status |-> "active", bytesToSched |-> MsgSize[m] - TotalUnsched(m),
                        bytesLeft |-> MsgSize[m], txPkts |-> ReqUnschedDataPkts(m)]]
             ready == outbndMsgSet[h] \cup {Entry(m, out)}
             total == bytesLeftToSend[h] + MsgSize[m]
  <2>1. Prepared(h, ready, out, total) /\ SendOrQueueData(h, ready, out, total)
    BY <1>1, AppSendPrepared
  <2>2. AllDivided(out, pktsSent, Outstanding, offered)
    BY <1>1, AppSendClean
  <2>3. h \in Host
    BY MsgAssumption
  <2> HIDE DEF h, out, ready, total
  <2>4. Ordered(h, p)
    BY <2>1, <2>2, <2>3, IdleOrdered
  <2> QED BY <2>4 DEF h
<1>2. ASSUME NEW g \in grantNet, ReceiveGrant(g) PROVE \E h \in Host : Ordered(h, p)
  <2> DEFINE m == g.msg
             h == MsgSrc[m]
             i == SchedPkt(g)
             out == [outbndMsg EXCEPT ![m].txPkts = @ \cup {i},
                                      ![m].bytesToSched = @ - i.len]
             ready == (outbndMsgSet[h] \ {Entry(m, outbndMsg)}) \cup {Entry(m, out)}
  <2>1. /\ Prepared(h, ready, out, bytesLeftToSend[h])
        /\ SendOrQueueData(h, ready, out, bytesLeftToSend[h])
    BY <1>2, ReceiveGrantPrepared
  <2>2. AllDivided(out, pktsSent, Outstanding \ {g}, offered) /\ m \in Msg
    BY <1>2, ReceiveGrantClean
  <2>3. h \in Host
    BY <2>2, MsgAssumption
  <2> HIDE DEF h, out, ready, i, m
  <2> QED BY <2>1, <2>2, <2>3, IdleOrdered
<1>3. ASSUME NEW h \in Host, SendTimer(h) PROVE Ordered(h, p)
  <2>1. /\ TransmitData(h, outbndMsgSet[h], outbndMsg, bytesLeftToSend[h])
        /\ outGrantQueue[h] = {}
    BY <1>3 DEF SendTimer, netVars
  <2>2. Prepared(h, outbndMsgSet[h], outbndMsg, bytesLeftToSend[h])
    BY DEF Prepared, Inv, TypeOK, ReadySetExact
  <2>3. AllDivided(outbndMsg, pktsSent, Outstanding, offered)
    BY DEF ByteInv
  <2>4. \A k \in Msg : outbndMsg[k].txPkts # {} => outbndMsg[k].status = "active"
    BY ReadyIsActive
  <2> QED BY <2>1, <2>2, <2>3, <2>4, TransmitOrder DEF Ordered
<1>4. ASSUME NEW h \in Host, NEW granted \in SUBSET Msg, ReceiverGrants(h, granted)
      PROVE  FALSE
  BY <1>4 DEF ReceiverGrants, SendOrQueueGrants
<1>5. CASE UNCHANGED vars
  BY <1>5 DEF vars, senderVars
<1> QED BY <1>1, <1>2, <1>3, <1>4, <1>5, MsgAssumption DEF Next, SenderNext

\* The order of transmission: grants before data, the message with the fewest
\* bytes left before the others, and its packets from the lowest byte on.  A
\* handler that finds the NIC idle may transmit at once only because then
\* nothing else is ready.
THEOREM SentInOrder == Spec => SendOrder
<1>1. Inv /\ ByteInv /\ CleanInv /\ [Next]_vars =>
        [\A p \in pktsSent' \ pktsSent :
           LET h == MsgSrc[p.msg]
           IN /\ outGrantQueue[h] = {}
              /\ \A k \in Msg :
                   MsgSrc[k] = h /\ outbndMsg[k].txPkts # {} =>
                     outbndMsg'[p.msg].bytesLeft + p.len <= outbndMsg[k].bytesLeft
              /\ \A q \in outbndMsg'[p.msg].txPkts : p.first <= q.first]_vars
  BY NextOrdered DEF Ordered
<1> QED BY AlwaysInv, AlwaysByteInv, AlwaysClean, <1>1, PTL DEF Spec, SendOrder

-----------------------------------------------------------------------------
(* The counters.                                                            *)

\* The messages of a host, and the two counters of every message.
Mine(h) == {m \in Msg : MsgSrc[m] = h}
Left(out) == [m \in Msg |-> out[m].bytesLeft]
Need(out) == [m \in Msg |-> out[m].bytesToSched]

\* The counters of the controllers are the sums of those of their messages.
Counted(out, left, need) ==
  \A h \in Host : left[h] = Total(Left(out), Mine(h)) /\ need[h] = Total(Need(out), Mine(h))

CountInv == IsFiniteSet(pktsSent) /\ Counted(outbndMsg, bytesLeftToSend, bytesNeedGrant)

\* Nothing is counted below zero.
Counts(out) == \A m \in Msg : Left(out)[m] \in Nat /\ Need(out)[m] \in Nat

LEMMA MineFinite ==
  ASSUME NEW h
  PROVE  IsFiniteSet(Mine(h))
BY FiniteAssumption, FS_Subset DEF Mine

LEMMA DividedCounts ==
  ASSUME NEW out, NEW sent, NEW grants, NEW off, NEW any,
         AllDivided(out, sent, grants, off), Clean(out, any)
  PROVE  Counts(out)
<1> SUFFICES ASSUME NEW m \in Msg
             PROVE  out[m].bytesLeft \in Nat /\ out[m].bytesToSched \in Nat
  BY DEF Counts, Left, Need
<1> DEFINE sn == {p \in sent : p.msg = m}
<1>1. /\ out[m] \in OutboundMessage
      /\ out[m].status # "new" => out[m].bytesLeft = Cardinality(Whole(m) \ Bytes(sn))
  BY DEF AllDivided, Divided
<1>2. out[m].status = "new" => out[m].bytesLeft = 0
  BY DEF Clean
<1> HIDE DEF sn
<1>3. Cardinality(Whole(m) \ Bytes(sn)) \in Nat
  <2>1. IsFiniteSet({}) /\ {} \subseteq Whole(m) /\ Bytes(sn) \cap {} = {}
    BY FS_EmptySet
  <2> QED BY <2>1, TakeOut
<1> QED BY <1>1, <1>2, <1>3 DEF OutboundMessage

\* A change of one message changes one sum, of its own host.
LEMMA OneCounterChanges ==
  ASSUME NEW f, NEW g, NEW m \in Msg, \A k \in Msg : f[k] \in Nat /\ g[k] \in Nat,
         \A k \in Msg \ {m} : g[k] = f[k]
  PROVE  /\ Total(g, Mine(MsgSrc[m])) = Total(f, Mine(MsgSrc[m])) - f[m] + g[m]
         /\ \A h \in Host \ {MsgSrc[m]} : Total(g, Mine(h)) = Total(f, Mine(h))
         /\ Total(f, Mine(MsgSrc[m])) \in Nat
<1>1. Total(g, Mine(MsgSrc[m])) = Total(f, Mine(MsgSrc[m])) - f[m] + g[m]
  <2> DEFINE S == Mine(MsgSrc[m])
  <2>1. m \in S /\ IsFiniteSet(S) /\ S \subseteq Msg
    BY MineFinite DEF Mine
  <2> HIDE DEF S
  <2>2. /\ \A k \in S : f[k] \in Nat
        /\ g[m] \in Nat
        /\ \A k \in S \ {m} : g[k] = f[k]
    BY <2>1
  <2>3. Total(g, S) = Total(f, S) - f[m] + g[m]
    BY <2>1, <2>2, TotalChange
  <2> QED BY <2>3 DEF S
<1>2. ASSUME NEW h \in Host \ {MsgSrc[m]}
      PROVE  Total(g, Mine(h)) = Total(f, Mine(h))
  <2>1. \A k \in Mine(h) : g[k] = f[k]
    BY DEF Mine
  <2> QED BY <2>1, TotalSame
<1>3. Total(f, Mine(MsgSrc[m])) \in Nat
  <2>1. \A k \in Mine(MsgSrc[m]) : f[k] \in Nat
    BY DEF Mine
  <2> QED BY <2>1, MineFinite, TotalType
<1> QED BY <1>1, <1>2, <1>3

\* A transmission takes the bytes of its packet from the message and from the
\* controller.
LEMMA TransmitCounted ==
  ASSUME Inv, NEW h \in Host, NEW ready, NEW out, NEW total, NEW need, NEW grants, NEW off,
         Prepared(h, ready, out, total), TransmitData(h, ready, out, total),
         AllDivided(out, pktsSent, grants, off), Counts(out), Counts(outbndMsg'),
         Counted(out, [bytesLeftToSend EXCEPT ![h] = total], need),
         IsFiniteSet(pktsSent)
  PROVE  Counted(outbndMsg', bytesLeftToSend', need) /\ IsFiniteSet(pktsSent')
<1>1. PICK m \in Msg : \E p \in out[m].txPkts : Transmits(h, out, total, m, p)
  BY TransmitPick
<1>2. PICK p \in out[m].txPkts : Transmits(h, out, total, m, p)
  BY <1>1
<1>3. out \in [Msg -> OutboundMessage] /\ p.len \in Nat /\ MsgSrc[m] = h
  BY <1>2 DEF Prepared, Transmits, Pkt
<1>4. /\ outbndMsg'[m].bytesLeft = out[m].bytesLeft - p.len
      /\ outbndMsg'[m].bytesToSched = out[m].bytesToSched
      /\ \A k \in Msg \ {m} : outbndMsg'[k] = out[k]
  BY <1>2, <1>3 DEF OutboundMessage, Transmits
<1> DEFINE f == Left(out)
           g == Left(outbndMsg')
<1>5. /\ \A k \in Msg : f[k] \in Nat /\ g[k] \in Nat
      /\ \A k \in Msg \ {m} : g[k] = f[k]
      /\ g[m] = f[m] - p.len
      /\ \A k \in Msg : Need(outbndMsg')[k] = Need(out)[k]
  BY <1>4 DEF Counts, Left, Need
<1> HIDE DEF f, g
<1>6. /\ Total(g, Mine(h)) = Total(f, Mine(h)) - p.len
      /\ \A k \in Host \ {h} : Total(g, Mine(k)) = Total(f, Mine(k))
  <2>1. /\ Total(g, Mine(MsgSrc[m])) = Total(f, Mine(MsgSrc[m])) - f[m] + g[m]
        /\ \A k \in Host \ {MsgSrc[m]} : Total(g, Mine(k)) = Total(f, Mine(k))
        /\ Total(f, Mine(MsgSrc[m])) \in Nat
    BY <1>5, OneCounterChanges
  <2> QED BY <1>3, <1>5, <2>1
<1>7. \A k \in Host : Total(Need(outbndMsg'), Mine(k)) = Total(Need(out), Mine(k))
  <2> TAKE k \in Host
  <2>1. \A i \in Mine(k) : Need(outbndMsg')[i] = Need(out)[i]
    BY <1>5 DEF Mine
  <2> QED BY <2>1, TotalSame
<1>8. /\ bytesLeftToSend' = [bytesLeftToSend EXCEPT ![h] = total - p.len]
      /\ bytesLeftToSend \in [Host -> Int]
      /\ pktsSent' = pktsSent \cup {p}
  BY <1>2 DEF Transmits, Inv, TypeOK
<1>9. /\ total = Total(f, Mine(h))
      /\ \A k \in Host \ {h} : bytesLeftToSend[k] = Total(f, Mine(k))
      /\ \A k \in Host : need[k] = Total(Need(out), Mine(k))
  BY <1>8 DEF Counted, f
<1>10. \A k \in Host : bytesLeftToSend'[k] = Total(g, Mine(k))
  BY <1>6, <1>8, <1>9
<1>11. IsFiniteSet(pktsSent')
  BY <1>8, FS_AddElement
<1> QED BY <1>7, <1>9, <1>10, <1>11 DEF Counted, g

LEMMA SendOrQueueCounted ==
  ASSUME Inv, NEW h \in Host, NEW ready, NEW out, NEW total, NEW need, NEW grants, NEW off,
         Prepared(h, ready, out, total), SendOrQueueData(h, ready, out, total),
         AllDivided(out, pktsSent, grants, off), Counts(out), Counts(outbndMsg'),
         Counted(out, [bytesLeftToSend EXCEPT ![h] = total], need),
         IsFiniteSet(pktsSent)
  PROVE  Counted(outbndMsg', bytesLeftToSend', need) /\ IsFiniteSet(pktsSent')
<1>1. CASE /\ outbndMsg' = out /\ pktsSent' = pktsSent
           /\ bytesLeftToSend' = [bytesLeftToSend EXCEPT ![h] = total]
  BY <1>1
<1>2. CASE TransmitData(h, ready, out, total)
  BY <1>2, TransmitCounted
<1> QED BY <1>1, <1>2 DEF SendOrQueueData

LEMMA AppSendCounted ==
  ASSUME Inv, ByteInv, CleanInv, CountInv, NEW m \in Msg, AppSend(m), Counts(outbndMsg')
  PROVE  CountInv'
<1> DEFINE h == MsgSrc[m]
           n == MsgSize[m] - TotalUnsched(m)
           out == [outbndMsg EXCEPT ![m] =
                     [status |-> "active", bytesToSched |-> MsgSize[m] - TotalUnsched(m),
                      bytesLeft |-> MsgSize[m], txPkts |-> ReqUnschedDataPkts(m)]]
           ready == outbndMsgSet[h] \cup {Entry(m, out)}
           total == bytesLeftToSend[h] + MsgSize[m]
           left == [bytesLeftToSend EXCEPT ![h] = total]
<1>1. Prepared(h, ready, out, total) /\ SendOrQueueData(h, ready, out, total)
  BY AppSendPrepared
<1>2. AllDivided(out, pktsSent, Outstanding, offered) /\ Clean(out, pktsSent)
  BY AppSendClean
<1>3. /\ h \in Host
      /\ bytesNeedGrant' = [bytesNeedGrant EXCEPT ![h] = @ + n]
      /\ outbndMsg[m].status = "new"
      /\ n \in Nat /\ MsgSize[m] \in Nat
  BY MsgAssumption, UnschedBounds DEF AppSend, Started
<1>4. /\ out[m].bytesLeft = MsgSize[m]
      /\ out[m].bytesToSched = n
      /\ \A k \in Msg \ {m} : out[k] = outbndMsg[k]
  BY DEF Inv, TypeOK
<1>5. outbndMsg[m].bytesLeft = 0 /\ outbndMsg[m].bytesToSched = 0
  BY <1>3 DEF CleanInv, Clean
<1>6. Counts(out) /\ Counts(outbndMsg)
  <2> HIDE DEF out
  <2>1. Counts(out)
    BY <1>2, DividedCounts
  <2>2. AllDivided(outbndMsg, pktsSent, Outstanding, offered) /\ Clean(outbndMsg, pktsSent)
    BY DEF ByteInv, CleanInv
  <2> QED BY <2>1, <2>2, DividedCounts
<1> HIDE DEF out, n, ready, total
<1> DEFINE f == Left(outbndMsg)
           g == Left(out)
           u == Need(outbndMsg)
           v == Need(out)
<1>7. /\ \A k \in Msg : f[k] \in Nat /\ g[k] \in Nat /\ u[k] \in Nat /\ v[k] \in Nat
      /\ \A k \in Msg \ {m} : g[k] = f[k] /\ v[k] = u[k]
      /\ f[m] = 0 /\ g[m] = MsgSize[m] /\ u[m] = 0 /\ v[m] = n
  BY <1>4, <1>5, <1>6 DEF Counts, Left, Need
<1> HIDE DEF f, g, u, v
<1>8. /\ Total(g, Mine(h)) = Total(f, Mine(h)) + MsgSize[m]
      /\ \A k \in Host \ {h} : Total(g, Mine(k)) = Total(f, Mine(k))
  <2>1. /\ \A k \in Msg : f[k] \in Nat /\ g[k] \in Nat
        /\ \A k \in Msg \ {m} : g[k] = f[k]
    BY <1>7
  <2>2. /\ Total(g, Mine(MsgSrc[m])) = Total(f, Mine(MsgSrc[m])) - f[m] + g[m]
        /\ \A k \in Host \ {MsgSrc[m]} : Total(g, Mine(k)) = Total(f, Mine(k))
        /\ Total(f, Mine(MsgSrc[m])) \in Nat
    BY <2>1, OneCounterChanges
  <2>3. MsgSize[m] \in Nat /\ n \in Nat /\ h = MsgSrc[m]
    BY <1>3
  <2> HIDE DEF h
  <2> QED BY <1>7, <2>2, <2>3
<1>9. /\ Total(v, Mine(h)) = Total(u, Mine(h)) + n
      /\ \A k \in Host \ {h} : Total(v, Mine(k)) = Total(u, Mine(k))
  <2>1. /\ \A k \in Msg : u[k] \in Nat /\ v[k] \in Nat
        /\ \A k \in Msg \ {m} : v[k] = u[k]
    BY <1>7
  <2>2. /\ Total(v, Mine(MsgSrc[m])) = Total(u, Mine(MsgSrc[m])) - u[m] + v[m]
        /\ \A k \in Host \ {MsgSrc[m]} : Total(v, Mine(k)) = Total(u, Mine(k))
        /\ Total(u, Mine(MsgSrc[m])) \in Nat
    BY <2>1, OneCounterChanges
  <2>3. MsgSize[m] \in Nat /\ n \in Nat /\ h = MsgSrc[m]
    BY <1>3
  <2> HIDE DEF h
  <2> QED BY <1>7, <2>2, <2>3
<1>10. /\ bytesLeftToSend \in [Host -> Int] /\ bytesNeedGrant \in [Host -> Int]
       /\ \A k \in Host : /\ bytesLeftToSend[k] = Total(f, Mine(k))
                          /\ bytesNeedGrant[k] = Total(u, Mine(k))
  BY DEF Inv, TypeOK, CountInv, Counted, f, u
<1>11. /\ left[h] = Total(g, Mine(h)) /\ bytesNeedGrant'[h] = Total(v, Mine(h))
       /\ \A k \in Host \ {h} : left[k] = Total(g, Mine(k)) /\ bytesNeedGrant'[k] = Total(v, Mine(k))
  BY <1>3, <1>8, <1>9, <1>10 DEF total
<1>12. Counted(out, left, bytesNeedGrant')
  BY <1>11 DEF Counted, g, v
<1>13. IsFiniteSet(pktsSent)
  BY DEF CountInv
<1> HIDE DEF h
<1>14. Counted(outbndMsg', bytesLeftToSend', bytesNeedGrant') /\ IsFiniteSet(pktsSent')
  BY <1>1, <1>2, <1>3, <1>6, <1>12, <1>13, SendOrQueueCounted
<1> QED BY <1>14 DEF CountInv

LEMMA ReceiveGrantCounted ==
  ASSUME Inv, ByteInv, CleanInv, CountInv, NEW g \in grantNet, ReceiveGrant(g),
         Counts(outbndMsg')
  PROVE  CountInv'
<1> DEFINE m == g.msg
           h == MsgSrc[m]
           p == SchedPkt(g)
           n == p.len
           out == [outbndMsg EXCEPT ![m].txPkts = @ \cup {p},
                                    ![m].bytesToSched = @ - p.len]
           ready == (outbndMsgSet[h] \ {Entry(m, outbndMsg)}) \cup {Entry(m, out)}
           left == [bytesLeftToSend EXCEPT ![h] = bytesLeftToSend[h]]
<1>1. /\ Prepared(h, ready, out, bytesLeftToSend[h])
      /\ SendOrQueueData(h, ready, out, bytesLeftToSend[h])
  BY ReceiveGrantPrepared
<1>2. /\ AllDivided(out, pktsSent, Outstanding \ {g}, offered)
      /\ Clean(out, pktsSent) /\ m \in Msg
  BY ReceiveGrantClean
<1>3. /\ h \in Host
      /\ bytesNeedGrant' = [bytesNeedGrant EXCEPT ![h] = @ - n]
      /\ n \in Nat
  <2>1. p \in Pkt
    BY SchedPktType DEF Inv, TypeOK
  <2>2. bytesNeedGrant' = [bytesNeedGrant EXCEPT ![h] = @ - p.len]
    BY DEF ReceiveGrant
  <2> HIDE DEF p
  <2> QED BY <1>2, <2>1, <2>2, MsgAssumption DEF Pkt
<1> HIDE DEF p
<1>4. /\ out[m].bytesLeft = outbndMsg[m].bytesLeft
      /\ out[m].bytesToSched = outbndMsg[m].bytesToSched - n
      /\ \A k \in Msg \ {m} : out[k] = outbndMsg[k]
  BY <1>2 DEF Inv, TypeOK, OutboundMessage
<1>5. Counts(out) /\ Counts(outbndMsg)
  <2> HIDE DEF out
  <2>1. Counts(out)
    BY <1>2, DividedCounts
  <2>2. AllDivided(outbndMsg, pktsSent, Outstanding, offered) /\ Clean(outbndMsg, pktsSent)
    BY DEF ByteInv, CleanInv
  <2> QED BY <2>1, <2>2, DividedCounts
<1> HIDE DEF out, n, ready, m
<1> DEFINE f == Left(outbndMsg)
           e == Left(out)
           u == Need(outbndMsg)
           v == Need(out)
<1>6. /\ \A k \in Msg : e[k] = f[k]
      /\ \A k \in Msg : u[k] \in Nat /\ v[k] \in Nat
      /\ \A k \in Msg \ {m} : v[k] = u[k]
      /\ v[m] = u[m] - n
  BY <1>2, <1>4, <1>5 DEF Counts, Left, Need
<1> HIDE DEF f, e, u, v
<1>7. \A k \in Host : Total(e, Mine(k)) = Total(f, Mine(k))
  <2> TAKE k \in Host
  <2>1. \A i \in Mine(k) : e[i] = f[i]
    BY <1>6 DEF Mine
  <2> QED BY <2>1, TotalSame
<1>8. /\ Total(v, Mine(h)) = Total(u, Mine(h)) - n
      /\ \A k \in Host \ {h} : Total(v, Mine(k)) = Total(u, Mine(k))
  <2>1. /\ Total(v, Mine(MsgSrc[m])) = Total(u, Mine(MsgSrc[m])) - u[m] + v[m]
        /\ \A k \in Host \ {MsgSrc[m]} : Total(v, Mine(k)) = Total(u, Mine(k))
        /\ Total(u, Mine(MsgSrc[m])) \in Nat
    BY <1>2, <1>6, OneCounterChanges
  <2> QED BY <1>2, <1>3, <1>6, <2>1
<1>9. /\ bytesLeftToSend \in [Host -> Int] /\ bytesNeedGrant \in [Host -> Int]
       /\ \A k \in Host : /\ bytesLeftToSend[k] = Total(f, Mine(k))
                          /\ bytesNeedGrant[k] = Total(u, Mine(k))
  BY DEF Inv, TypeOK, CountInv, Counted, f, u
<1>10. \A k \in Host : left[k] = Total(e, Mine(k)) /\ bytesNeedGrant'[k] = Total(v, Mine(k))
  BY <1>3, <1>7, <1>8, <1>9
<1>11. Counted(out, left, bytesNeedGrant')
  BY <1>10 DEF Counted, e, v
<1>12. IsFiniteSet(pktsSent)
  BY DEF CountInv
<1> HIDE DEF h
<1>13. Counted(outbndMsg', bytesLeftToSend', bytesNeedGrant') /\ IsFiniteSet(pktsSent')
  BY <1>1, <1>2, <1>3, <1>5, <1>11, <1>12, SendOrQueueCounted
<1> QED BY <1>13 DEF CountInv

LEMMA NextCounted ==
  Inv /\ ByteInv /\ CleanInv /\ CountInv /\ [Next]_vars /\ ByteInv' /\ CleanInv' => CountInv'
<1> SUFFICES ASSUME Inv, ByteInv, CleanInv, CountInv, [Next]_vars, ByteInv', CleanInv'
             PROVE  CountInv'
  OBVIOUS
<1>1. Counts(outbndMsg) /\ Counts(outbndMsg')
  <2>1. AllDivided(outbndMsg, pktsSent, Outstanding, offered) /\ Clean(outbndMsg, pktsSent)
    BY DEF ByteInv, CleanInv
  <2>2. /\ AllDivided(outbndMsg', pktsSent', Outstanding', offered')
        /\ Clean(outbndMsg', pktsSent')
    BY DEF ByteInv, CleanInv
  <2> QED BY <2>1, <2>2, DividedCounts
<1>2. ASSUME NEW m \in Msg, AppSend(m) PROVE CountInv'
  BY <1>1, <1>2, AppSendCounted
<1>3. ASSUME NEW g \in grantNet, ReceiveGrant(g) PROVE CountInv'
  BY <1>1, <1>3, ReceiveGrantCounted
<1>4. CASE UNCHANGED <<outbndMsg, bytesLeftToSend, bytesNeedGrant, pktsSent>>
  BY <1>4 DEF CountInv
<1>5. ASSUME NEW h \in Host, SendTimer(h) PROVE CountInv'
  <2>1. CASE /\ TransmitData(h, outbndMsgSet[h], outbndMsg, bytesLeftToSend[h])
             /\ UNCHANGED bytesNeedGrant
    <3> DEFINE left == [bytesLeftToSend EXCEPT ![h] = bytesLeftToSend[h]]
    <3>1. Prepared(h, outbndMsgSet[h], outbndMsg, bytesLeftToSend[h])
      BY DEF Prepared, Inv, TypeOK, ReadySetExact
    <3>2. AllDivided(outbndMsg, pktsSent, Outstanding, offered)
      BY DEF ByteInv
    <3>3. Counted(outbndMsg, left, bytesNeedGrant) /\ IsFiniteSet(pktsSent)
      <4>1. left = bytesLeftToSend
        BY DEF Inv, TypeOK
      <4> QED BY <4>1 DEF CountInv
    <3>4. Counted(outbndMsg', bytesLeftToSend', bytesNeedGrant) /\ IsFiniteSet(pktsSent')
      BY <1>1, <2>1, <3>1, <3>2, <3>3, TransmitCounted
    <3> QED BY <2>1, <3>4 DEF CountInv
  <2> QED BY <1>4, <1>5, <2>1 DEF SendTimer, hostVars, netVars
<1>6. ASSUME NEW h \in Host, NEW granted \in SUBSET Msg, ReceiverGrants(h, granted)
      PROVE  CountInv'
  BY <1>4, <1>6 DEF ReceiverGrants, SendOrQueueGrants, hostVars
<1>7. CASE UNCHANGED vars
  BY <1>4, <1>7 DEF vars, senderVars
<1> QED BY <1>2, <1>3, <1>5, <1>6, <1>7 DEF Next, SenderNext

LEMMA AlwaysCounted == Spec => []CountInv
<1>1. Init => CountInv
  <2> SUFFICES ASSUME Init PROVE CountInv
    OBVIOUS
  <2>1. IsFiniteSet(pktsSent)
    BY FS_EmptySet DEF Init, SenderInit
  <2>2. ASSUME NEW h \in Host
        PROVE  /\ Total(Left(outbndMsg), Mine(h)) = 0
               /\ Total(Need(outbndMsg), Mine(h)) = 0
    <3>1. \A m \in Mine(h) : Left(outbndMsg)[m] = 0 /\ Need(outbndMsg)[m] = 0
      BY DEF Init, SenderInit, Mine, Left, Need
    <3> QED BY <3>1, TotalZero
  <2>3. Counted(outbndMsg, bytesLeftToSend, bytesNeedGrant)
    BY <2>2 DEF Init, SenderInit, Counted
  <2> QED BY <2>1, <2>3 DEF CountInv
<1>2. Inv /\ ByteInv /\ [Next]_vars => ByteInv'
  BY NextBytes
<1>3. Inv /\ ByteInv /\ CleanInv /\ [Next]_vars => CleanInv'
  BY NextClean
<1> QED BY AlwaysInv, AlwaysByteInv, AlwaysClean, <1>1, <1>2, <1>3, NextCounted, PTL DEF Spec

\* The two counters of a message, computed from what was sent and granted.
LEMMA DividedAdds ==
  ASSUME NEW m \in Msg, NEW o, NEW sent, NEW grants, NEW off,
         Divided(m, o, sent, grants, off), o.status # "new", IsFiniteSet(sent)
  PROVE  /\ o.bytesLeft = MsgSize[m] - MapThenSumSet(LAMBDA p : p.len, sent)
         /\ o.bytesToSched = MsgSize[m] - off + MapThenSumSet(LAMBDA g : g.len, grants)
<1> DEFINE A == Bytes(sent \cup o.txPkts)
           B == Bytes(sent)
           C == Bytes(grants)
<1>1. /\ sent \subseteq {p \in Pkt : p.msg = m}
      /\ grants \subseteq {g \in Grant : g.msg = m /\ g.len > 0}
      /\ Disjoint(sent \cup o.txPkts)
      /\ Disjoint(grants)
      /\ Apart(sent \cup o.txPkts, grants)
      /\ A \cup C = 0 .. off - 1
      /\ o.bytesToSched = Cardinality(Whole(m) \ A)
      /\ o.bytesLeft = Cardinality(Whole(m) \ B)
      /\ off \in Nat /\ off <= MsgSize[m]
  BY DEF Divided
<1>2. /\ MsgSize[m] \in Nat
      /\ Cardinality(Whole(m)) = MsgSize[m]
      /\ 0 .. off - 1 \subseteq Whole(m)
      /\ IsFiniteSet(0 .. off - 1)
      /\ Cardinality(0 .. off - 1) = off
  BY <1>1, WholeSize
<1>3. /\ \A p \in sent : p.first \in Nat /\ p.len \in Nat
      /\ \A g \in grants : g.first \in Nat /\ g.len \in Nat /\ g.len > 0
  BY <1>1 DEF Pkt, Grant
<1>4. A \cap C = {} /\ B \subseteq A
  BY <1>1 DEF Apart, Bytes
<1>5. MapThenSumSet(LAMBDA p : p.len, sent) = Cardinality(B)
  <2>1. Disjoint(sent)
    BY <1>1 DEF Disjoint
  <2> QED BY <1>3, <2>1, LenSumBytes
<1> HIDE DEF A, B, C
<1>6. IsFiniteSet(A) /\ IsFiniteSet(B) /\ IsFiniteSet(C)
  <2>1. A \subseteq 0 .. off - 1 /\ B \subseteq 0 .. off - 1 /\ C \subseteq 0 .. off - 1
    BY <1>1, <1>4
  <2> QED BY <1>2, <2>1, FS_Subset
<1>7. MapThenSumSet(LAMBDA g : g.len, grants) = Cardinality(C)
  <2>1. IsFiniteSet(grants)
    BY <1>1, <1>3, <1>6, DisjointFinite DEF C
  <2> QED BY <1>1, <1>3, <2>1, LenSumBytes DEF C
<1>8. /\ Cardinality(A) + Cardinality(C) = off
      /\ Cardinality(A) \in Nat /\ Cardinality(B) \in Nat /\ Cardinality(C) \in Nat
  <2>1. Cardinality(A \cup C) = Cardinality(A) + Cardinality(C) - Cardinality(A \cap C)
    BY <1>6, FS_Union
  <2>2. Cardinality(A \cap C) = 0
    BY <1>4, FS_EmptySet
  <2>3. Cardinality(A) \in Nat /\ Cardinality(B) \in Nat /\ Cardinality(C) \in Nat
    BY <1>6, FS_CardinalityType
  <2>4. Cardinality(A \cup C) = off
    <3>1. A \cup C = 0 .. off - 1 /\ Cardinality(0 .. off - 1) = off
      BY <1>1, <1>2
    <3> DEFINE D == 0 .. off - 1
    <3> HIDE DEF D
    <3> QED BY <3>1 DEF D
  <2> QED BY <1>1, <2>1, <2>2, <2>3, <2>4
<1>9. ASSUME NEW D, IsFiniteSet(D), D \subseteq 0 .. off - 1
      PROVE  Cardinality(Whole(m) \ D) = MsgSize[m] - Cardinality(D)
  <2>1. D \subseteq Whole(m) /\ {} \cap D = {}
    BY <1>2, <1>9
  <2>2. Cardinality(Whole(m) \ ({} \cup D)) = Cardinality(Whole(m) \ {}) - Cardinality(D)
    BY <1>9, <2>1, TakeOut
  <2>3. Whole(m) \ {} = Whole(m) /\ {} \cup D = D
    OBVIOUS
  <2> QED BY <1>2, <2>2, <2>3
<1>10. o.bytesLeft = MsgSize[m] - Cardinality(B)
  <2>1. B \subseteq 0 .. off - 1
    BY <1>1, <1>4
  <2> QED BY <1>1, <1>6, <1>9, <2>1
<1>11. o.bytesToSched = MsgSize[m] - off + Cardinality(C)
  <2>1. A \subseteq 0 .. off - 1
    BY <1>1
  <2>2. o.bytesToSched = MsgSize[m] - Cardinality(A)
    BY <1>1, <1>6, <1>9, <2>1
  <2> QED BY <1>1, <1>2, <1>8, <2>2
<1> QED BY <1>5, <1>7, <1>10, <1>11

\* The counters never lie: bytesLeft and bytesToSched of a message are what has
\* not been transmitted and not been scheduled, bytesLeftToSend and
\* bytesNeedGrant are the sums of those of the host's messages, and a message
\* leaves outboundMsgMap exactly with its last byte.  So no unsigned counter of
\* the SendController ever wraps below zero.
THEOREM CountersAddUp == Spec => []ByteAccounting
<1>1. Inv /\ ByteInv /\ CleanInv /\ CountInv => ByteAccounting
  <2> SUFFICES ASSUME Inv, ByteInv, CleanInv, CountInv PROVE ByteAccounting
    OBVIOUS
  <2>1. ASSUME NEW m \in Msg, Started(m)
        PROVE  /\ outbndMsg[m].bytesLeft = MsgSize[m] - SentBytes(m)
               /\ outbndMsg[m].bytesToSched = MsgSize[m] - offered[m]
                    + MapThenSumSet(LAMBDA g : g.len, {g \in Outstanding : g.msg = m})
               /\ outbndMsg[m].status = "done" <=> outbndMsg[m].bytesLeft = 0
    <3> DEFINE sent == {p \in pktsSent : p.msg = m}
               grants == {g \in Outstanding : g.msg = m}
               o == outbndMsg[m]
               off == offered[m]
    <3>1. Divided(m, o, sent, grants, off) /\ o.status # "new"
      BY <2>1 DEF ByteInv, AllDivided, Started
    <3>2. IsFiniteSet(sent)
      BY FS_Subset DEF CountInv
    <3> HIDE DEF sent, grants, o, off
    <3>3. /\ o.bytesLeft = MsgSize[m] - MapThenSumSet(LAMBDA p : p.len, sent)
          /\ o.bytesToSched = MsgSize[m] - off + MapThenSumSet(LAMBDA g : g.len, grants)
      BY <3>1, <3>2, DividedAdds
    <3>4. o.status = "done" <=> o.bytesLeft = 0
      BY <3>1 DEF Divided
    <3> QED BY <3>3, <3>4 DEF sent, grants, o, off, SentBytes
  <2>2. ASSUME NEW h \in Host
        PROVE  /\ bytesLeftToSend[h] =
                    MapThenSumSet(LAMBDA m : outbndMsg[m].bytesLeft, {m \in Msg : MsgSrc[m] = h})
               /\ bytesNeedGrant[h] =
                    MapThenSumSet(LAMBDA m : outbndMsg[m].bytesToSched, {m \in Msg : MsgSrc[m] = h})
    <3> DEFINE S == {m \in Msg : MsgSrc[m] = h}
    <3>1. IsFiniteSet(S) /\ S = Mine(h)
      BY MineFinite DEF Mine
    <3>2. Counts(outbndMsg)
      BY DividedCounts DEF ByteInv, CleanInv
    <3>3. \A m \in S : /\ outbndMsg[m].bytesLeft \in Nat
                       /\ outbndMsg[m].bytesToSched \in Nat
      BY <3>2 DEF Counts, Left, Need
    <3>4. /\ \A m \in S : Left(outbndMsg)[m] = [i \in S |-> outbndMsg[i].bytesLeft][m]
          /\ \A m \in S : Need(outbndMsg)[m] = [i \in S |-> outbndMsg[i].bytesToSched][m]
      BY DEF Left, Need
    <3> HIDE DEF S
    <3>5. /\ MapThenSumSet(LAMBDA m : outbndMsg[m].bytesLeft, S) =
               Total([i \in S |-> outbndMsg[i].bytesLeft], S)
          /\ MapThenSumSet(LAMBDA m : outbndMsg[m].bytesToSched, S) =
               Total([i \in S |-> outbndMsg[i].bytesToSched], S)
      BY <3>1, <3>3, LeftSum, NeedSum
    <3>6. /\ Total([i \in S |-> outbndMsg[i].bytesLeft], S) = Total(Left(outbndMsg), S)
          /\ Total([i \in S |-> outbndMsg[i].bytesToSched], S) = Total(Need(outbndMsg), S)
      BY <3>4, TotalSame
    <3>7. /\ bytesLeftToSend[h] = Total(Left(outbndMsg), S)
          /\ bytesNeedGrant[h] = Total(Need(outbndMsg), S)
      BY <3>1 DEF CountInv, Counted
    <3> QED BY <3>5, <3>6, <3>7 DEF S
  <2> QED BY <2>1, <2>2 DEF ByteAccounting
<1> QED BY AlwaysInv, AlwaysByteInv, AlwaysClean, AlwaysCounted, <1>1, PTL

-----------------------------------------------------------------------------
(* What a receiver has still to receive of a message.                       *)

\* The packets of message m with outbound state o that have still to arrive, when the
\* packets sent were sent, those in came have arrived, and grants are on their way.
Coming(m, o, sent, grants, came) ==
  IF o.status = "new" THEN ReqUnschedDataPkts(m)
  ELSE {p \in o.txPkts \cup (sent \ came) : p.msg = m}
       \cup {SchedPktFor(g) : g \in {x \in grants : x.msg = m}}

\* A transmission brings no packet that was not ready.
LEMMA TransmitComing ==
  ASSUME NEW h \in Host, NEW ready, NEW out, NEW total, NEW grants, NEW off,
         Prepared(h, ready, out, total), TransmitData(h, ready, out, total),
         AllDivided(out, pktsSent, grants, off),
         NEW came \in SUBSET pktsSent, NEW m \in Msg
  PROVE  Coming(m, outbndMsg'[m], pktsSent', grants, came) =
           Coming(m, out[m], pktsSent, grants, came)
<1>1. PICK k \in Msg : \E p \in out[k].txPkts : Transmits(h, out, total, k, p)
  BY TransmitPick
<1>2. PICK p \in out[k].txPkts : Transmits(h, out, total, k, p)
  BY <1>1
<1>3. p.msg = k /\ pktsSent' = pktsSent \cup {p}
  BY <1>2 DEF Transmits
<1>4. p \notin pktsSent
  <2>1. out[k].status # "new"
    BY <1>2 DEF Transmits
  <2>2. Divided(k, out[k], {q \in pktsSent : q.msg = k}, {g \in grants : g.msg = k}, off[k])
    BY DEF AllDivided
  <2>3. out[k].txPkts \cap {q \in pktsSent : q.msg = k} = {}
    BY <2>1, <2>2 DEF Divided
  <2> QED BY <1>3, <2>3
<1>5. out \in [Msg -> OutboundMessage]
  BY DEF Prepared
<1>6. /\ outbndMsg'[k].status # "new" /\ out[k].status # "new"
      /\ outbndMsg'[k].txPkts = out[k].txPkts \ {p}
      /\ \A j \in Msg \ {k} : outbndMsg'[j] = out[j]
  BY <1>2, <1>5 DEF OutboundMessage, Transmits
<1>7. p \notin came
  BY <1>4
<1>8. CASE m = k
  <2>1. (out[m].txPkts \ {p}) \cup ((pktsSent \cup {p}) \ came) =
          out[m].txPkts \cup (pktsSent \ came)
    BY <1>2, <1>7, <1>8
  <2> QED BY <1>3, <1>6, <1>8, <2>1 DEF Coming
<1>9. CASE m # k
  <2>1. {x \in out[m].txPkts \cup ((pktsSent \cup {p}) \ came) : x.msg = m} =
          {x \in out[m].txPkts \cup (pktsSent \ came) : x.msg = m}
    BY <1>3, <1>9
  <2> QED BY <1>3, <1>6, <1>9, <2>1 DEF Coming
<1> QED BY <1>8, <1>9

LEMMA SendOrQueueComing ==
  ASSUME NEW h \in Host, NEW ready, NEW out, NEW total, NEW grants, NEW off,
         Prepared(h, ready, out, total), SendOrQueueData(h, ready, out, total),
         AllDivided(out, pktsSent, grants, off),
         NEW came \in SUBSET pktsSent, NEW m \in Msg
  PROVE  /\ Coming(m, outbndMsg'[m], pktsSent', grants, came) =
              Coming(m, out[m], pktsSent, grants, came)
         /\ pktsSent \subseteq pktsSent'
<1>1. CASE outbndMsg' = out /\ pktsSent' = pktsSent
  BY <1>1
<1>2. CASE TransmitData(h, ready, out, total)
  <2>1. pktsSent \subseteq pktsSent'
    BY <1>2 DEF TransmitData
  <2> QED BY <1>2, <2>1, TransmitComing
<1> QED BY <1>1, <1>2 DEF SendOrQueueData

\* No step of a sender changes what has still to arrive.
LEMMA AppSendComing ==
  ASSUME Inv, ByteInv, CleanInv, NEW k \in Msg, AppSend(k),
         NEW came \in SUBSET pktsSent, NEW m \in Msg
  PROVE  /\ Coming(m, outbndMsg'[m], pktsSent', Outstanding', came) =
              Coming(m, outbndMsg[m], pktsSent, Outstanding, came)
         /\ pktsSent \subseteq pktsSent'
<1> DEFINE h == MsgSrc[k]
           o == [status |-> "active", bytesToSched |-> MsgSize[k] - TotalUnsched(k),
                 bytesLeft |-> MsgSize[k], txPkts |-> ReqUnschedDataPkts(k)]
           out == [outbndMsg EXCEPT ![k] = o]
           ready == outbndMsgSet[h] \cup {Entry(k, out)}
           total == bytesLeftToSend[h] + MsgSize[k]
<1>1. Prepared(h, ready, out, total) /\ SendOrQueueData(h, ready, out, total)
  BY AppSendPrepared
<1>2. AllDivided(out, pktsSent, Outstanding, offered)
  BY AppSendClean
<1>3. h \in Host /\ Outstanding' = Outstanding
  BY MsgAssumption DEF AppSend, Outstanding
<1>4. Coming(m, out[m], pktsSent, Outstanding, came) =
        Coming(m, outbndMsg[m], pktsSent, Outstanding, came)
  <2>1. out[k] = o /\ \A j \in Msg \ {k} : out[j] = outbndMsg[j]
    BY DEF Inv, TypeOK
  <2>2. CASE m # k
    BY <2>1, <2>2
  <2>3. CASE m = k
    <3>1. outbndMsg[m].status = "new"
      BY <2>3 DEF AppSend, Started
    <3>2. Divided(m, outbndMsg[m], {q \in pktsSent : q.msg = m},
                  {g \in Outstanding : g.msg = m}, offered[m])
      BY DEF ByteInv, AllDivided
    <3>3. {q \in pktsSent : q.msg = m} = {} /\ {g \in Outstanding : g.msg = m} = {}
      BY <3>1, <3>2 DEF Divided
    <3>4. Coming(m, outbndMsg[m], pktsSent, Outstanding, came) = ReqUnschedDataPkts(m)
      BY <3>1 DEF Coming
    <3>5. o.status # "new" /\ o.txPkts = ReqUnschedDataPkts(k)
      OBVIOUS
    <3>6. \A p \in ReqUnschedDataPkts(m) : p.msg = m
      BY UnschedPktsDivide
    <3> HIDE DEF o, out
    <3>7. {p \in out[m].txPkts \cup (pktsSent \ came) : p.msg = m} = ReqUnschedDataPkts(m)
      BY <2>1, <2>3, <3>3, <3>5, <3>6
    <3>8. Coming(m, out[m], pktsSent, Outstanding, came) = ReqUnschedDataPkts(m)
      BY <2>1, <2>3, <3>3, <3>5, <3>7 DEF Coming
    <3> QED BY <3>4, <3>8
  <2> QED BY <2>2, <2>3
<1> HIDE DEF h, out, ready, total
<1> QED BY <1>1, <1>2, <1>3, <1>4, SendOrQueueComing

LEMMA ReceiveGrantComing ==
  ASSUME Inv, ByteInv, CleanInv, NEW g \in grantNet, ReceiveGrant(g),
         NEW came \in SUBSET pktsSent, NEW m \in Msg
  PROVE  /\ Coming(m, outbndMsg'[m], pktsSent', Outstanding', came) =
              Coming(m, outbndMsg[m], pktsSent, Outstanding, came)
         /\ pktsSent \subseteq pktsSent'
<1> DEFINE k == g.msg
           h == MsgSrc[k]
           p == SchedPkt(g)
           out == [outbndMsg EXCEPT ![k].txPkts = @ \cup {p},
                                    ![k].bytesToSched = @ - p.len]
           ready == (outbndMsgSet[h] \ {Entry(k, outbndMsg)}) \cup {Entry(k, out)}
<1>1. /\ Prepared(h, ready, out, bytesLeftToSend[h])
      /\ SendOrQueueData(h, ready, out, bytesLeftToSend[h])
  BY ReceiveGrantPrepared
<1>2. /\ AllDivided(out, pktsSent, Outstanding \ {g}, offered)
      /\ p.len = g.len /\ k \in Msg
  BY ReceiveGrantClean
<1>3. h \in Host
  BY <1>2, MsgAssumption
<1>4. Outstanding' = Outstanding \ {g} /\ g \in Outstanding
  BY DEF ReceiveGrant, Outstanding, ByteInv, GrantsPlaced
<1>5. p = SchedPktFor(g) /\ p.msg = k
  BY <1>2 DEF SchedPkt, SchedPktFor
<1> HIDE DEF p
<1>6. /\ out[k].status = outbndMsg[k].status /\ out[k].txPkts = outbndMsg[k].txPkts \cup {p}
      /\ \A j \in Msg \ {k} : out[j] = outbndMsg[j]
  BY <1>2 DEF Inv, TypeOK, OutboundMessage
<1>7. outbndMsg[k].status # "new"
  BY DEF ReceiveGrant, Active
<1> HIDE DEF h, out, ready
<1>8. Coming(m, out[m], pktsSent, Outstanding \ {g}, came) =
        Coming(m, outbndMsg[m], pktsSent, Outstanding, came)
  <2>1. CASE m # k
    <3>1. {x \in Outstanding \ {g} : x.msg = m} = {x \in Outstanding : x.msg = m}
      BY <2>1
    <3> QED BY <1>6, <2>1, <3>1 DEF Coming
  <2>2. CASE m = k
    <3>1. {SchedPktFor(x) : x \in {y \in Outstanding : y.msg = m}} =
            {SchedPktFor(x) : x \in {y \in Outstanding \ {g} : y.msg = m}} \cup {p}
      BY <1>4, <1>5, <2>2
    <3>2. {x \in (outbndMsg[k].txPkts \cup {p}) \cup (pktsSent \ came) : x.msg = m} =
            {x \in outbndMsg[k].txPkts \cup (pktsSent \ came) : x.msg = m} \cup {p}
      BY <1>5, <2>2
    <3> HIDE DEF k
    <3> QED BY <1>6, <1>7, <2>2, <3>1, <3>2 DEF Coming
  <2> QED BY <2>1, <2>2
<1> HIDE DEF k
<1> QED BY <1>1, <1>2, <1>3, <1>4, <1>8, SendOrQueueComing

LEMMA SendTimerComing ==
  ASSUME Inv, ByteInv, NEW h \in Host, SendTimer(h),
         NEW came \in SUBSET pktsSent, NEW m \in Msg
  PROVE  /\ Coming(m, outbndMsg'[m], pktsSent', Outstanding', came) =
              Coming(m, outbndMsg[m], pktsSent, Outstanding, came)
         /\ pktsSent \subseteq pktsSent'
<1>1. ASSUME NEW g \in outGrantQueue[h],
             outGrantQueue' = [outGrantQueue EXCEPT ![h] = @ \ {g}],
             grantNet' = grantNet \cup {g}, UNCHANGED <<outbndMsg, pktsSent>>
      PROVE  UNCHANGED <<outbndMsg, pktsSent, Outstanding>>
  <2>1. /\ outGrantQueue'[h] = outGrantQueue[h] \ {g}
        /\ \A k \in Host \ {h} : outGrantQueue'[k] = outGrantQueue[k]
    BY <1>1 DEF Inv, TypeOK
  <2> QED BY <1>1, <2>1 DEF Outstanding
<1>2. CASE /\ TransmitData(h, outbndMsgSet[h], outbndMsg, bytesLeftToSend[h])
           /\ UNCHANGED <<bytesNeedGrant, outGrantQueue, grantNet>>
  <2>1. Prepared(h, outbndMsgSet[h], outbndMsg, bytesLeftToSend[h])
    BY DEF Prepared, Inv, TypeOK, ReadySetExact
  <2>2. AllDivided(outbndMsg, pktsSent, Outstanding, offered)
    BY DEF ByteInv
  <2>3. Outstanding' = Outstanding
    BY <1>2 DEF Outstanding
  <2>4. pktsSent \subseteq pktsSent'
    BY <1>2 DEF TransmitData
  <2> QED BY <1>2, <2>1, <2>2, <2>3, <2>4, TransmitComing
<1>3. CASE UNCHANGED <<outbndMsg, outGrantQueue, netVars>>
  BY <1>3 DEF Outstanding, netVars
<1> QED BY <1>1, <1>2, <1>3 DEF SendTimer

LEMMA SenderComing ==
  ASSUME Inv, ByteInv, CleanInv, SenderNext, NEW came \in SUBSET pktsSent, NEW m \in Msg
  PROVE  /\ Coming(m, outbndMsg'[m], pktsSent', Outstanding', came) =
              Coming(m, outbndMsg[m], pktsSent, Outstanding, came)
         /\ pktsSent \subseteq pktsSent'
BY AppSendComing, ReceiveGrantComing, SendTimerComing DEF SenderNext

\* A packet that was sent belongs to a message that was started, and nothing else will
\* bring its bytes.
LEMMA SentParts ==
  ASSUME Inv, ByteInv, NEW p \in pktsSent
  PROVE  /\ p \in Pkt /\ p.msg \in Msg /\ outbndMsg[p.msg].status # "new"
         /\ p \notin outbndMsg[p.msg].txPkts
         /\ \A g \in Outstanding : p # SchedPktFor(g)
<1> DEFINE m == p.msg
           o == outbndMsg[m]
           sent == {q \in pktsSent : q.msg = m}
           grants == {g \in Outstanding : g.msg = m}
<1>1. p \in Pkt /\ m \in Msg
  BY DEF Inv, TypeOK, Pkt
<1>2. Divided(m, o, sent, grants, offered[m]) /\ p \in sent
  BY <1>1 DEF ByteInv, AllDivided
<1> HIDE DEF o, sent
<1>3. o.status # "new"
  BY <1>2 DEF Divided
<1>4. o.txPkts \cap sent = {} /\ Apart(sent \cup o.txPkts, grants)
      /\ \A g \in grants : g \in Grant /\ g.len > 0
  <2> HIDE DEF grants
  <2> QED BY <1>2, <1>3 DEF Divided
<1>5. ASSUME NEW g \in Outstanding, p = SchedPktFor(g)
      PROVE  FALSE
  <2>1. g \in grants /\ BytesOf(p) = BytesOf(g)
    BY <1>5 DEF SchedPktFor, BytesOf
  <2>2. g.first \in Nat /\ g.len \in Nat /\ g.len > 0
    BY <1>4, <2>1 DEF Grant
  <2>3. g.first \in BytesOf(g)
    BY <2>2, BytesOfSize
  <2> QED BY <1>2, <1>4, <2>1, <2>3 DEF Apart
<1> QED BY <1>1, <1>2, <1>3, <1>4, <1>5 DEF o

\* When nothing has still to arrive of a message that was let go, all of it has arrived.
LEMMA AllArrived ==
  ASSUME Inv, ByteInv, NEW m \in Msg, offered[m] = MsgSize[m], NEW came \in SUBSET pktsSent,
         Coming(m, outbndMsg[m], pktsSent, Outstanding, came) = {}
  PROVE  UNION {BytesOf(p) : p \in {q \in came : q.msg = m}} = 0 .. MsgSize[m] - 1
<1> DEFINE o == outbndMsg[m]
           sent == {q \in pktsSent : q.msg = m}
           grants == {g \in Outstanding : g.msg = m}
<1>1. Divided(m, o, sent, grants, offered[m])
  BY DEF ByteInv, AllDivided
<1>2. o.status # "new"
  BY UnschedPktsType DEF Coming
<1>3. {p \in o.txPkts \cup (pktsSent \ came) : p.msg = m} = {} /\ grants = {}
  BY <1>2 DEF Coming
<1>4. sent = {q \in came : q.msg = m}
  BY <1>3
<1>5. /\ o.txPkts \subseteq {p \in Pkt : p.msg = m}
      /\ Bytes(sent \cup o.txPkts) \cup Bytes(grants) = 0 .. offered[m] - 1
  <2> HIDE DEF o, sent, grants
  <2> QED BY <1>1, <1>2 DEF Divided
<1>6. o.txPkts = {}
  BY <1>3, <1>5
<1>7. Bytes(grants) = {}
  BY <1>3 DEF Bytes
<1>8. Bytes(sent) = 0 .. offered[m] - 1
  <2> HIDE DEF o, sent, grants
  <2>1. sent \cup o.txPkts = sent
    BY <1>6
  <2> QED BY <1>5, <1>7, <2>1
<1> QED BY <1>4, <1>8 DEF Bytes

-----------------------------------------------------------------------------
(* Messages start when the application sends them, and at no other time.    *)

StartedOf(out) == {m \in Msg : out[m].status # "new"}

\* Transmitting starts no message and forgets none.
LEMMA TransmitStarts ==
  ASSUME NEW h, NEW ready, NEW out, NEW total,
         Servable(ready, out), TransmitData(h, ready, out, total)
  PROVE  StartedOf(outbndMsg') = StartedOf(out)
<1>1. PICK e \in ready : \E p :
        LET m == e[2]
            left == out[m].bytesLeft - p.len
        IN outbndMsg' = [out EXCEPT ![m].txPkts = @ \ {p}, ![m].bytesLeft = left,
                                    ![m].status = IF left <= 0 THEN "done" ELSE @]
  BY Zenon DEF TransmitData
<1>2. PICK p :
        LET m == e[2]
            left == out[m].bytesLeft - p.len
        IN outbndMsg' = [out EXCEPT ![m].txPkts = @ \ {p}, ![m].bytesLeft = left,
                                    ![m].status = IF left <= 0 THEN "done" ELSE @]
  BY <1>1
<1> DEFINE m == e[2]
           left == out[m].bytesLeft - p.len
           new == [out[m] EXCEPT !.txPkts = @ \ {p}, !.bytesLeft = left,
                                 !.status = IF left <= 0 THEN "done" ELSE @]
<1>3. m \in Msg /\ out[m].status = "active" /\ out \in [Msg -> OutboundMessage]
  BY DEF Servable
<1>4. outbndMsg' = [out EXCEPT ![m] = new]
  BY <1>2, <1>3
<1>5. new.status # "new"
  BY <1>3 DEF OutboundMessage
<1> HIDE DEF new, m
<1>6. outbndMsg'[m].status # "new" /\ \A k \in Msg \ {m} : outbndMsg'[k] = out[k]
  BY <1>3, <1>4, <1>5
<1> QED BY <1>3, <1>6 DEF StartedOf

LEMMA SendOrQueueStarts ==
  ASSUME NEW h, NEW ready, NEW out, NEW total,
         Servable(ready, out), SendOrQueueData(h, ready, out, total)
  PROVE  StartedOf(outbndMsg') = StartedOf(out)
<1>1. outbndMsg' = out \/ TransmitData(h, ready, out, total)
  BY DEF SendOrQueueData
<1> QED BY <1>1, TransmitStarts

LEMMA AppSendStarts ==
  ASSUME Inv, ByteInv, NEW m \in Msg, AppSend(m)
  PROVE  m \notin StartedOf(outbndMsg) /\ StartedOf(outbndMsg') = StartedOf(outbndMsg) \cup {m}
<1> DEFINE h == MsgSrc[m]
           o == [status |-> "active", bytesToSched |-> MsgSize[m] - TotalUnsched(m),
                 bytesLeft |-> MsgSize[m], txPkts |-> ReqUnschedDataPkts(m)]
           out == [outbndMsg EXCEPT ![m] = o]
           ready == outbndMsgSet[h] \cup {Entry(m, out)}
           total == bytesLeftToSend[h] + MsgSize[m]
<1>1. outbndMsg[m].status = "new" /\ SendOrQueueData(h, ready, out, total)
  BY DEF AppSend, Started
<1>2. h \in Host
  BY MsgAssumption
<1>3. o \in OutboundMessage /\ o.status = "active"
  <2>1. Divided(m, outbndMsg[m], {p \in pktsSent : p.msg = m}, {g \in Outstanding : g.msg = m},
                offered[m])
    BY DEF ByteInv, AllDivided
  <2>2. Divided(m, o, {p \in pktsSent : p.msg = m}, {g \in Outstanding : g.msg = m}, offered[m])
    BY <1>1, <2>1, DividedStart
  <2> QED BY <2>2 DEF Divided
<1> HIDE DEF o
<1>4. out[m] = o /\ \A k \in Msg \ {m} : out[k] = outbndMsg[k]
  BY DEF Inv, TypeOK
<1>5. Servable(ready, out)
  BY <1>2, <1>3, PreparedServable
<1> HIDE DEF out, ready, total
<1>6. StartedOf(outbndMsg') = StartedOf(out)
  BY <1>1, <1>5, SendOrQueueStarts
<1>7. StartedOf(out) = StartedOf(outbndMsg) \cup {m}
  BY <1>3, <1>4 DEF StartedOf
<1> QED BY <1>1, <1>6, <1>7 DEF StartedOf

LEMMA ReceiveGrantStarts ==
  ASSUME Inv, NEW g \in grantNet, ReceiveGrant(g)
  PROVE  StartedOf(outbndMsg') = StartedOf(outbndMsg)
<1> DEFINE m == g.msg
           h == MsgSrc[m]
           p == SchedPkt(g)
           o == [outbndMsg[m] EXCEPT !.txPkts = @ \cup {p}, !.bytesToSched = @ - p.len]
           out == [outbndMsg EXCEPT ![m] = o]
           ready == (outbndMsgSet[h] \ {Entry(m, outbndMsg)}) \cup {Entry(m, out)}
<1>1. outbndMsg[m].status = "active"
  BY DEF ReceiveGrant, Active
<1>2. /\ m \in Msg /\ h \in Host
      /\ outbndMsg \in [Msg -> OutboundMessage]
      /\ p \in Pkt /\ outbndMsg[m].bytesToSched - p.len \in Nat
  BY MsgAssumption, SchedPktType DEF Inv, TypeOK, Grant
<1>3. out = [outbndMsg EXCEPT ![m].txPkts = @ \cup {p}, ![m].bytesToSched = @ - p.len]
  BY <1>2
<1>4. SendOrQueueData(h, ready, out, bytesLeftToSend[h])
  BY <1>3 DEF ReceiveGrant
<1> HIDE DEF p
<1>5. o \in OutboundMessage /\ o.status = "active"
  BY <1>1, <1>2 DEF OutboundMessage
<1>6. out[m] = o /\ \A k \in Msg \ {m} : out[k] = outbndMsg[k]
  BY <1>2
<1> HIDE DEF o, h
<1>7. Servable(ready, out)
  BY <1>2, <1>5, PreparedServable
<1> HIDE DEF out, ready
<1>8. StartedOf(outbndMsg') = StartedOf(out)
  BY <1>4, <1>7, SendOrQueueStarts
<1>9. StartedOf(out) = StartedOf(outbndMsg)
  BY <1>1, <1>5, <1>6 DEF StartedOf
<1> QED BY <1>8, <1>9

LEMMA SendTimerStarts ==
  ASSUME Inv, NEW h \in Host, SendTimer(h)
  PROVE  StartedOf(outbndMsg') = StartedOf(outbndMsg)
<1>1. \/ UNCHANGED outbndMsg
      \/ TransmitData(h, outbndMsgSet[h], outbndMsg, bytesLeftToSend[h])
  BY Zenon DEF SendTimer
<1>2. CASE TransmitData(h, outbndMsgSet[h], outbndMsg, bytesLeftToSend[h])
  BY <1>2, ReadySetServable, TransmitStarts
<1> QED BY <1>1, <1>2
=============================================================================
