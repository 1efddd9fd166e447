SPECIFICATION FairSpec
CONSTANTS
  h1 = h1
  h2 = h2
  h3 = h3
  Host = {h1, h2, h3}
  Msg = {1, 2, 3}
  MsgSrc <- MCMsgSrc
  MsgDst <- MCMsgDst
  MsgSize <- MCShortMsgSize
  ReqBytes = 2
  UnschedBytes = 1
  MaxUnschedData = 2
  GrantMax = 2
  MaxEthPayload = 4
  MinEthPayload = 3
  EthOverhead = 1
  UnschedHdr = 2
  SchedHdr = 1
  Word = 1000
  MaxOutstanding = 8
  BoostTail = 5
  AllPrio = 4
  SchedPrios = 2
  NumToKeepGranted = 2
  LinkCheck = TRUE
  Self = h3
  MaxDrops = 1
INVARIANTS
  DeliveredComplete
PROPERTIES
  DeliversAtMostOnce
  LossIsLocal
CHECK_DEADLOCK FALSE
