SPECIFICATION Spec
CONSTANTS
  s1 = s1
  s2 = s2
  s3 = s3
  d1 = d1
  Host = {s1, s2, s3, d1}
  Msg = {1, 2, 3, 4}
  MsgSrc <- MCMsgSrc
  MsgDst <- MCMsgDst
  MsgSize <- MCMsgSize
  ReqBytes = 2
  UnschedBytes = 1
  MaxUnschedData = 2
  GrantMax = 2
  MaxEthPayload = 4
  MinEthPayload = 3
  EthOverhead = 1
  UnschedHdr = 2
  SchedHdr = 1
  Word = 1000
  MaxOutstanding = 8
  BoostTail = 5
  AllPrio = 4
  SchedPrios = 3
  NumToKeepGranted = 1
  LinkCheck = TRUE
INVARIANTS
  NoAssertFails
CHECK_DEADLOCK FALSE
