SPECIFICATION FairSpec
CONSTANTS
  h1 = h1
  h2 = h2
  Host = {h1, h2}
  Msg = {1, 2, 3}
  MsgSrc <- MCMsgSrc
  MsgDst <- MCMsgDst
  MsgSize <- MCMsgSize
  ReqBytes = 2
  UnschedBytes = 3
  MaxUnschedData = 2
  GrantMax = 2
INVARIANTS
  TypeOK
  IdleMeansDrained
  ReadySetExact
  GrantsFindWork
  EveryByteOnce
  ByteAccounting
PROPERTIES
  SendOrder
  AllTransmitted
CHECK_DEADLOCK FALSE
