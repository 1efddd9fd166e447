SPECIFICATION Spec
CONSTANTS
  e1 = e1
  e2 = e2
  i = i
  q = q
  z = z
  None = None
  Frames = {e1, e2, i, q, z}
  Frame <- MCFrame
  ArpRequests = {q}
  Hash <- MCHash
  TorSeeds <- MCTorSeeds
  AggSeeds <- MCAggSeeds
  ServersPerTor = 4
  NumTors = 2
  NumAggs = 2
  NumAggIntfs = 2
  Raw = {0, 5}
  MinLatency = 1
  MaxLatency = 2
  TxTime = 2
  BinWindow = 0
  LatencyMedian = 1
  LatencyVariance = 0
  DropThreshold = 1
  Flows <- MCFlows
  MaxPayload = 2
  Steps = {1, 2}
  MaxTime = 3
  MaxFrames = 2
INVARIANTS FramesOnTime FeatureLagsOneBin FlowBytes
CHECK_DEADLOCK FALSE
