\* Spec section 8 quota example against the quota test of the fast path.
CONSTANTS
  c1 = c1
  CPUs <- OneCPU
  Upstreams <- QUpstreams
  Downstreams <- QDownstreams
  RawIp = {}
  Flows <- QFlows
  StatsIfaces = {1}
  Limit <- QLimit
  Packets <- QPackets
  HeadResults = {"ok"}
  MaxPackets <- OnePacket

INIT QInit
NEXT Next
PROPERTY AllowedBelowLimit
