\* Spec section 7 error-handling taxonomy: a truncated IPv4 packet on a rawip link.
CONSTANTS
  c1 = c1
  CPUs <- OneCPU
  Upstreams <- QUpstreams
  Downstreams <- QDownstreams
  RawIp = {1}
  Flows <- QFlows
  StatsIfaces = {1}
  Limit <- QLimit
  Packets <- SPackets
  HeadResults = {"ok"}
  MaxPackets <- OnePacket

SPECIFICATION FairSpec
PROPERTY InsufficientHeaderCounted
