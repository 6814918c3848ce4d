\* Spec section 8 end-to-end scenario: which interface the upstream stats use.
CONSTANTS
  c1 = c1
  CPUs <- OneCPU
  Upstreams <- EUpstreams
  Downstreams <- EDownstreams
  RawIp = {}
  Flows <- EFlows
  StatsIfaces = {3}
  Limit <- ELimit
  Packets <- EPackets
  HeadResults = {"ok"}
  MaxPackets <- OnePacket

SPECIFICATION FairSpec
PROPERTY EndToEndForwarded
