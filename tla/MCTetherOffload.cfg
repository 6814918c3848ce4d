\* Three cores, one upstream; the quota and accounting properties.
CONSTANTS
  c1 = c1
  c2 = c2
  c3 = c3
  CPUs <- MCCPUs
  Upstreams <- MCUpstreams
  Downstreams <- MCDownstreams
  RawIp <- MCRawIp
  Flows <- MCFlows
  StatsIfaces <- MCStatsIfaces
  Limit <- MCLimit
  Packets <- MCPackets
  HeadResults <- MCHeadResults
  MaxPackets <- MCMaxPackets

SPECIFICATION Spec
SYMMETRY MCSymmetry
INVARIANT TypeOK
INVARIANT StatsMatchDelivered
INVARIANT QuotaOvershootBounded
