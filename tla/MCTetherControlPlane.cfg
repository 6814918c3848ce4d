\* Upstreams added and retired, limits written and a flow moved between
\* upstreams while two cores forward; retiring waits for programs in flight.
CONSTANTS
  c1 = c1
  c2 = c2
  CPUs <- MCCPUs
  Upstreams = {1, 3}
  Downstreams = {2}
  RawIp = {1}
  Packets <- MCPackets
  HeadResults = {"ok", "fail", "short"}
  MaxPackets = 3
  Flows <- MCFlowsMove
  StatsIfaces = {}
  Limit <- MCNoLimit
  Limits = {0, 1300}
  GraceWait = TRUE
  MaxCpOps = 7

SPECIFICATION CPSpec
SYMMETRY MCSymmetry
INVARIANT ConservedAccounting
INVARIANT LimitChangeOvershootBounded
