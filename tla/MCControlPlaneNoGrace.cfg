\* Flows and upstreams added and retired while two cores forward;
\* retiring an upstream does not wait for programs in flight.
CONSTANTS
  c1 = c1
  c2 = c2
  CPUs <- MCCPUs
  Upstreams = {1}
  Downstreams = {2}
  RawIp = {1}
  Packets <- MCPackets
  HeadResults = {"ok", "fail", "short"}
  MaxPackets = 3
  Flows <- MCFlows
  StatsIfaces = {}
  Limit <- MCNoLimit
  Limits = {5000}
  GraceWait = FALSE
  MaxCpOps = 5

SPECIFICATION CPSpec
SYMMETRY MCSymmetry
INVARIANT ConservedAccounting
