\* Every edge-case packet through the IPv4 and IPv6 rewrites.
CONSTANTS
  Ttls <- MCTtls
  Protos <- MCProtos
  Addrs <- MCAddrs
  Ports <- MCPorts
  Rests <- MCRests
  HeadWords <- MCHeadWords
  HopLimits <- MCHopLimits
  NextHdrs <- MCNextHdrs

SPECIFICATION Spec
INVARIANT TypeOK
INVARIANT ForwardedHeaderVerifies
INVARIANT L4ChecksumPreserved
INVARIANT CompleteCsumTracksHopLimit
