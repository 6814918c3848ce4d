------------------------- MODULE MCTetherOffload --------------------------
(***************************************************************************)
(* A tethering set-up for TLC: one rawip upstream (1, cellular) and one    *)
(* ethernet downstream (2, wifi).  Flow A is an IPv4 TCP/UDP flow and B an *)
(* IPv6 flow, each installed in both directions.  The packets are one of   *)
(* each kind the fast path forwards plus a few it must refuse.  The path   *)
(* MTUs put the boundaries in reach: the 614-byte upstream packets are     *)
(* exactly at flow A's MTU of 600 (one segment), the 1700-byte rawip       *)
(* packet carries exactly two MSS of 824 under flow A's downstream MTU of  *)
(* 876, and the IPv6 packet needs a partial second segment.  The bills are *)
(* 600, 1752 and 1472 bytes; the limit 2952 = 600 + 600 + 1752 is reached *)
(* exactly, so a packet bringing the usage to the limit is admitted.       *)
(***************************************************************************)
EXTENDS TetherOffload, TLC

CONSTANTS c1, c2, c3

MCCPUs == {c1, c2, c3}
MCUpstreams == {1}
MCDownstreams == {2}
MCRawIp == {1}
MCStatsIfaces == {1}
MCLimit == [i \in {1} |-> 2952]
MCHeadResults == {"ok", "fail", "short"}
MCMaxPackets == 5

MCFlows ==
  { [fam |-> 4, down |-> FALSE, iif |-> 2, key |-> "A", oif |-> 1, pmtu |-> 600],
    [fam |-> 4, down |-> TRUE,  iif |-> 1, key |-> "A", oif |-> 2, pmtu |-> 876],
    [fam |-> 6, down |-> FALSE, iif |-> 2, key |-> "B", oif |-> 1, pmtu |-> 1280],
    [fam |-> 6, down |-> TRUE,  iif |-> 1, key |-> "B", oif |-> 2, pmtu |-> 1500] }

\* A well-formed IPv4 TCP segment of flow A arriving on interface i.
Tcp4(i, len) ==
  [iif |-> i, fam |-> 4, proto |-> 4, host |-> TRUE, ethType |-> 4, len |-> len,
   linear |-> len, version |-> 4, ihl |-> 5, csumOK |-> TRUE, totLen |-> len,
   frag |-> FALSE, ttl |-> 64, l4 |-> "TCP", ctl |-> FALSE, udpCsum0 |-> FALSE,
   csumComplete |-> FALSE, src |-> "GLOBAL", dst |-> "GLOBAL", same64 |-> FALSE,
   flow |-> "A"]

\* A well-formed IPv6 TCP segment of flow B arriving on interface i.
Tcp6(i, len) ==
  [Tcp4(i, len) EXCEPT !.fam = 6, !.proto = 6, !.ethType = 6, !.version = 6,
                       !.flow = "B"]

MCPackets ==
  { Tcp4(2, 614),                                   \* upstream, at the MTU
    Tcp4(1, 1700),                                  \* downstream, two full MSS
    [Tcp4(2, 614) EXCEPT !.l4 = "UDP"],             \* UDP: tier dependent
    [Tcp4(2, 614) EXCEPT !.ctl = TRUE],             \* SYN: punted
    Tcp6(2, 1414),                                  \* upstream, segmented
    [Tcp6(1, 900) EXCEPT !.ttl = 1] }               \* hop limit 1: punted

MCSymmetry == Permutations(MCCPUs)

====
