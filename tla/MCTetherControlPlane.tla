---------------------- MODULE MCTetherControlPlane ------------------------
(***************************************************************************)
(* The control plane brings up upstream 1 (rawip) for wifi downstream 2,  *)
(* installs flow A in both directions, and may move A's upstream rule to  *)
(* upstream 3, lower a limit, or tear it all down again while two cores   *)
(* forward A's packets.  Seven control-plane operations are enough to add *)
(* both upstreams, add, move and remove a flow, and retire an upstream;   *)
(* three packets let one be in flight across each of these.               *)
(***************************************************************************)
EXTENDS TetherControlPlane, TLC

CONSTANTS c1, c2

MCCPUs == {c1, c2}
MCFlows ==
  { [fam |-> 4, down |-> FALSE, iif |-> 2, key |-> "A", oif |-> 1, pmtu |-> 1500],
    [fam |-> 4, down |-> TRUE,  iif |-> 1, key |-> "A", oif |-> 2, pmtu |-> 1500] }

\* A well-formed IPv4 TCP segment of flow A arriving on interface i.
Tcp4(i, len) ==
  [iif |-> i, fam |-> 4, proto |-> 4, host |-> TRUE, ethType |-> 4, len |-> len,
   linear |-> len, version |-> 4, ihl |-> 5, csumOK |-> TRUE, totLen |-> len,
   frag |-> FALSE, ttl |-> 64, l4 |-> "TCP", ctl |-> FALSE, udpCsum0 |-> FALSE,
   csumComplete |-> FALSE, src |-> "GLOBAL", dst |-> "GLOBAL", same64 |-> FALSE,
   flow |-> "A"]

\* Flow A's upstream rule moved from upstream 1 to upstream 3.
MCFlowsMove ==
  MCFlows \cup
  { [fam |-> 4, down |-> FALSE, iif |-> 2, key |-> "A", oif |-> 3, pmtu |-> 1500] }

MCPackets == {Tcp4(2, 614), Tcp4(1, 700)}

MCNoLimit == [i \in {} |-> 0]

MCSymmetry == Permutations(MCCPUs)

====
