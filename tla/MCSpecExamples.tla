-------------------------- MODULE MCSpecExamples --------------------------
(***************************************************************************)
(* The worked examples of spec.md section 8 and the quota rule stated in   *)
(* the comment above tether_limit_map, run against the fast path with one *)
(* core and one packet.                                                    *)
(***************************************************************************)
EXTENDS TetherOffload, TLC

CONSTANTS c1

OneCPU == {c1}
OnePacket == 1

\* An IPv4 TCP segment without flags, L3 length l3, on ethernet interface i.
Segment(i, l3) ==
  [iif |-> i, fam |-> 4, proto |-> 4, host |-> TRUE, ethType |-> 4, len |-> l3 + 14,
   linear |-> l3 + 14, version |-> 4, ihl |-> 5, csumOK |-> TRUE, totLen |-> l3,
   frag |-> FALSE, ttl |-> 64, l4 |-> "TCP", ctl |-> FALSE, udpCsum0 |-> FALSE,
   csumComplete |-> FALSE, src |-> "GLOBAL", dst |-> "GLOBAL", same64 |-> FALSE,
   flow |-> "E"]

(***************************************************************************)
(* Quota example: stats {rx:100, tx:50}, limit 500, a downstream flow on   *)
(* upstream interface 1 and a 400-byte packet.                             *)
(***************************************************************************)
QUpstreams == {1}
QDownstreams == {2}
QFlows == {[fam |-> 4, down |-> TRUE, iif |-> 1, key |-> "E", oif |-> 2, pmtu |-> 1500]}
QLimit == [i \in {1} |-> 500]
QPackets == {Segment(1, 400)}

\* The stats after a 100-byte packet received and a 50-byte one sent.
QUsed == [ZeroStats EXCEPT !.rxPackets = 1, !.rxBytes = 100, !.txPackets = 1, !.txBytes = 50]
QInit ==
  /\ cpu = [c \in CPUs |-> Idle]
  /\ stats = [i \in {1} |-> QUsed]
  /\ errCount = [r \in Reasons |-> 0]
  /\ lastUsed = [k \in {"E"} |-> 0]
  /\ updatetime \in BOOLEAN
  /\ sent = 0
  /\ delivered = stats
  /\ flows = Flows
  /\ limit = Limit

(***************************************************************************)
(* The comment on tether_limit_map: tethering is allowed while             *)
(* stats.rxBytes + stats.txBytes < limit.  Spec section 8 says the same of *)
(* its example: with 150 bytes used of 500 a 400-byte packet is admitted.  *)
(* So no packet is punted with LIMIT_REACHED while the usage is below the  *)
(* limit.                                                                  *)
(***************************************************************************)
AllowedBelowLimit ==
  [][\A c \in CPUs :
       cpu'[c].reason = "LIMIT_REACHED" =>
         \A i \in DOMAIN stats \cap DOMAIN limit : stats[i].rxBytes + stats[i].txBytes >= limit[i]]_vars

(***************************************************************************)
(* End-to-end example: upstream flow in on 3 and out on 7, stats and limit *)
(* entries for interface 3 only, a 1200-byte segment.                      *)
(***************************************************************************)
EUpstreams == {7}
EDownstreams == {3}
EFlows == {[fam |-> 4, down |-> FALSE, iif |-> 3, key |-> "E", oif |-> 7, pmtu |-> 1500]}
ELimit == [i \in {3} |-> 10000000]
EPackets == {Segment(3, 1200)}

(***************************************************************************)
(* Spec section 8: the segment is redirected to interface 7 and the stats  *)
(* of interface 3 grow by one packet of 1200 bytes.                        *)
(***************************************************************************)
EndToEndForwarded ==
  <>(/\ stats[3].txPackets + stats[3].rxPackets = 1
     /\ stats[3].txBytes + stats[3].rxBytes = 1200)

(***************************************************************************)
(* Error-handling example: an IPv4 packet of 19 bytes, one short of a     *)
(* header, arriving on the rawip upstream 1, which carries flow E.        *)
(***************************************************************************)
SPackets == {[Segment(1, 19) EXCEPT !.len = 19, !.linear = 19]}

(***************************************************************************)
(* Spec section 7: a packet of the addressed family that the fast path    *)
(* cannot handle because its headers are insufficient is punted and       *)
(* always counted by reason; only frames outside the addressed family or  *)
(* encapsulation pass with no counter touched.  So the truncated packet   *)
(* eventually shows in tether_error_map.                                   *)
(***************************************************************************)
InsufficientHeaderCounted == <>(\E r \in Reasons : errCount[r] > 0)

====
