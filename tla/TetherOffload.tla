--------------------------- MODULE TetherOffload ---------------------------
(***************************************************************************)
(* The tc fast path of src/bpf/progs/offload@mainline.c: do_forward6 and   *)
(* do_forward4 (with do_forward4_bottom) running concurrently on several   *)
(* cores against the shared tether_stats_map, tether_limit_map and         *)
(* tether_error_map.                                                       *)
(*                                                                         *)
(* One packet runs on a core in two atomic steps.  Check covers all of the *)
(* program up to and including the quota test: every read before it is of *)
(* the packet itself or of the flow table, which the fast path never       *)
(* changes, so the only shared value it reads is the stats entry at the    *)
(* quota test.  Forward covers the rest: bpf_skb_change_head on rawip      *)
(* links, the header rewrite, the last_used refresh and the atomic adds to *)
(* the stats entry.  Between the two steps other cores run, which is the   *)
(* read-then-add window of the quota check.                                *)
(*                                                                         *)
(* Header contents are abstracted to the facts the checks test; the       *)
(* checksum arithmetic itself is in module TetherChecksum.                 *)
(***************************************************************************)
EXTENDS Integers, Sequences, FiniteSetsExt

CONSTANTS
  CPUs,         \* cores running the programs concurrently
  Upstreams,    \* upstream interfaces: the keys of the stats and limit maps
  Downstreams,  \* downstream (tethered client) interfaces
  RawIp,        \* interfaces without an ethernet header (rawip programs)
  Flows,        \* flow entries the control plane installed at the start
  StatsIfaces,  \* interfaces with a tether_stats_map entry at the start
  Limit,        \* tether_limit_map at the start: interface -> byte ceiling
  Packets,      \* the packets the environment may deliver
  HeadResults,  \* outcomes bpf_skb_change_head may have: "ok", "fail", "short"
  MaxPackets    \* bound on the number of packets delivered

ASSUME Upstreams \cap Downstreams = {}
ASSUME HeadResults \subseteq {"ok", "fail", "short"}
ASSUME MaxPackets \in Nat

Ifaces == Upstreams \cup Downstreams

\* The BPF_TETHER_ERR_* codes of tether_error_map.
Reasons == {"INVALID_IPV6_VERSION", "LOW_TTL", "INVALID_TCP_HEADER",
            "TCPV6_CONTROL_PACKET", "NON_GLOBAL_SRC", "NON_GLOBAL_DST",
            "LOCAL_SRC_DST", "NO_STATS_ENTRY", "NO_LIMIT_ENTRY",
            "BELOW_IPV6_MTU", "LIMIT_REACHED", "CHANGE_HEAD_FAILED",
            "TOO_SHORT", "SHORT_TCP_HEADER", "TCPV4_CONTROL_PACKET",
            "SHORT_UDP_HEADER", "UDP_CSUM_ZERO", "BELOW_IPV4_MTU",
            "INVALID_IPV4_VERSION", "HAS_IP_OPTIONS", "CHECKSUM",
            "TRUNCATED_IPV4", "IS_IP_FRAG", "NON_TCP", "NON_TCP_UDP",
            "SHORT_L4_HEADER"}

StatsFields == {"rxPackets", "rxBytes", "txPackets", "txBytes", "rxErrors", "txErrors"}

ZeroStats == [f \in StatsFields |-> 0]

VARIABLES
  cpu,         \* per core: the packet in flight and the locals kept across steps
  stats,       \* tether_stats_map
  errCount,    \* tether_error_map
  lastUsed,    \* last_used of each IPv4 flow entry (the clock is 'sent')
  updatetime,  \* the loaded IPv4 programs are the UPDATETIME variants
  sent,        \* packets delivered so far; also serves as the boot clock
  delivered,   \* history: what each forwarded packet should have added to stats
  flows,       \* the flow entries of the four flow maps
  limit        \* tether_limit_map

\* The maps only the control plane writes (module TetherControlPlane).
cpMaps == <<flows, limit>>

vars == <<cpu, stats, errCount, lastUsed, updatetime, sent, delivered, cpMaps>>

(***************************************************************************)
(* Verdicts.  "PIPE" is TC_ACT_PIPE (the packet goes on to the stack,      *)
(* unmodified), "SHOT" is TC_ACT_SHOT, "REDIRECT" is bpf_redirect.  A      *)
(* "CONT" result means the program goes on past that point.                *)
(***************************************************************************)
Pass == [act |-> "PIPE", reason |-> "NONE"]
Punt(r) == [act |-> "PIPE", reason |-> r]
Drop(r) == [act |-> "SHOT", reason |-> r]
Cont == [act |-> "CONT", reason |-> "NONE"]

\* The result of the first check that fires in a sequence of early returns.
FirstExit(checks) ==
  LET fired == {i \in 1..Len(checks) : checks[i][1]}
  IN  IF fired = {} THEN Cont ELSE checks[Min(fired)][2]

\* The program attached to the ingress of p.iif: the downstream programs sit
\* on upstream interfaces, and rawip programs on links without L2 header.
IsDown(p) == p.iif \in Upstreams
IsRaw(p) == p.iif \in RawIp
L2Size(p) == IF IsRaw(p) THEN 0 ELSE 14

IP6_HLEN == 40
IP4_HLEN == 20
TCP_HLEN == 20

\* do_forward6 from its first line down to the flow lookup.
Header6(p) ==
  LET l2 == L2Size(p) IN
  FirstExit(<<
    <<p.proto # 6, Pass>>,
    <<~IsRaw(p) /\ ~p.host, Pass>>,
    <<p.linear < l2 + IP6_HLEN, Pass>>,
    <<~IsRaw(p) /\ p.ethType # 6, Pass>>,
    <<p.version # 6, Punt("INVALID_IPV6_VERSION")>>,
    <<p.ttl <= 1, Punt("LOW_TTL")>>,
    <<p.l4 = "TCP" /\ p.linear < l2 + IP6_HLEN + TCP_HLEN, Punt("INVALID_TCP_HEADER")>>,
    <<p.l4 = "TCP" /\ p.ctl, Punt("TCPV6_CONTROL_PACKET")>>,
    <<p.src = "LOCAL", Punt("NON_GLOBAL_SRC")>>,
    <<p.dst = "LOCAL", Punt("NON_GLOBAL_DST")>>,
    <<~IsDown(p) /\ p.same64, Punt("LOCAL_SRC_DST")>> >>)

\* is_tcp of do_forward4: without UPDATETIME only TCP gets this far.
IsTcp(p, ut) == ~ut \/ p.l4 = "TCP"

\* do_forward4 and do_forward4_bottom down to the flow lookup.
Header4(p, ut) ==
  LET l2 == L2Size(p) IN
  FirstExit(<<
    <<~IsRaw(p) /\ ~p.host, Pass>>,
    <<p.proto # 4, Pass>>,
    <<p.linear < l2 + IP4_HLEN, Pass>>,
    <<~IsRaw(p) /\ p.ethType # 4, Pass>>,
    <<p.version # 4, Punt("INVALID_IPV4_VERSION")>>,
    <<p.ihl # 5, Punt("HAS_IP_OPTIONS")>>,
    <<~p.csumOK, Punt("CHECKSUM")>>,
    <<p.totLen < IP4_HLEN, Punt("TRUNCATED_IPV4")>>,
    <<p.frag, Punt("IS_IP_FRAG")>>,
    <<p.ttl <= 1, Punt("LOW_TTL")>>,
    <<~ut /\ p.l4 # "TCP", Punt("NON_TCP")>>,
    <<ut /\ p.l4 \notin {"TCP", "UDP"}, Punt("NON_TCP_UDP")>>,
    <<p.linear < l2 + IP4_HLEN + 8, Punt("SHORT_L4_HEADER")>>,
    <<IsTcp(p, ut) /\ p.linear < l2 + IP4_HLEN + TCP_HLEN, Punt("SHORT_TCP_HEADER")>>,
    <<IsTcp(p, ut) /\ p.ctl, Punt("TCPV4_CONTROL_PACKET")>>,
    <<~IsTcp(p, ut) /\ p.linear < l2 + IP4_HLEN + 8, Punt("SHORT_UDP_HEADER")>>,
    <<~IsTcp(p, ut) /\ p.udpCsum0 /\ p.csumComplete, Punt("UDP_CSUM_ZERO")>> >>)

Header(p, ut) == IF p.fam = 6 THEN Header6(p) ELSE Header4(p, ut)

\* The lookup in tether_{down,up}stream{4,6}_map: the key is the ingress
\* interface and the flow's header fields (abstracted to p.flow).
FlowLookup(p) ==
  {f \in flows : f.fam = p.fam /\ f.down = IsDown(p) /\ f.iif = p.iif /\ f.key = p.flow}

\* stat_and_limit_k: the upstream interface the stats are kept against.
StatKey(p, f) == IF IsDown(p) THEN p.iif ELSE f.oif

MinMtu(fam) == IF fam = 6 THEN 1280 ELSE 68

\* TCP overhead assumed by the segmentation estimate (12 bytes of timestamp).
Overhead(fam) == IF fam = 6 THEN IP6_HLEN + TCP_HLEN + 12 ELSE IP4_HLEN + TCP_HLEN + 12

\* Mutant: the segment count rounded down instead of up.
BillingRoundDown(p, f) ==
  LET l3 == p.len - L2Size(p) IN
  IF l3 > f.pmtu
  THEN LET ovh == Overhead(p.fam)
           n == (l3 - ovh) \div (f.pmtu - ovh)
       IN  [packets |-> n, bytes |-> ovh * n + l3 - ovh]
  ELSE [packets |-> 1, bytes |-> l3]

\* packets and L3_bytes: a packet above the path MTU is billed as the
\* segments the TCP stack would have cut it into.
Billing(p, f) ==
  LET l3 == p.len - L2Size(p) IN
  IF l3 > f.pmtu
  THEN LET ovh == Overhead(p.fam)
           mss == f.pmtu - ovh
           payload == l3 - ovh
           n == (payload + mss - 1) \div mss
       IN  [packets |-> n, bytes |-> ovh * n + payload]
  ELSE [packets |-> 1, bytes |-> l3]

\* Mutant: the quota test counts only the received bytes.
QuotaExitRxOnly(p, f, st) ==
  LET k == StatKey(p, f) IN
  FirstExit(<<
    <<k \notin DOMAIN st, Punt("NO_STATS_ENTRY")>>,
    <<k \notin DOMAIN limit, Punt("NO_LIMIT_ENTRY")>>,
    <<f.pmtu < MinMtu(p.fam), Punt(IF p.fam = 6 THEN "BELOW_IPV6_MTU" ELSE "BELOW_IPV4_MTU")>>,
    <<k \in DOMAIN st /\ k \in DOMAIN limit
        /\ st[k].rxBytes + Billing(p, f).bytes > limit[k], Punt("LIMIT_REACHED")>> >>)

\* Mutant: the quota test leaves out the packet's own projected bytes.
QuotaExitNoProjection(p, f, st) ==
  LET k == StatKey(p, f) IN
  FirstExit(<<
    <<k \notin DOMAIN st, Punt("NO_STATS_ENTRY")>>,
    <<k \notin DOMAIN limit, Punt("NO_LIMIT_ENTRY")>>,
    <<f.pmtu < MinMtu(p.fam), Punt(IF p.fam = 6 THEN "BELOW_IPV6_MTU" ELSE "BELOW_IPV4_MTU")>>,
    <<k \in DOMAIN st /\ k \in DOMAIN limit
        /\ st[k].rxBytes + st[k].txBytes > limit[k], Punt("LIMIT_REACHED")>> >>)

\* The checks from the stats lookup down to the quota test.
QuotaExit(p, f, st) ==
  LET k == StatKey(p, f) IN
  FirstExit(<<
    <<k \notin DOMAIN st, Punt("NO_STATS_ENTRY")>>,
    <<k \notin DOMAIN limit, Punt("NO_LIMIT_ENTRY")>>,
    <<f.pmtu < MinMtu(p.fam), Punt(IF p.fam = 6 THEN "BELOW_IPV6_MTU" ELSE "BELOW_IPV4_MTU")>>,
    <<k \in DOMAIN st /\ k \in DOMAIN limit
        /\ st[k].rxBytes + st[k].txBytes + Billing(p, f).bytes > limit[k], Punt("LIMIT_REACHED")>> >>)

\* pkt and flow hold the packet in flight and its flow entry, as a singleton
\* set while the core is between Check and Forward and as {} otherwise.
Idle == [pc |-> "idle", act |-> "NONE", reason |-> "NONE", pkt |-> {}, flow |-> {}]

Pkt(c) == CHOOSE p \in cpu[c].pkt : TRUE
FlowOf(c) == CHOOSE f \in cpu[c].flow : TRUE

\* COUNT_AND_RETURN: the core returns, bumping the reason's counter if any.
Finish(c, res) ==
  /\ cpu' = [cpu EXCEPT ![c] = [Idle EXCEPT !.act = res.act, !.reason = res.reason]]
  /\ errCount' = IF res.reason = "NONE" THEN errCount
                 ELSE [errCount EXCEPT ![res.reason] = @ + 1]

(***************************************************************************)
(* Check: a packet arrives at an idle core and the program runs up to and  *)
(* including the quota test.                                               *)
(***************************************************************************)
Check(c, p) ==
  /\ cpu[c].pc = "idle"
  /\ sent < MaxPackets
  /\ sent' = sent + 1
  /\ LET hdr == Header(p, updatetime)
         fs == FlowLookup(p)
     IN  IF hdr.act # "CONT" THEN Finish(c, hdr)
         ELSE IF fs = {} THEN Finish(c, Pass)
         ELSE LET f == CHOOSE g \in fs : TRUE
                  q == QuotaExit(p, f, stats)
              IN  IF q.act # "CONT" THEN Finish(c, q)
                  ELSE /\ cpu' = [cpu EXCEPT ![c] = [pc |-> "admitted", act |-> "NONE",
                                   reason |-> "NONE", pkt |-> {p}, flow |-> {f}]]
                       /\ UNCHANGED errCount
  /\ UNCHANGED <<stats, lastUsed, updatetime, delivered, cpMaps>>

\* The stats fields a packet of this direction adds to.
Field(p, kind) == (IF IsDown(p) THEN "rx" ELSE "tx") \o kind

\* Mutant: __sync_fetch_and_sub where __sync_fetch_and_add is meant.
AddStatSub(st, k, fld, x) == [st EXCEPT ![k][fld] = @ - x]

\* __sync_fetch_and_add on a field of the stats entry.
AddStat(st, k, fld, x) == [st EXCEPT ![k][fld] = @ + x]

\* The reference the stats are checked against: a packet coming in on an
\* upstream interface is received there, any other is transmitted on the
\* upstream interface its flow goes out of, and it is billed the segments
\* ceil(payload / mss) of the TCP stack.
UpstreamOf(p, f) == IF p.iif \in Upstreams THEN p.iif ELSE f.oif
RefSegments(p, f) ==
  LET l3 == p.len - L2Size(p)
      mss == f.pmtu - Overhead(p.fam)
  IN  IF l3 <= f.pmtu THEN 1
      ELSE CHOOSE n \in 1..l3 : n * mss >= l3 - Overhead(p.fam) /\ (n - 1) * mss < l3 - Overhead(p.fam)
RefBytes(p, f) ==
  LET l3 == p.len - L2Size(p) IN
  IF l3 <= f.pmtu THEN l3 ELSE l3 + (RefSegments(p, f) - 1) * Overhead(p.fam)
Record(p, f) ==
  LET i == UpstreamOf(p, f)
      d == IF p.iif \in Upstreams THEN "rx" ELSE "tx"
  IN  [delivered EXCEPT ![i][d \o "Packets"] = @ + RefSegments(p, f),
                        ![i][d \o "Bytes"] = @ + RefBytes(p, f)]
RecordError(p, f) ==
  LET d == IF p.iif \in Upstreams THEN "rx" ELSE "tx"
  IN  [delivered EXCEPT ![UpstreamOf(p, f)][d \o "Errors"] = @ + 1]

\* bpf_skb_change_head failed: count an error on the stats entry and punt.
HeadFailed(c) ==
  LET p == Pkt(c)
      k == StatKey(p, FlowOf(c))
  IN  /\ cpu[c].pc = "admitted"
      /\ IsRaw(p) /\ "fail" \in HeadResults
      /\ stats' = AddStat(stats, k, Field(p, "Errors"), 1)
      /\ delivered' = RecordError(p, FlowOf(c))
      /\ Finish(c, Punt("CHANGE_HEAD_FAILED"))
      /\ UNCHANGED <<lastUsed, updatetime, sent, cpMaps>>

\* The header grew but the reloaded pointers do not cover the headers:
\* count an error and drop.
HeadTooShort(c) ==
  LET p == Pkt(c)
      k == StatKey(p, FlowOf(c))
  IN  /\ cpu[c].pc = "admitted"
      /\ IsRaw(p) /\ "short" \in HeadResults
      /\ stats' = AddStat(stats, k, Field(p, "Errors"), 1)
      /\ delivered' = RecordError(p, FlowOf(c))
      /\ Finish(c, Drop("TOO_SHORT"))
      /\ UNCHANGED <<lastUsed, updatetime, sent, cpMaps>>

\* The two atomic adds of the billed segments and bytes, and the redirect.
Account(c) ==
  LET p == Pkt(c)
      f == FlowOf(c)
      k == StatKey(p, f)
      b == Billing(p, f)
  IN  /\ stats' = AddStat(AddStat(stats, k, Field(p, "Packets"), b.packets),
                          k, Field(p, "Bytes"), b.bytes)
      /\ delivered' = Record(p, f)
      /\ Finish(c, [act |-> "REDIRECT", reason |-> "NONE"])

\* The rest of do_forward6: hop limit and CHECKSUM_COMPLETE update (their
\* arithmetic is in TetherChecksum), the adds, the MAC header, the redirect.
Redirect6(c) ==
  /\ cpu[c].pc = "admitted" /\ Pkt(c).fam = 6
  /\ ~IsRaw(Pkt(c)) \/ "ok" \in HeadResults
  /\ Account(c)
  /\ UNCHANGED <<lastUsed, updatetime, sent, cpMaps>>

\* The rest of do_forward4_bottom: rewrite, the last_used refresh of the
\* UPDATETIME programs, the adds and the redirect.
Redirect4(c) ==
  /\ cpu[c].pc = "admitted" /\ Pkt(c).fam = 4
  /\ ~IsRaw(Pkt(c)) \/ "ok" \in HeadResults
  /\ lastUsed' = IF updatetime THEN [lastUsed EXCEPT ![FlowOf(c).key] = sent] ELSE lastUsed
  /\ Account(c)
  /\ UNCHANGED <<updatetime, sent, cpMaps>>

Init ==
  /\ cpu = [c \in CPUs |-> Idle]
  /\ stats = [i \in StatsIfaces |-> ZeroStats]
  /\ errCount = [r \in Reasons |-> 0]
  /\ lastUsed = [k \in {f.key : f \in Flows} |-> 0]
  /\ updatetime \in BOOLEAN
  /\ sent = 0
  /\ delivered = [i \in StatsIfaces |-> ZeroStats]
  /\ flows = Flows
  /\ limit = Limit

\* Every packet delivered and handled: only stuttering is left.
Done ==
  /\ sent = MaxPackets
  /\ \A c \in CPUs : cpu[c].pc = "idle"
  /\ UNCHANGED vars

Arrive(c) == \E p \in Packets : Check(c, p)
Forward(c) == HeadFailed(c) \/ HeadTooShort(c) \/ Redirect6(c) \/ Redirect4(c)

Next ==
  \/ \E c \in CPUs : Arrive(c) \/ Forward(c)
  \/ Done

Spec == Init /\ [][Next]_vars

\* A core runs its program to the end without blocking, and the links keep
\* delivering packets until the bound.
FairSpec == Spec /\ \A c \in CPUs : WF_vars(Arrive(c)) /\ WF_vars(Forward(c))

-----------------------------------------------------------------------------
(* Properties *)

TypeOK ==
  /\ \A c \in CPUs : cpu[c].pc \in {"idle", "admitted"}
                      /\ cpu[c].act \in {"NONE", "PIPE", "SHOT", "REDIRECT"}
                      /\ cpu[c].reason \in Reasons \cup {"NONE"}
                      /\ (cpu[c].pc = "admitted") => cpu[c].pkt \subseteq Packets /\ cpu[c].flow \subseteq Flows
  /\ DOMAIN stats \subseteq Ifaces /\ stats \in [DOMAIN stats -> [StatsFields -> Nat]]
  /\ flows \subseteq Flows
  /\ errCount \in [Reasons -> Nat]
  /\ updatetime \in BOOLEAN
  /\ sent \in 0..MaxPackets

(***************************************************************************)
(* Accounting is exact: each upstream interface's tether_stats_map entry   *)
(* holds, per direction, exactly the segments and bytes of the packets the *)
(* cores have redirected through it, billed as the TCP stack would have    *)
(* segmented them, and one error per failed header injection.  The adds   *)
(* of do_forward4/do_forward6 run on all cores at once; a lost, doubled or *)
(* misdirected add, or a billing estimate that is off, breaks it.          *)
(***************************************************************************)
StatsMatchDelivered == stats = delivered

\* The largest number of bytes one packet can be billed.
MaxBilled ==
  Max({0} \cup {Billing(p, f).bytes : p \in Packets, f \in Flows})

(***************************************************************************)
(* The quota is a soft cap, but only by the packets in flight: the bytes   *)
(* counted against an upstream interface never exceed its limit by more   *)
(* than one maximal packet for each other core.  The quota test reads the  *)
(* stats and the add happens later in Forward, so cores that pass the test *)
(* together each add their packet; a test that misses part of the usage    *)
(* lets the usage grow past any bound.                                     *)
(***************************************************************************)
QuotaOvershootBounded ==
  \A i \in DOMAIN stats \cap DOMAIN limit :
    stats[i].rxBytes + stats[i].txBytes <= limit[i] + (Cardinality(CPUs) - 1) * MaxBilled

====
