------------------------ MODULE TetherControlPlane ------------------------
(***************************************************************************)
(* The fast path of TetherOffload composed with the control plane that    *)
(* owns its maps.  The control plane is not in this repository; its        *)
(* operations follow the contract of spec.md: flows, stats and limit       *)
(* entries are created and deleted only by it (section 3), a stats and a   *)
(* limit entry exist for an interface before any flow accounted to it is   *)
(* installed (section 6, control-plane contract), and table mutation must  *)
(* be safe under concurrent fast-path reads, lost updates not being        *)
(* acceptable (section 5).                                                 *)
(*                                                                         *)
(* The fast path is TetherOffload itself, whose flow set, stats map and    *)
(* limit map are variables that only this module changes.  A core looks up stat_v *)
(* in Check (offload@mainline.c:158 and :377) and adds to it in Forward;   *)
(* an add to an entry deleted in between changes nothing in the map        *)
(* (EXCEPT on a key outside the domain), which is what an add through a    *)
(* pointer to an element already unlinked from the hash map does.          *)
(*                                                                         *)
(* When the control plane retires an upstream it harvests the entry's      *)
(* counters before deleting it.  GraceWait says whether it first waits     *)
(* until no program is running (an RCU grace period).                     *)
(***************************************************************************)
EXTENDS TetherOffload

CONSTANTS
  Limits,       \* byte ceilings the control plane may configure
  GraceWait,    \* removal of a stats entry waits for programs in flight
  MaxCpOps      \* bound on control-plane operations

VARIABLES
  harvested,    \* per upstream: counters read out of deleted stats entries
  cpOps,        \* control-plane operations so far
  usedAtSet     \* per upstream: rx + tx bytes when its limit was last written (history)

cpLocal == <<harvested, cpOps, usedAtSet>>
allVars == <<vars, cpLocal>>

\* The interface a flow's packets are accounted to (stat_and_limit_k).
AccountIface(f) == IF f.down THEN f.iif ELSE f.oif

\* Removes key i from a map.
Unmap(m, i) == [j \in DOMAIN m \ {i} |-> m[j]]

CpStep == cpOps < MaxCpOps /\ cpOps' = cpOps + 1

\* Create the stats and limit entries of an upstream interface.
AddUpstream(i, l) ==
  /\ CpStep
  /\ i \notin DOMAIN stats
  /\ stats' = [j \in DOMAIN stats \cup {i} |-> IF j = i THEN ZeroStats ELSE stats[j]]
  /\ limit' = [j \in DOMAIN limit \cup {i} |-> IF j = i THEN l ELSE limit[j]]
  /\ usedAtSet' = [usedAtSet EXCEPT ![i] = 0]
  /\ UNCHANGED <<flows, harvested>>
  /\ UNCHANGED <<cpu, errCount, lastUsed, updatetime, sent, delivered>>

\* The fields of a flow that form its map key (and select the map).
SameKey(f, g) == f.fam = g.fam /\ f.down = g.down /\ f.iif = g.iif /\ f.key = g.key

\* Install a flow under a key that has no entry, once the stats and limit
\* entries of the interface it is accounted to exist.
AddFlow(f) ==
  /\ CpStep
  /\ \A g \in flows : ~SameKey(f, g)
  /\ AccountIface(f) \in DOMAIN stats \cap DOMAIN limit
  /\ flows' = flows \cup {f}
  /\ UNCHANGED <<limit, harvested, usedAtSet>>
  /\ UNCHANGED <<cpu, stats, errCount, lastUsed, updatetime, sent, delivered>>

\* Overwrite the rule of an installed flow (the same key, a new value, e.g.
\* a new upstream after a default-network change).  A core that already
\* looked the old rule up keeps using it.
ReplaceFlow(f, g) ==
  /\ CpStep
  /\ f \in flows /\ SameKey(f, g) /\ g # f
  /\ AccountIface(g) \in DOMAIN stats \cap DOMAIN limit
  /\ flows' = (flows \ {f}) \cup {g}
  /\ UNCHANGED <<limit, harvested, usedAtSet>>
  /\ UNCHANGED <<cpu, stats, errCount, lastUsed, updatetime, sent, delivered>>

RemoveFlow(f) ==
  /\ CpStep
  /\ f \in flows
  /\ flows' = flows \ {f}
  /\ UNCHANGED <<limit, harvested, usedAtSet>>
  /\ UNCHANGED <<cpu, stats, errCount, lastUsed, updatetime, sent, delivered>>

\* Mutant: the entry is deleted without reading its counters first.
RemoveUpstreamNoHarvest(i) ==
  /\ CpStep
  /\ i \in DOMAIN stats
  /\ \A f \in flows : AccountIface(f) # i
  /\ GraceWait => \A c \in CPUs : cpu[c].pc = "idle"
  /\ stats' = Unmap(stats, i)
  /\ limit' = Unmap(limit, i)
  /\ UNCHANGED <<flows, harvested, usedAtSet>>
  /\ UNCHANGED <<cpu, errCount, lastUsed, updatetime, sent, delivered>>

\* Retire an upstream: once no flow is accounted to it (and, with
\* GraceWait, no program is running), read its counters and delete its
\* stats and limit entries.
RemoveUpstream(i) ==
  /\ CpStep
  /\ i \in DOMAIN stats
  /\ \A f \in flows : AccountIface(f) # i
  /\ GraceWait => \A c \in CPUs : cpu[c].pc = "idle"
  /\ harvested' = [harvested EXCEPT ![i] = [fl \in StatsFields |-> @[fl] + stats[i][fl]]]
  /\ stats' = Unmap(stats, i)
  /\ limit' = Unmap(limit, i)
  /\ UNCHANGED <<flows, usedAtSet>>
  /\ UNCHANGED <<cpu, errCount, lastUsed, updatetime, sent, delivered>>

\* Bytes counted against upstream i so far.
Usage(i) == stats[i].rxBytes + stats[i].txBytes

\* Write a new byte ceiling into a live upstream's limit entry.  A core
\* that already passed the quota test against the old value still adds.
SetLimit(i, l) ==
  /\ CpStep
  /\ i \in DOMAIN stats \cap DOMAIN limit
  /\ l # limit[i]
  /\ limit' = [limit EXCEPT ![i] = l]
  /\ usedAtSet' = [usedAtSet EXCEPT ![i] = Usage(i)]
  /\ UNCHANGED <<flows, harvested>>
  /\ UNCHANGED <<cpu, stats, errCount, lastUsed, updatetime, sent, delivered>>

ControlPlane ==
  \/ \E i \in Upstreams, l \in Limits : AddUpstream(i, l) \/ SetLimit(i, l)
  \/ \E f \in Flows : AddFlow(f) \/ RemoveFlow(f)
  \/ \E f, g \in Flows : ReplaceFlow(f, g)
  \/ \E i \in Upstreams : RemoveUpstream(i)

FastPath ==
  /\ \E c \in CPUs : Arrive(c) \/ Forward(c)
  /\ UNCHANGED cpLocal

\* Every packet handled and the control plane done: only stuttering is left.
AllDone ==
  /\ sent = MaxPackets /\ cpOps = MaxCpOps
  /\ \A c \in CPUs : cpu[c].pc = "idle"
  /\ UNCHANGED allVars

\* The maps start empty: the control plane creates every entry.
CPInit ==
  /\ cpu = [c \in CPUs |-> Idle]
  /\ stats = [i \in {} |-> ZeroStats]
  /\ limit = [i \in {} |-> 0]
  /\ flows = {}
  /\ errCount = [r \in Reasons |-> 0]
  /\ lastUsed = [k \in {f.key : f \in Flows} |-> 0]
  /\ updatetime \in BOOLEAN
  /\ sent = 0
  /\ delivered = [i \in Upstreams |-> ZeroStats]
  /\ harvested = [i \in Upstreams |-> ZeroStats]
  /\ cpOps = 0
  /\ usedAtSet = [i \in Upstreams |-> 0]

CPNext == FastPath \/ ControlPlane \/ AllDone

CPSpec == CPInit /\ [][CPNext]_allVars

-----------------------------------------------------------------------------
(* Properties *)

(***************************************************************************)
(* No update is lost: for every upstream, what the fast path redirected or *)
(* failed through it (the history 'delivered') equals what the control    *)
(* plane can still read from its stats entry plus what it harvested from   *)
(* the entries it deleted.  A core that looked up stat_v before the entry  *)
(* was deleted and adds after it was harvested breaks it.                  *)
(***************************************************************************)
ConservedAccounting ==
  \A i \in Upstreams : \A fl \in StatsFields :
    delivered[i][fl] = harvested[i][fl] + (IF i \in DOMAIN stats THEN stats[i][fl] ELSE 0)

(***************************************************************************)
(* Lowering a live upstream's limit binds at once for new packets, but not *)
(* for cores that passed the quota test against the old value: usage never *)
(* exceeds the current limit by more than one maximal packet per other     *)
(* core, or the usage when the limit was written by more than one maximal  *)
(* packet per core.  A quota test that reads a cached or stale limit, or   *)
(* misses part of the usage, breaks it.                                    *)
(***************************************************************************)
LimitChangeOvershootBounded ==
  \A i \in DOMAIN stats \cap DOMAIN limit :
    \/ Usage(i) <= limit[i] + (Cardinality(CPUs) - 1) * MaxBilled
    \/ Usage(i) <= usedAtSet[i] + Cardinality(CPUs) * MaxBilled

=============================================================================
