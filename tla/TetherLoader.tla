----------------------------- MODULE TetherLoader -----------------------------
(***************************************************************************)
(* The program variants of offload@mainline.c and how the loader picks     *)
(* one per attachment point.                                               *)
(*                                                                         *)
(* Each DEFINE_*BPF_PROG* macro in the source is one record of Progs, in   *)
(* source (ELF section) order: the pinned name it strips to, its "$"       *)
(* suffix, its kernel-version window [lo, hi), whether it is optional, and *)
(* its tier: "full" (do_forward6, or do_forward4 with UPDATETIME),         *)
(* "tcponly" (do_forward4 with NO_UPDATETIME: UDP is punted because        *)
(* last_used is not refreshed) or "pass" (stubs returning TC_ACT_PIPE, and *)
(* the XDP programs, whose forwarders return XDP_PASS).  A pinned name     *)
(* "tether_<dir><fam>_<encap>" is kept as the tuple <<dir, fam, encap>>.   *)
(*                                                                         *)
(* The loader itself is not in this repository; its steps are modelled    *)
(* from spec.md and the comments at lines 260-262 and 661-662: it walks    *)
(* the sections in order, skips one outside the kernel window, reuses a    *)
(* name that is already pinned, skips an optional program the kernel       *)
(* rejects, and otherwise pins the program under its stripped name.        *)
(* Mandatory programs are assumed to load inside their window (they are    *)
(* CRITICAL: a failure aborts the boot).                                   *)
(***************************************************************************)
EXTENDS Naturals, Sequences, Functions, TLC

CONSTANT Kvers      \* kernel versions the device may run

VARIABLES
    kver,       \* running kernel version
    probe,      \* optional program -> does the kernel accept it
    i,          \* index of the next section the loader looks at
    pinned      \* pinned name -> index of the program pinned there

vars == <<kver, probe, i, pinned>>

\* KERNEL_VERSION(a, b, c) from the kernel headers.
KVER(a, b, c) == a * 65536 + b * 256 + c
KVER_NONE == 0
KVER_4_14 == KVER(4, 14, 0)
KVER_5_4  == KVER(5, 4, 0)
KVER_5_10 == KVER(5, 10, 0)
\* 0xFFFFFFFF does not fit a TLC integer; any bound above every Kvers works.
KVER_INF  == 2147483647

V(dir, fam, encap, sfx, lo, hi, opt, tier) ==
    [name |-> <<dir, fam, encap>>, sfx |-> sfx, lo |-> lo, hi |-> hi,
     opt |-> opt, tier |-> tier]

\* Every macro use in the source comes as a downstream, upstream pair.
Pair(fam, encap, sfx, lo, hi, opt, tier) ==
    << V("downstream", fam, encap, sfx, lo, hi, opt, tier),
       V("upstream",   fam, encap, sfx, lo, hi, opt, tier) >>

V6Progs ==
    Pair("v6", "ether", "",     KVER_NONE, KVER_INF,  FALSE, "full")
 \o Pair("v6", "rawip", "4_14", KVER_4_14, KVER_INF,  FALSE, "full")
 \o Pair("v6", "rawip", "stub", KVER_NONE, KVER_4_14, FALSE, "pass")

V4FullProgs ==
    Pair("v4", "rawip", "5_8", KVER_5_10, KVER_INF, FALSE, "full")
 \o Pair("v4", "ether", "5_8", KVER_5_10, KVER_INF, FALSE, "full")

V4OptProgs ==
    Pair("v4", "rawip", "opt", KVER_4_14, KVER_5_10, TRUE, "full")
 \o Pair("v4", "ether", "opt", KVER_4_14, KVER_5_10, TRUE, "full")

V4TcpOnlyProgs ==
    Pair("v4", "rawip", "5_4",  KVER_5_4,  KVER_5_10, FALSE, "tcponly")
 \o Pair("v4", "rawip", "4_14", KVER_4_14, KVER_5_4,  TRUE,  "tcponly")
 \o Pair("v4", "ether", "4_14", KVER_4_14, KVER_5_10, FALSE, "tcponly")

\* Mutant: the rawip stub window stops at 4.14, like the ether one.
V4StubProgsRawipTo414 ==
    Pair("v4", "rawip", "stub", KVER_NONE, KVER_4_14, FALSE, "pass")
 \o Pair("v4", "ether", "stub", KVER_NONE, KVER_4_14, FALSE, "pass")

V4StubProgs ==
    Pair("v4", "rawip", "stub", KVER_NONE, KVER_5_4,  FALSE, "pass")
 \o Pair("v4", "ether", "stub", KVER_NONE, KVER_4_14, FALSE, "pass")

\* DEFINE_XDP_PROG: mandatory from 5.10, in source order.
XdpProgs ==
    << V("downstream", "xdp", "ether", "", KVER_5_10, KVER_INF, FALSE, "pass"),
       V("downstream", "xdp", "rawip", "", KVER_5_10, KVER_INF, FALSE, "pass"),
       V("upstream",   "xdp", "ether", "", KVER_5_10, KVER_INF, FALSE, "pass"),
       V("upstream",   "xdp", "rawip", "", KVER_5_10, KVER_INF, FALSE, "pass") >>

\* Mutant: the TCP-only fallbacks placed before the optional full programs.
ProgsFallbackFirst ==
    V6Progs \o V4FullProgs \o V4TcpOnlyProgs \o V4OptProgs \o V4StubProgs \o XdpProgs

Progs ==
    V6Progs \o V4FullProgs \o V4OptProgs \o V4TcpOnlyProgs \o V4StubProgs \o XdpProgs

Names == {Progs[k].name : k \in DOMAIN Progs}
OptionalProgs == {Progs[k] : k \in {j \in DOMAIN Progs : Progs[j].opt}}

\* The programs bpf_existence_test.cpp expects on every S+ device whose
\* loader is the mainline one (MAINLINE_FOR_S_PLUS, prog_ entries).
MainlineForSPlusProgs ==
    {<<d, f, e>> : d \in {"downstream", "upstream"}, f \in {"v4", "v6"}, e \in {"ether", "rawip"}}

-----------------------------------------------------------------------------
(* The loader, one section per step. *)

\* Mutant: the section name is pinned as is, "$" suffix and all.
StripNone(p) == <<p.name, p.sfx>>

\* "strip everything past the final $ symbol when actually pinning"
Strip(p) == p.name

Scanning == i <= Len(Progs)

Cur == Progs[i]

InWindow(p) == p.lo <= kver /\ kver < p.hi

Step(newPinned) ==
    /\ i' = i + 1
    /\ pinned' = newPinned
    /\ UNCHANGED <<kver, probe>>

OutOfRange == Scanning /\ ~InWindow(Cur) /\ Step(pinned)

Reuse ==
    /\ Scanning
    /\ InWindow(Cur)
    /\ Strip(Cur) \in DOMAIN pinned
    /\ Step(pinned)

OptionalFails ==
    /\ Scanning
    /\ InWindow(Cur)
    /\ Strip(Cur) \notin DOMAIN pinned
    /\ Cur.opt /\ ~probe[Cur]
    /\ Step(pinned)

Pin ==
    /\ Scanning
    /\ InWindow(Cur)
    /\ Strip(Cur) \notin DOMAIN pinned
    /\ Cur.opt => probe[Cur]
    /\ Step(pinned @@ (Strip(Cur) :> i))

Finished == i > Len(Progs)

\* The loader has walked every section and stops.
Done == Finished /\ UNCHANGED vars

Init ==
    /\ kver \in Kvers
    /\ probe \in [OptionalProgs -> BOOLEAN]
    /\ i = 1
    /\ pinned = [n \in {} |-> 0]

LoadSection == OutOfRange \/ Reuse \/ OptionalFails \/ Pin

Next == LoadSection \/ Done

\* The loader is a boot-time program that runs to completion.
Spec == Init /\ [][Next]_vars /\ WF_vars(LoadSection)

-----------------------------------------------------------------------------
(* Properties *)

TypeOK ==
    /\ kver \in Kvers
    /\ i \in 1..(Len(Progs) + 1)
    /\ DOMAIN pinned \subseteq Names
    /\ \A n \in DOMAIN pinned : pinned[n] \in 1..(i - 1) /\ Progs[pinned[n]].name = n

\* bpf_existence_test.cpp (TestPrograms): once the mainline loader has run on
\* an S+ device (kernel 4.9 or later), every schedcls program it lists exists,
\* whichever optional programs the kernel rejected.
ExpectedProgramsExist == Finished => MainlineForSPlusProgs \subseteq DOMAIN pinned

\* The tier each name ends up with, as the abstract specification sees it.
ActiveTier ==
    [n \in Names |-> IF Finished /\ n \in DOMAIN pinned THEN Progs[pinned[n]].tier ELSE "none"]

Abs == INSTANCE TetherLoaderAbstract
           WITH Variants <- Range(Progs), loaded <- Finished, active <- ActiveTier

\* The section order of offload@mainline.c and first-loaded-wins pinning
\* implement "one variant per name, the best the kernel can load" ("these
\* will be loaded only if the above optional ones failed", line 662), and the
\* loader eventually finishes.
SelectsBestTier == Abs!Spec

================================================================================
