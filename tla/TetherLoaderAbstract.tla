------------------------- MODULE TetherLoaderAbstract -------------------------
(***************************************************************************)
(* What load-time variant selection promises (spec.md, "capability        *)
(* tiers"): selection is decided once, and afterwards every attachment     *)
(* point name (direction, family, encapsulation) has exactly one active    *)
(* variant, of the highest tier the running kernel can load.  A variant    *)
(* can load when the kernel version lies in its [lo, hi) window and, for   *)
(* an optional variant, when the kernel accepts it (probe).  Lower tiers  *)
(* are the TCP-only fallback and the no-op pass-through.                   *)
(*                                                                         *)
(* No order appears here: the detailed loader (TetherLoader) walks the     *)
(* sections one at a time and keeps the first that pins a name; it        *)
(* implements this module only if the section order puts higher tiers     *)
(* first wherever two windows overlap.                                    *)
(***************************************************************************)
EXTENDS Naturals

CONSTANTS
    Variants,   \* set of [name, sfx, lo, hi, opt, tier] records
    Kvers       \* kernel versions the device may run

VARIABLES
    kver,       \* running kernel version
    probe,      \* optional variant -> does the kernel accept it
    loaded,     \* selection has happened
    active      \* name -> tier of its active variant, or "none"

vars == <<kver, probe, loaded, active>>

Names == {v.name : v \in Variants}
Optional == {v \in Variants : v.opt}

\* Full features > TCP-only (no last_used refresh) > no-op pass-through.
TierRank == [full |-> 2, tcponly |-> 1, pass |-> 0]

Loadable(v) ==
    /\ v.lo <= kver /\ kver < v.hi
    /\ v.opt => probe[v]

\* The tier of the best loadable variant of name n.
BestTier(n) ==
    LET c == {v \in Variants : v.name = n /\ Loadable(v)}
    IN  IF c = {} THEN "none"
        ELSE (CHOOSE v \in c : \A w \in c : TierRank[v.tier] >= TierRank[w.tier]).tier

Init ==
    /\ kver \in Kvers
    /\ probe \in [Optional -> BOOLEAN]
    /\ loaded = FALSE
    /\ active = [n \in Names |-> "none"]

Select ==
    /\ ~loaded
    /\ loaded' = TRUE
    /\ active' = [n \in Names |-> BestTier(n)]
    /\ UNCHANGED <<kver, probe>>

Spec == Init /\ [][Select]_vars /\ WF_vars(Select)

================================================================================
