---------------------------- MODULE MapDefLayout ----------------------------
(***************************************************************************)
(* struct bpf_map_def and struct bpf_prog_def of bpf_map_def.h are         *)
(* compiled twice: by the BPF compiler into the program's .o, and by the   *)
(* native C++ compiler of the bpfloader that reads them back (lines       *)
(* 45-57).  The two may also come from different versions of the header:  *)
(* a mainline module ships a newer or older .o than the platform's loader  *)
(* (lines 38-41).  The loader reads each field it knows at its own offset  *)
(* in the .o's bytes, so every field both versions have must sit at the    *)
(* same offset in both.                                                    *)
(*                                                                         *)
(* One behaviour is one such pair: Init picks the struct, the version of   *)
(* the .o (pver), the version of the loader (lver) and the loader's ABI;   *)
(* then the BPF compiler lays out the .o's fields one member per step, and *)
(* the native compiler does the same for the loader's.  A field's version  *)
(* is the one its comment block gives; a field without one belongs to the  *)
(* block it follows.  The layout rules are the compilers' (environment):   *)
(* a member is placed at the next multiple of its in-struct alignment,     *)
(* which is _Alignof (lines 75-80); consecutive bool:1 bitfields share one     *)
(* byte until it is full; the struct is padded to its largest alignment.   *)
(***************************************************************************)
EXTENDS Naturals, Sequences, TLC

CONSTANTS
  NativeABIs,   \* the loader's ABIs: x86_64, arm64, x86 and arm
  Versions      \* header versions, as the minor number of 0.x

VARIABLES
  def,      \* "map" or "prog"
  pver,     \* header version the .o was compiled with
  lver,     \* header version the loader was compiled with
  abi,      \* the loader's ABI
  phase,    \* "bpf", "native" or "done"
  k,        \* next member of the field list
  cur,      \* layout in progress: next free byte, bits used in it, largest alignment
  lay       \* phase -> [at: field name -> bit offset, size: struct size in bytes]

vars == <<def, pver, lver, abi, phase, k, cur, lay>>

TypeSize == [bool |-> 1, char |-> 1, enum |-> 4, uint |-> 4, ull |-> 8]

\* _Alignof, the alignment of a type as a struct member (lines 83-114).
MemberAlign(t, a) ==
  CASE t = "ull" -> IF a = "x86" THEN 4 ELSE 8
    [] t \in {"bool", "char"} -> 1
    [] OTHER -> 4

\* A member: name, type, array length, bitfield width (0: not a bitfield),
\* and the header version that added it.
F(name, t, n, bits, ver) == [name |-> name, t |-> t, n |-> n, bits |-> bits, ver |-> ver]

BPF_SELINUX_CONTEXT_CHAR_ARRAY_SIZE == 32
BPF_PIN_SUBDIR_CHAR_ARRAY_SIZE == 32

Strings(ver) ==
  << F("selinux_context", "char", BPF_SELINUX_CONTEXT_CHAR_ARRAY_SIZE, 0, ver),
     F("pin_subdir", "char", BPF_PIN_SUBDIR_CHAR_ARRAY_SIZE, 0, ver) >>

\* The ignore_on_* bitfields: three for build types, five for architectures.
BuildBits(ver) ==
  << F("ignore_on_eng", "bool", 1, 1, ver), F("ignore_on_user", "bool", 1, 1, ver),
     F("ignore_on_userdebug", "bool", 1, 1, ver) >>
ArchBits(ver) ==
  << F("ignore_on_arm32", "bool", 1, 1, ver), F("ignore_on_aarch64", "bool", 1, 1, ver),
     F("ignore_on_x86_32", "bool", 1, 1, ver), F("ignore_on_x86_64", "bool", 1, 1, ver),
     F("ignore_on_riscv64", "bool", 1, 1, ver) >>

\* pad0 and uid carry no version comment of their own; they are tagged with
\* the version of the block they follow.  Any tag from 18 on puts uid at 116.
MapDefFields ==
  << F("type", "enum", 1, 0, 0), F("key_size", "uint", 1, 0, 0),
     F("value_size", "uint", 1, 0, 0), F("max_entries", "uint", 1, 0, 0),
     F("map_flags", "uint", 1, 0, 0), F("zero", "uint", 1, 0, 0),
     F("gid", "uint", 1, 0, 0), F("mode", "uint", 1, 0, 0),
     F("bpfloader_min_ver", "uint", 1, 0, 1), F("bpfloader_max_ver", "uint", 1, 0, 1),
     F("min_kver", "uint", 1, 0, 2), F("max_kver", "uint", 1, 0, 2) >>
  \o Strings(18) \o << F("shared", "bool", 1, 0, 18) >>
  \o BuildBits(32) \o ArchBits(38)
  \o << F("pad0", "char", 2, 0, 38), F("uid", "uint", 1, 0, 38) >>

\* Mutant: the 0.38 architecture bits declared ahead of the 0.33 build-type
\* bits in their shared byte.
ProgDefFieldsArchFirst ==
  << F("uid", "uint", 1, 0, 0), F("gid", "uint", 1, 0, 0),
     F("min_kver", "uint", 1, 0, 0), F("max_kver", "uint", 1, 0, 0),
     F("optional", "bool", 1, 0, 0) >>
  \o ArchBits(38) \o BuildBits(33) \o << F("pad0", "char", 2, 0, 38) >>
  \o << F("bpfloader_min_ver", "uint", 1, 0, 1), F("bpfloader_max_ver", "uint", 1, 0, 1) >>
  \o Strings(18)

ProgDefFields ==
  << F("uid", "uint", 1, 0, 0), F("gid", "uint", 1, 0, 0),
     F("min_kver", "uint", 1, 0, 0), F("max_kver", "uint", 1, 0, 0),
     F("optional", "bool", 1, 0, 0) >>
  \o BuildBits(33) \o ArchBits(38) \o << F("pad0", "char", 2, 0, 38) >>
  \o << F("bpfloader_min_ver", "uint", 1, 0, 1), F("bpfloader_max_ver", "uint", 1, 0, 1) >>
  \o Strings(18)

Fields(d) == IF d = "map" THEN MapDefFields ELSE ProgDefFields

RoundUp(x, a) == ((x + a - 1) \div a) * a

PhaseVer == IF phase = "bpf" THEN pver ELSE lver
PhaseABI == IF phase = "bpf" THEN "bpf" ELSE abi

Fresh == [free |-> 0, bits |-> 0, align |-> 1]

\* The member is not in this version of the header.
Absent ==
  /\ phase # "done" /\ k <= Len(Fields(def))
  /\ Fields(def)[k].ver > PhaseVer
  /\ k' = k + 1
  /\ UNCHANGED <<def, pver, lver, abi, phase, cur, lay>>

\* Place a bool:1 bitfield: in the open byte while it has room, else in a new
\* byte; both compilers fill a little-endian byte from its lowest bit.
PlaceBits ==
  LET f == Fields(def)[k]
      fits == cur.bits > 0 /\ cur.bits + f.bits <= 8
      at == IF fits THEN cur.free - 1 ELSE cur.free
      bit == IF fits THEN cur.bits ELSE 0
  IN  /\ phase # "done" /\ k <= Len(Fields(def))
      /\ f.ver <= PhaseVer /\ f.bits > 0
      /\ cur' = [free |-> at + 1, bits |-> IF fits THEN cur.bits + f.bits ELSE f.bits,
                 align |-> cur.align]
      /\ lay' = [lay EXCEPT ![phase].at = @ @@ (f.name :> 8 * at + bit)]
      /\ k' = k + 1
      /\ UNCHANGED <<def, pver, lver, abi, phase>>

\* Place an ordinary member at the next multiple of its alignment.
PlaceMember ==
  LET f == Fields(def)[k]
      a == MemberAlign(f.t, PhaseABI)
      at == RoundUp(cur.free, a)
  IN  /\ phase # "done" /\ k <= Len(Fields(def))
      /\ f.ver <= PhaseVer /\ f.bits = 0
      /\ cur' = [free |-> at + TypeSize[f.t] * f.n, bits |-> 0,
                 align |-> IF a > cur.align THEN a ELSE cur.align]
      /\ lay' = [lay EXCEPT ![phase].at = @ @@ (f.name :> 8 * at)]
      /\ k' = k + 1
      /\ UNCHANGED <<def, pver, lver, abi, phase>>

\* End of the struct: pad to the largest member alignment, go to the next compiler.
Close ==
  /\ phase # "done" /\ k > Len(Fields(def))
  /\ lay' = [lay EXCEPT ![phase].size = RoundUp(cur.free, cur.align),
                        ![phase].align = cur.align]
  /\ phase' = IF phase = "bpf" THEN "native" ELSE "done"
  /\ k' = 1
  /\ cur' = Fresh
  /\ UNCHANGED <<def, pver, lver, abi>>

Done == phase = "done" /\ UNCHANGED vars

Init ==
  /\ def \in {"map", "prog"}
  /\ pver \in Versions /\ lver \in Versions
  /\ abi \in NativeABIs
  /\ phase = "bpf" /\ k = 1 /\ cur = Fresh
  /\ lay = [p \in {"bpf", "native"} |-> [at |-> <<>>, size |-> 0, align |-> 0]]

Next == Absent \/ PlaceBits \/ PlaceMember \/ Close \/ Done

Spec == Init /\ [][Next]_vars

-----------------------------------------------------------------------------
(* Properties *)

(***************************************************************************)
(* The loader reads what the program wrote (lines 38-57): once both are    *)
(* laid out, every field the .o and the loader both have is at the same    *)
(* bit offset, whichever header versions and whichever of the five ABIs    *)
(* built them.  Inserting a field or a bitfield before an existing one, or *)
(* a type whose alignment differs between ABIs, breaks it.                 *)
(***************************************************************************)
FieldsAgree ==
  phase = "done" =>
    \A n \in DOMAIN lay["bpf"].at \cap DOMAIN lay["native"].at :
      lay["bpf"].at[n] = lay["native"].at[n]

================================================================================
