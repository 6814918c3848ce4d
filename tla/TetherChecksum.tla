--------------------------- MODULE TetherChecksum ---------------------------
(***************************************************************************)
(* The checksum arithmetic of the forwarding programs in                   *)
(* src/bpf/progs/offload@mainline.c: the IPv4 header check (do_forward4),  *)
(* the incremental rewrite of the IPv4 header and TCP/UDP checksums before *)
(* redirect (do_forward4_bottom), and the CHECKSUM_COMPLETE correction for *)
(* the IPv6 hop limit (do_forward6).                                       *)
(*                                                                         *)
(* A packet that reached the rewrite is chosen at Init from a bounded set  *)
(* (its guards have already passed, TetherOffload models them); one step   *)
(* rewrites it as the code does, and the invariants compare the result     *)
(* with a checksum computed from scratch.  Words are the native 16-bit     *)
(* loads of a little-endian build (arm64, x86_64), so htons and ntohs swap *)
(* the two bytes.                                                          *)
(***************************************************************************)
EXTENDS Integers, Sequences

CONSTANTS
  Ttls,       \* IPv4 TTL values that pass the TTL guard (> 1)
  Protos,     \* the IPPROTO_ values offloaded: 6 (TCP) and 17 (UDP)
  Addrs,      \* IPv4 addresses, each a pair of native 16-bit words
  Ports,      \* port words
  Rests,      \* one's complement sum of the L4 words the rewrite leaves alone
  HeadWords,  \* ver/ihl/tos, tot_len, id, frag_off: untouched header words
  HopLimits,  \* IPv6 hop limits that pass the hop limit guard (> 1)
  NextHdrs    \* IPv6 next header values

VARIABLES pkt, out

vars == <<pkt, out>>

Word16 == 0..65535
\* A u32 is held as <<high half, low half>>: TLC's integers are 32-bit signed.
\* U32(x) is the C conversion of an int to u32.
U32(x) == <<(x \div 65536) % 65536, x % 65536>>

(***************************************************************************)
(* One's complement arithmetic (RFC 1071) and the kernel helpers the       *)
(* program calls.  These are the kernel's, not this repository's: the      *)
(* model takes them as the environment.                                    *)
(***************************************************************************)
OcAdd(a, b) == ((a + b) % 65536) + ((a + b) \div 65536)
OcNot(x) == 65535 - x
RECURSIVE OcSum(_)
OcSum(s) == IF s = <<>> THEN 0 ELSE OcAdd(Head(s), OcSum(Tail(s)))
Swap16(x) == ((x % 256) * 256) + (x \div 256)  \* htons, ntohs on little endian

\* csum_replace2/4 (RFC 1624 eqn. 3) as bpf_l3_csum_replace and, for a
\* check field that is not CHECKSUM_PARTIAL, bpf_l4_csum_replace apply it:
\* the old words, then the new ones, in one call.
CsumReplace(check, old, new) ==
  OcNot(OcSum(<<OcNot(check)>> \o [i \in DOMAIN old |-> OcNot(old[i])] \o new))

\* bpf_l4_csum_replace: BPF_F_MARK_MANGLED_0 leaves a zero UDP check alone
\* and stores CSUM_MANGLED_0 (0xFFFF) instead of a computed zero.
L4Replace(check, old, new, flags) ==
  IF "MANGLED_0" \in flags /\ check = 0 THEN 0
  ELSE LET c == CsumReplace(check, old, new)
       IN  IF "MANGLED_0" \in flags /\ c = 0 THEN 65535 ELSE c

\* bpf_csum_update, as quoted in the comment of do_forward4_bottom:
\* skb->csum = csum_add(skb->csum, csum), a 32-bit end-around-carry add.
CsumAdd32(a, b) ==
  LET lo == a[2] + b[2]
      hi == a[1] + b[1] + (lo \div 65536)
      lo1 == (lo % 65536) + (hi \div 65536)     \* the carry goes around
  IN  <<(hi % 65536) + (lo1 \div 65536), lo1 % 65536>>

\* A u32 modulo 0xFFFF: the one's complement class of its two halves.
Mod65535(u) == (u[1] + u[2]) % 65535

(***************************************************************************)
(* The program's own code.                                                 *)
(***************************************************************************)

\* The IPv4 header as the ten u16 words do_forward4 sums.
Words4(h) == HeadWords \o <<h.ttlProto, h.check3>> \o h.saddr \o h.daddr

\* do_forward4: sum the ten words into a u32, fold twice, require 0xFFFF.
Verify4(h) ==
  LET RECURSIVE Plain(_)
      Plain(s) == IF s = <<>> THEN 0 ELSE Head(s) + Plain(Tail(s))
      Fold(s) == (s % 65536) + (s \div 65536)
  IN  Fold(Fold(Plain(Words4(h)))) = 65535

\* The words the TCP/UDP checksum covers: pseudo header addresses, ports,
\* everything else summed in rest, and the check itself.
Words4L4(h) == h.saddr \o h.daddr \o <<h.sport, h.dport, h.rest, h.check4>>


\* A plausible bug: htons forgotten, 0x0100 taken off the native word.
TtlProtoDecNoSwap(w) == w - 256

\* new_ttl_proto = old_ttl_proto - htons(0x0100): the TTL byte loses one.
TtlProtoDec(w) == w - Swap16(256)

\* A plausible bug: the mangled-zero flag left out for UDP.
L4FlagsNone(proto) == {}

\* l4_flags: UDP 0 is special and stored as FFFF.
L4Flags(proto) == IF proto = 6 THEN {} ELSE {"MANGLED_0"}

\* A plausible bug: the l3 correction for the source address left out.
Rewrite4NoSaddrL3(h, v) ==
  LET fl == L4Flags(h.proto)
      ttlProto == TtlProtoDec(h.ttlProto)
      c3 == CsumReplace(CsumReplace(h.check3, <<h.ttlProto>>, <<ttlProto>>),
                        h.daddr, v.daddr)
      c4 == L4Replace(L4Replace(L4Replace(L4Replace(h.check4,
              h.daddr, v.daddr, fl), h.saddr, v.saddr, fl),
              <<h.sport>>, <<v.sport>>, fl), <<h.dport>>, <<v.dport>>, fl)
  IN  [h EXCEPT !.ttlProto = ttlProto, !.check3 = c3, !.check4 = c4,
                !.saddr = v.saddr, !.daddr = v.daddr,
                !.sport = v.sport, !.dport = v.dport]

\* do_forward4_bottom from the TTL decrement to the destination port: the
\* u16 TTL/protocol word loses htons(0x0100); each field's l4 and l3
\* corrections come before its store, daddr before saddr, then the ports.
Rewrite4(h, v) ==
  LET fl == L4Flags(h.proto)
      ttlProto == TtlProtoDec(h.ttlProto)
      c3 == CsumReplace(CsumReplace(CsumReplace(h.check3,
              <<h.ttlProto>>, <<ttlProto>>), h.daddr, v.daddr),
              h.saddr, v.saddr)
      c4 == L4Replace(L4Replace(L4Replace(L4Replace(h.check4,
              h.daddr, v.daddr, fl), h.saddr, v.saddr, fl),
              <<h.sport>>, <<v.sport>>, fl), <<h.dport>>, <<v.dport>>, fl)
  IN  [h EXCEPT !.ttlProto = ttlProto, !.check3 = c3, !.check4 = c4,
                !.saddr = v.saddr, !.daddr = v.daddr,
                !.sport = v.sport, !.dport = v.dport]

\* The native u16 load of IPv6 bytes 6 and 7: nexthdr, then hop limit.
Word67(h) == h.nexthdr + 256 * h.hopLimit

\* A plausible bug: the u32 correction written without the 0xFFFF bias.
HopLimitDeltaUnbiased(old, new) == U32(Swap16(new) - Swap16(old))

\* do_forward6: 0xFFFF - ntohs(old_hl) + ntohs(new_hl), passed as u32.
HopLimitDelta(old, new) == U32(65535 - Swap16(old) + Swap16(new))

\* do_forward6: --hop_limit, then bpf_csum_update with the delta.
Rewrite6(h) ==
  [h EXCEPT !.hopLimit = @ - 1,
            !.csum = CsumAdd32(@, HopLimitDelta(h.hopLimit, h.hopLimit - 1))]

(***************************************************************************)
(* The packets that reach the rewrite, with valid checksums.               *)
(***************************************************************************)
Valid4(h) == [h EXCEPT !.check3 = OcNot(OcSum(HeadWords \o <<h.ttlProto, 0>>
                                              \o h.saddr \o h.daddr))]

ValidL4(h, udpZero) ==
  LET c == OcNot(OcSum(Words4L4([h EXCEPT !.check4 = 0])))
  IN  [h EXCEPT !.check4 = CASE h.proto = 6 -> c
                             [] udpZero     -> 0
                             [] c = 0       -> 65535
                             [] OTHER       -> c]

Inputs4 ==
  { [fam |-> 4, pkt |-> ValidL4(Valid4(
       [proto |-> pr, ttlProto |-> t + 256 * pr, check3 |-> 0, saddr |-> s,
        daddr |-> d, sport |-> sp, dport |-> dp, rest |-> r, check4 |-> 0]), z),
     value |-> [saddr |-> s2, daddr |-> d2, sport |-> sp2, dport |-> dp2]] :
      pr \in Protos, t \in Ttls, s \in Addrs, d \in Addrs, s2 \in Addrs,
      d2 \in Addrs, sp \in Ports, dp \in Ports, sp2 \in Ports, dp2 \in Ports,
      r \in Rests, z \in BOOLEAN }   \* z only matters for UDP

\* An IPv6 packet whose CHECKSUM_COMPLETE csum covers the hop limit word
\* and the rest of the packet, held in any u32 representative.
Inputs6 ==
  { [fam |-> 6, pkt |-> [nexthdr |-> n, hopLimit |-> hl, rest |-> r,
                         csum |-> <<k, OcAdd(r, n + 256 * hl)>>],
     value |-> <<>>] :
      n \in NextHdrs, hl \in HopLimits, r \in Rests, k \in {0, 65535} }

Init ==
  /\ pkt \in Inputs4 \cup Inputs6
  /\ out = {}

Forward4 ==
  /\ pkt.fam = 4 /\ out = {}
  /\ out' = {Rewrite4(pkt.pkt, pkt.value)}
  /\ UNCHANGED pkt

Forward6 ==
  /\ pkt.fam = 6 /\ out = {}
  /\ out' = {Rewrite6(pkt.pkt)}
  /\ UNCHANGED pkt

\* The packet has been redirected; nothing more happens to it here.
Done == out # {} /\ UNCHANGED vars

Next == Forward4 \/ Forward6 \/ Done

Spec == Init /\ [][Next]_vars

Out == CHOOSE h \in out : TRUE

(***************************************************************************)
(* Properties.                                                             *)
(***************************************************************************)

\* Every rewritten field is a 16-bit word, skb->csum a u32, and the
\* protocol byte of the TTL/protocol word is untouched by the decrement.
TypeOK ==
  /\ out = {} \/ pkt.fam = 6
     \/ /\ \A w \in DOMAIN Words4(Out) : Words4(Out)[w] \in Word16
        /\ Out.check4 \in Word16
        /\ Out.ttlProto \div 256 \in Protos
  /\ out = {} \/ pkt.fam = 4 \/ Out.csum \in Word16 \X Word16

\* The IPv4 header do_forward4_bottom sends passes the same check
\* do_forward4 applied on entry, after the TTL and both addresses changed.
ForwardedHeaderVerifies ==
  out # {} /\ pkt.fam = 4 => Verify4(Out)

\* The TCP or UDP checksum of a forwarded IPv4 packet is valid for the new
\* addresses and ports; a UDP packet sent without a checksum (0) keeps 0,
\* and one sent with a checksum never ends up with 0.
L4ChecksumPreserved ==
  out # {} /\ pkt.fam = 4 =>
    IF pkt.pkt.proto = 17 /\ pkt.pkt.check4 = 0
    THEN Out.check4 = 0
    ELSE /\ OcSum(Words4L4(Out)) = 65535
         /\ pkt.pkt.proto = 17 => Out.check4 # 0

\* After do_forward6 decrements the hop limit, a CHECKSUM_COMPLETE skb->csum
\* still equals, modulo 0xFFFF, the one's complement sum of the packet.
CompleteCsumTracksHopLimit ==
  out # {} /\ pkt.fam = 6 =>
    Mod65535(Out.csum) = OcAdd(Out.rest, Word67(Out)) % 65535

====
