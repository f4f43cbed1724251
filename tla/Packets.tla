------------------------------ MODULE Packets ------------------------------
(***************************************************************************)
(* The helpers of parsing_helpers.h and rewrite_helpers.h, as a program    *)
(* would call them on one packet: a cursor moved by the parsers, and VLAN  *)
(* tags pushed and popped in place.                                        *)
(*                                                                         *)
(* A packet is the memory from data to data_end in units of two bytes, the *)
(* size that all header sizes are multiples of.  Its Ethernet header and   *)
(* VLAN tags are modelled unit by unit; of the headers behind them only    *)
(* the fields that move the cursor count, and they may have any value.     *)
(* A unit is the number that a little-endian host loads from its bytes, so *)
(* a field in network byte order has its two bytes exchanged.              *)
(***************************************************************************)
EXTENDS Integers, Sequences, FiniteSetsExt

CONSTANTS
  Frames,       \* packets that may be received
  TCIs,         \* values of the int that vlan_tag_push is asked to push
  MaxUnits      \* bound: units from the start of the headroom to data_end

ASSUME PacketsAssumption == Frames \subseteq Seq(Nat) /\ TCIs \subseteq Int /\ MaxUnits \in Nat

VARIABLES
  pkt,          \* the packet
  pos,          \* units before the cursor
  ret,          \* what the last helper returned
  vlans         \* VLAN ids collected

packet == <<pkt, pos, ret, vlans>>

VLAN_MAX_DEPTH == 2
ETH == 7        \* sizeof(struct ethhdr), in units, and so on
VLAN == 2
IPV4 == 10
IPV6 == 20
ICMP == 4       \* struct icmphdr and struct icmp6hdr
ICMP_COMMON == 2
UDP == 4
TCP == 10

ETH_P_8021Q == 33024
ETH_P_8021AD == 34984

\* The bytes of n exchanged, after its conversion to 16 bits.
bpf_htons(n) == (n % 256) * 256 + (n % 65536) \div 256
bpf_ntohs(n) == bpf_htons(n)

proto_is_vlan(h_proto) == h_proto \in {bpf_htons(ETH_P_8021Q), bpf_htons(ETH_P_8021AD)}

VLAN_VID_MASK == 4095

\* bpf_ntohs(h_vlan_TCI) & VLAN_VID_MASK
Vid(tci) == bpf_ntohs(tci) % (VLAN_VID_MASK + 1)

(***************************************************************************)
(* Parsers: the new cursor, -1 if the header is refused.                   *)
(***************************************************************************)

\* A header of a fixed size.
parse_fixed(at, end, size) == IF at + size > end THEN -1 ELSE at + size

\* Mutant: the length field is believed.
ParseUnbounded(at, end, size, words) ==
  IF at + size > end \/ words * 2 < size THEN -1 ELSE at + words * 2

\* parse_iphdr and parse_tcphdr: the header says how many words of four
\* bytes it has.
parse_variable(at, end, size, words) ==
  IF at + size > end \/ words * 2 < size \/ at + words * 2 > end THEN -1 ELSE at + words * 2

\* What is in memory at unit k, which may be behind data_end.
Unwritten == 0
At(p, k) == IF k \in DOMAIN p THEN p[k] ELSE Unwritten

\* Whether the loop of parse_ethhdr_vlan goes on with the tag after unit at,
\* which holds the protocol.
TagAt(p, at) == proto_is_vlan(At(p, at)) /\ at + VLAN <= Len(p)

\* Mutant: one round too few.
SkippedOnce(p) == IF TagAt(p, ETH) THEN 1 ELSE 0

\* Tags that the loop skips: it is unrolled VLAN_MAX_DEPTH times.
Skipped(p) ==
  IF ~TagAt(p, ETH) THEN 0 ELSE IF TagAt(p, ETH + VLAN) THEN VLAN_MAX_DEPTH ELSE 1

\* h_proto is returned as it stands in the packet.
parse_ethhdr_vlan ==
  /\ pos = 0
  /\ IF ETH > Len(pkt)
     THEN ret' = -1 /\ UNCHANGED <<pos, vlans>>
     ELSE /\ pos' = ETH + VLAN * Skipped(pkt)
          /\ ret' = At(pkt, pos')
          /\ vlans' = [k \in 1 .. Skipped(pkt) |-> Vid(pkt[ETH + VLAN * k - 1])]
  /\ UNCHANGED pkt

\* The cursor stays where it is when a header is refused.
Move(to) ==
  /\ pos > 0
  /\ pos' = IF to = -1 THEN pos ELSE to
  /\ ret' = IF to = -1 THEN -1 ELSE 0
  /\ UNCHANGED <<pkt, vlans>>

parse_ip6hdr == Move(parse_fixed(pos, Len(pkt), IPV6))
parse_iphdr == \E ihl \in 0 .. 15 : Move(parse_variable(pos, Len(pkt), IPV4, ihl))
parse_icmphdr == Move(parse_fixed(pos, Len(pkt), ICMP))
parse_icmphdr_common == Move(parse_fixed(pos, Len(pkt), ICMP_COMMON))
parse_tcphdr == \E doff \in 0 .. 15 : Move(parse_variable(pos, Len(pkt), TCP, doff))

\* The cursor has moved past the header when its length field is refused.
parse_udphdr ==
  \E len \in {0, 4, 5} :
    /\ pos > 0
    /\ IF parse_fixed(pos, Len(pkt), UDP) = -1
       THEN ret' = -1 /\ UNCHANGED pos
       ELSE /\ pos' = pos + UDP
            /\ ret' = IF len < UDP THEN -1 ELSE len - UDP
    /\ UNCHANGED <<pkt, vlans>>

(***************************************************************************)
(* Rewriting.  A result is the packet and the returned value; the caller   *)
(* has parsed the Ethernet header.                                         *)
(***************************************************************************)

\* The kernel moves data by delta units.
bpf_xdp_adjust_head(p, delta) ==
  IF delta < 0 THEN [k \in 1 .. -delta |-> Unwritten] \o p ELSE SubSeq(p, delta + 1, Len(p))

\* The units of s written to p from its start on.
memcpy(p, s) == [k \in DOMAIN p |-> IF k \in DOMAIN s THEN s[k] ELSE p[k]]

vlan_tag_pop(p) ==
  IF ~proto_is_vlan(p[ETH]) \/ ETH + VLAN > Len(p) THEN [pkt |-> p, ret |-> -1]
  ELSE [pkt |-> [memcpy(bpf_xdp_adjust_head(p, VLAN), SubSeq(p, 1, ETH)) EXCEPT ![ETH] = p[ETH + 2]],
        ret |-> bpf_ntohs(p[ETH + 1])]

\* Mutant: the protocol is set before it is copied into the tag.
PushTwice(p, vlid) ==
  LET q == memcpy(bpf_xdp_adjust_head(p, -VLAN), SubSeq(p, 1, ETH - 1) \o <<bpf_htons(ETH_P_8021Q)>>)
  IN  IF Len(p) + VLAN > MaxUnits THEN [pkt |-> p, ret |-> -1]
      ELSE [pkt |-> [q EXCEPT ![ETH + 1] = bpf_htons(vlid), ![ETH + 2] = q[ETH]], ret |-> 0]

vlan_tag_push(p, vlid) ==
  LET q == memcpy(bpf_xdp_adjust_head(p, -VLAN), SubSeq(p, 1, ETH))
  IN  IF Len(p) + VLAN > MaxUnits THEN [pkt |-> p, ret |-> -1]
      ELSE [pkt |-> [q EXCEPT ![ETH + 1] = bpf_htons(vlid), ![ETH + 2] = q[ETH], ![ETH] = bpf_htons(ETH_P_8021Q)],
            ret |-> 0]

\* Mutant: the first half is overwritten before it is saved.
SwapLost(p) == memcpy(p, SubSeq(p, 1, 3) \o SubSeq(p, 1, 3))

swap_src_dst_mac(p) == memcpy(p, SubSeq(p, 4, 6) \o SubSeq(p, 1, 3))

\* The cursor is parsed anew from the moved start.
Rewrite(result) ==
  /\ pos > 0
  /\ pkt' = result.pkt
  /\ ret' = result.ret
  /\ pos' = 0
  /\ vlans' = <<>>

Pop == Rewrite(vlan_tag_pop(pkt))
Push == \E vlid \in TCIs : Rewrite(vlan_tag_push(pkt, vlid))
Swap == Rewrite([pkt |-> swap_src_dst_mac(pkt), ret |-> 0])

PacketInit == pkt \in Frames /\ pos = 0 /\ ret = 0 /\ vlans = <<>>

PacketNext ==
  \/ parse_ethhdr_vlan
  \/ parse_ip6hdr
  \/ parse_iphdr
  \/ parse_icmphdr
  \/ parse_icmphdr_common
  \/ parse_tcphdr
  \/ parse_udphdr
  \/ Pop
  \/ Push
  \/ Swap

PacketSpec == PacketInit /\ [][PacketNext]_packet

(***************************************************************************)
(* Properties.                                                             *)
(***************************************************************************)

\* Whatever a packet claims about its headers, and in whatever order they are
\* parsed, the cursor never passes data_end.
CursorWithin == pos <= Len(pkt)

\* parse_ethhdr_vlan stops behind as many whole tags as the packet has, at
\* most VLAN_MAX_DEPTH, and collects one ID per tag.  It returns the protocol
\* that stands before the cursor, in network byte order: the comment at its
\* return says so, while the one at the top of the file promises host order.
TagsSkipped ==
  [][parse_ethhdr_vlan /\ pos' > 0 =>
       /\ pos' = Max({e \in {ETH + VLAN * n : n \in 0 .. VLAN_MAX_DEPTH} :
                       e <= Len(pkt) /\ \A k \in ETH .. e - 1 : (k - ETH) % VLAN = 0 => proto_is_vlan(pkt[k])})
       /\ ret' = pkt[pos'] /\ Len(vlans') = (pos' - ETH) \div VLAN]_packet

\* vlan_tag_pop takes back exactly what vlan_tag_push did to the packet,
\* which both move in place, whatever int was pushed.  What it returns is the
\* VLAN ID, as its comment says, if an ID was pushed: of any other int it
\* returns the low 16 bits, priority bits included.
PopUndoesPush ==
  Len(pkt) \in ETH .. MaxUnits - VLAN =>
    \A vlid \in TCIs :
      LET back == vlan_tag_pop(vlan_tag_push(pkt, vlid).pkt)
      IN  back.pkt = pkt /\ (vlid \in 0 .. VLAN_VID_MASK => back.ret = vlid)

FromProto(p) == SubSeq(p, ETH, Len(p))
MACs(p) == {SubSeq(p, 1, 3), SubSeq(p, 4, 6)}
EndsWith(p, s) == Len(s) <= Len(p) /\ SubSeq(p, Len(p) - Len(s) + 1, Len(p)) = s

\* However tags are pushed and popped and addresses swapped, the packet keeps
\* both its addresses and everything behind the tags.
RewriteKeeps ==
  [][pos > 0 /\ pos' = 0 =>
       /\ MACs(pkt') = MACs(pkt)
       /\ EndsWith(FromProto(pkt), FromProto(pkt')) \/ EndsWith(FromProto(pkt'), FromProto(pkt))]_packet
=============================================================================
