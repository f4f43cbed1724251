---------------------------- MODULE HelperProofs ----------------------------
(***************************************************************************)
(* Theorems about the packet helpers, for any packets, about the command   *)
(* line, for any options, and about the fixed-point arithmetic, for any    *)
(* operands.                                                               *)
(***************************************************************************)
EXTENDS MCHelpers, BasicTheorems

\* The prover of every leaf that does not name another one.
USE Zenon

----------------------------------------------------------------------------
(***************************************************************************)
(* Packets unit by unit.                                                   *)
(***************************************************************************)

\* memcpy writes the first units and leaves the others.
LEMMA MemcpyUnits ==
  ASSUME NEW p \in Seq(Nat), NEW s \in Seq(Nat), Len(s) <= Len(p)
  PROVE  /\ memcpy(p, s) \in Seq(Nat)
         /\ Len(memcpy(p, s)) = Len(p)
         /\ \A k \in 1 .. Len(p) : memcpy(p, s)[k] = IF k <= Len(s) THEN s[k] ELSE p[k]
<1>1. DOMAIN p = 1 .. Len(p) /\ DOMAIN s = 1 .. Len(s) /\ Len(p) \in Nat /\ Len(s) \in Nat
  BY SMT
<1>2. memcpy(p, s) = [k \in 1 .. Len(p) |-> IF k \in 1 .. Len(s) THEN s[k] ELSE p[k]]
  BY <1>1 DEF memcpy
<1>3. \A k \in 1 .. Len(p) : p[k] \in Nat /\ (k <= Len(s) => s[k] \in Nat)
  BY SMT
<1> QED BY <1>1, <1>2, <1>3, SMT

\* The Ethernet header of a packet and its two addresses.
LEMMA HeaderUnits ==
  ASSUME NEW p \in Seq(Nat), Len(p) >= 7
  PROVE  LET header == SubSeq(p, 1, 7)
             first == SubSeq(p, 1, 3)
             second == SubSeq(p, 4, 6)
         IN  /\ header \in Seq(Nat) /\ Len(header) = 7 /\ \A k \in 1 .. 7 : header[k] = p[k]
             /\ first \in Seq(Nat) /\ Len(first) = 3 /\ \A k \in 1 .. 3 : first[k] = p[k]
             /\ second \in Seq(Nat) /\ Len(second) = 3 /\ \A k \in 1 .. 3 : second[k] = p[k + 3]
<1>1. SubSeq(p, 1, 7) \in Seq(Nat)
  BY SMTT(30)
<1>2. Len(SubSeq(p, 1, 7)) = 7 /\ \A k \in 1 .. 7 : SubSeq(p, 1, 7)[k] = p[k]
  BY SMT
<1>3. SubSeq(p, 1, 3) \in Seq(Nat)
  BY SMT
<1>4. Len(SubSeq(p, 1, 3)) = 3 /\ \A k \in 1 .. 3 : SubSeq(p, 1, 3)[k] = p[k]
  BY SMT
<1>5. SubSeq(p, 4, 6) \in Seq(Nat)
  BY SMT
<1>6. Len(SubSeq(p, 4, 6)) = 3 /\ \A k \in 1 .. 3 : SubSeq(p, 4, 6)[k] = p[k + 3]
  BY SMT
<1> QED BY <1>1, <1>2, <1>3, <1>4, <1>5, <1>6

\* A packet is its units.
LEMMA SameUnits ==
  ASSUME NEW p \in Seq(Nat), NEW q \in Seq(Nat), Len(p) = Len(q), \A k \in 1 .. Len(q) : p[k] = q[k]
  PROVE  p = q
BY SMT

\* Concatenations, unit by unit.
LEMMA ConcatUnits ==
  ASSUME NEW p \in Seq(Nat), NEW q \in Seq(Nat)
  PROVE  /\ p \o q \in Seq(Nat)
         /\ Len(p \o q) = Len(p) + Len(q)
         /\ \A k \in 1 .. Len(p) : (p \o q)[k] = p[k]
         /\ \A k \in 1 .. Len(q) : (p \o q)[Len(p) + k] = q[k]
BY SMT

\* The kernel makes room for a tag.
LEMMA RoomUnits ==
  ASSUME NEW p \in Seq(Nat)
  PROVE  LET moved == bpf_xdp_adjust_head(p, -VLAN)
         IN  /\ moved \in Seq(Nat)
             /\ Len(moved) = Len(p) + 2
             /\ \A k \in 1 .. Len(p) : moved[k + 2] = p[k]
<1> DEFINE room == [k \in 1 .. 2 |-> 0]
<1>1. \A d \in Int : -(-d) = d
  BY SMT
<1>2. 2 \in Int /\ -2 < 0
  BY SMT
<1>3. -(-2) = 2
  BY <1>1, <1>2
<1>4. bpf_xdp_adjust_head(p, -VLAN) = room \o p
  BY <1>2, <1>3 DEF bpf_xdp_adjust_head, Unwritten, VLAN
<1>5. room \in Seq(Nat) /\ Len(room) = 2
  BY SMT
<1> HIDE DEF room
<1>6. /\ room \o p \in Seq(Nat) /\ Len(room \o p) = Len(room) + Len(p)
      /\ \A k \in 1 .. Len(p) : (room \o p)[Len(room) + k] = p[k]
  BY <1>5, ConcatUnits
<1>7. Len(room) + Len(p) = Len(p) + 2 /\ \A k \in 1 .. Len(p) : Len(room) + k = k + 2
  BY <1>5, SMT
<1> QED BY <1>4, <1>6, <1>7

\* Division rounds down.
LEMMA DivRange ==
  ASSUME NEW n \in Nat, NEW k \in Nat, k >= 1
  PROVE  n \div k \in Nat /\ (n \div k) * k <= n /\ n - (n \div k) * k < k
BY SMT

\* Quotient and remainder are determined.
LEMMA DivMod ==
  ASSUME NEW d \in Nat, d >= 1, NEW q \in Nat, NEW m \in 0 .. (d - 1)
  PROVE  (q * d + m) % d = m /\ (q * d + m) \div d = q
BY SMT

\* A remainder and a quotient of one are natural numbers.
LEMMA RangeMod ==
  ASSUME NEW n \in Int, NEW d \in Nat, d >= 1, NEW e \in Nat, e >= 1
  PROVE  n % d \in Nat /\ (n % e) \div d \in Nat
<1>1. n % d \in Nat /\ n % e \in Nat
  BY SMT
<1>2. \A i \in Nat : i \div d \in Nat
  BY SMT
<1> QED BY <1>1, <1>2

\* Exchanging bytes yields a unit.
LEMMA HtonsUnit ==
  ASSUME NEW n \in Int
  PROVE  bpf_htons(n) \in Nat
<1> DEFINE d == 256
           e == 65536
<1>1. d \in Nat /\ d >= 1 /\ e \in Nat /\ e >= 1 /\ \A i, j \in Nat : i * d + j \in Nat
  BY SMT
<1>2. bpf_htons(n) = (n % d) * d + (n % e) \div d
  BY SMT DEF bpf_htons
<1> HIDE DEF d, e
<1>3. n % d \in Nat /\ (n % e) \div d \in Nat
  BY <1>1, RangeMod
<1> QED BY <1>1, <1>2, <1>3

\* Exchanging them twice gives a VLAN ID back.
LEMMA NtohsBack ==
  ASSUME NEW n \in 0 .. VLAN_VID_MASK
  PROVE  bpf_ntohs(bpf_htons(n)) = n
<1>1. VLAN_VID_MASK \in Int /\ VLAN_VID_MASK < 256 * 256
  BY SMT DEF VLAN_VID_MASK
<1>2. n \in Nat /\ n < 256 * 256
  BY <1>1, SMT
<1> DEFINE d == 256
           e == 65536
<1>3. d \in Nat /\ d >= 1
  BY SMT
<1>4. PICK a \in 0 .. (d - 1), b \in 0 .. (d - 1) : n = b * d + a
  <2> DEFINE q == n \div d
             m == n - q * d
  <2> HIDE DEF d
  <2>1. q \in Nat /\ q * d <= n /\ n - q * d < d
    BY <1>3, <1>2, DivRange
  <2> USE DEF d
  <2> HIDE DEF q
  <2>2. q \in 0 .. (d - 1) /\ m \in 0 .. (d - 1) /\ n = q * d + m
    BY <1>2, <2>1, SMT
  <2> HIDE DEF d, m
  <2> QED BY <2>2
<1>5. \A i, j \in 0 .. (d - 1) : i \in Nat /\ j \in 0 .. (d - 1) /\ (i * d + j) % e = i * d + j
  BY SMT
<1>6. \A i \in Int : bpf_htons(i) = (i % d) * d + (i % e) \div d
  BY SMT DEF bpf_htons
<1>7. \A i, j \in 0 .. (d - 1) : i * d + j \in Int
  BY SMT
<1> HIDE DEF d, e
<1>8. \A i, j \in 0 .. (d - 1) : (i * d + j) % d = j /\ (i * d + j) \div d = i
  BY <1>3, <1>5, DivMod
<1>9. \A i, j \in 0 .. (d - 1) : bpf_htons(i * d + j) = j * d + i
  <2> TAKE i, j \in 0 .. (d - 1)
  <2>1. bpf_htons(i * d + j) = ((i * d + j) % d) * d + ((i * d + j) % e) \div d
    BY <1>6, <1>7
  <2>2. (i * d + j) % d = j /\ ((i * d + j) % e) \div d = i
    BY <1>5, <1>8
  <2> QED BY <2>1, <2>2
<1> QED BY <1>4, <1>9 DEF bpf_ntohs

\* The protocol of a tag as it stands in a packet.
TagProto == bpf_htons(ETH_P_8021Q)

\* It is a unit.
LEMMA TagProtoUnit == TagProto \in Nat
<1>1. ETH_P_8021Q \in Int
  BY SMT DEF ETH_P_8021Q
<1> QED BY <1>1, HtonsUnit DEF TagProto

\* The packet that vlan_tag_push leaves when there is room; tci is the unit
\* that it writes into the tag.
Pushed(p, tci) ==
  LET q == memcpy(bpf_xdp_adjust_head(p, -VLAN), SubSeq(p, 1, ETH))
  IN  [q EXCEPT ![ETH + 1] = tci, ![ETH + 2] = q[ETH], ![ETH] = bpf_htons(ETH_P_8021Q)]

\* Its units: the addresses, the new tag, and behind it the old protocol and
\* all that followed.
LEMMA PushedUnits ==
  ASSUME NEW p \in Seq(Nat), Len(p) >= 7, NEW tci \in Nat
  PROVE  LET r == Pushed(p, tci)
         IN  /\ r \in Seq(Nat) /\ Len(r) = Len(p) + 2 /\ r[7] = TagProto /\ r[8] = tci
             /\ \A k \in 1 .. Len(p) : r[IF k < 7 THEN k ELSE k + 2] = p[k]
<1> DEFINE moved == bpf_xdp_adjust_head(p, -VLAN)
           header == SubSeq(p, 1, 7)
           q == memcpy(moved, header)
           r == [q EXCEPT ![7 + 1] = tci, ![7 + 2] = q[7], ![7] = TagProto]
<1>1. Pushed(p, tci) = r
  BY DEF Pushed, ETH, TagProto
<1>2. moved \in Seq(Nat) /\ Len(moved) = Len(p) + 2 /\ \A k \in 1 .. Len(p) : moved[k + 2] = p[k]
  BY RoomUnits DEF VLAN
<1>3. header \in Seq(Nat) /\ Len(header) = 7 /\ \A k \in 1 .. 7 : header[k] = p[k]
  BY HeaderUnits
<1> HIDE DEF moved, header
<1>4. Len(header) <= Len(moved)
  BY <1>2, <1>3, SMT
<1>5. /\ q \in Seq(Nat) /\ Len(q) = Len(moved)
      /\ \A k \in 1 .. Len(moved) : q[k] = IF k <= Len(header) THEN header[k] ELSE moved[k]
  BY <1>2, <1>3, <1>4, MemcpyUnits, ZenonT(60)
<1> HIDE DEF q
<1>6. /\ r \in Seq(Nat) /\ Len(r) = Len(p) + 2 /\ r[7] = TagProto /\ r[8] = tci /\ r[9] = q[7]
      /\ \A k \in 1 .. Len(p) + 2 : k \notin 7 .. 9 => r[k] = q[k]
  <2>1. q \in Seq(Nat) /\ Len(q) = Len(p) + 2 /\ q[7] \in Nat
    <3>1. q \in Seq(Nat) /\ Len(q) = Len(p) + 2
      BY <1>2, <1>5
    <3> QED BY <3>1, SMT
  <2>2. r \in Seq(Nat) /\ Len(r) = Len(p) + 2
    BY <2>1, TagProtoUnit, SMTT(30)
  <2>3. r[7] = TagProto /\ r[8] = tci /\ r[9] = q[7]
    BY <2>1, TagProtoUnit, SMTT(30)
  <2>4. \A k \in 1 .. Len(p) + 2 : k \notin 7 .. 9 => r[k] = q[k]
    BY <2>1, TagProtoUnit, SMTT(30)
  <2> QED BY <2>2, <2>3, <2>4
<1> HIDE DEF r
<1>7. ASSUME NEW k \in 1 .. Len(p) PROVE r[IF k < 7 THEN k ELSE k + 2] = p[k]
  <2>0. Len(p) \in Nat /\ Len(header) = 7 /\ Len(moved) = Len(p) + 2
    BY <1>2, <1>3, SMT
  <2>1. CASE k < 7
    <3>1. k \in 1 .. Len(moved) /\ k <= Len(header) /\ k \in 1 .. 7 /\ k \in 1 .. Len(p) + 2 /\ k \notin 7 .. 9
      BY <2>0, <2>1, SMT
    <3> QED BY <2>1, <3>1, <1>3, <1>5, <1>6
  <2>2. CASE k = 7
    <3>1. k \in 1 .. Len(moved) /\ k <= Len(header) /\ k \in 1 .. 7 /\ ~ (k < 7) /\ k + 2 = 9
      BY <2>0, <2>2, SMT
    <3> QED BY <2>2, <3>1, <1>3, <1>5, <1>6
  <2>3. CASE k > 7
    <3>1. /\ k + 2 \in 1 .. Len(moved) /\ ~ (k + 2 <= Len(header)) /\ ~ (k < 7)
          /\ k + 2 \in 1 .. Len(p) + 2 /\ k + 2 \notin 7 .. 9
      BY <2>0, <2>3, SMT
    <3> QED BY <3>1, <1>2, <1>5, <1>6
  <2> QED BY <2>1, <2>2, <2>3, SMT
<1> QED BY <1>1, <1>6, <1>7

\* vlan_tag_push pushes when there is room.
LEMMA PushResult ==
  ASSUME NEW p, NEW vlid
  PROVE  vlan_tag_push(p, vlid)
           = IF Len(p) + VLAN > MaxUnits THEN [pkt |-> p, ret |-> -1] ELSE [pkt |-> Pushed(p, bpf_htons(vlid)), ret |-> 0]
BY DEF vlan_tag_push, Pushed

\* Units of a packet that vlan_tag_pop took the outer tag from.
LEMMA PopUnits ==
  ASSUME NEW p \in Seq(Nat), Len(p) >= ETH, proto_is_vlan(p[ETH]), ETH + VLAN <= Len(p)
  PROVE  LET r == vlan_tag_pop(p)
         IN  /\ r.ret = bpf_ntohs(p[ETH + 1])
             /\ r.pkt \in Seq(Nat)
             /\ Len(r.pkt) = Len(p) - VLAN
             /\ \A k \in 1 .. Len(p) - VLAN : r.pkt[k] = p[IF k < ETH THEN k ELSE k + VLAN]
<1> DEFINE moved == bpf_xdp_adjust_head(p, VLAN)
           header == SubSeq(p, 1, 7)
           q == memcpy(moved, header)
           r == [q EXCEPT ![7] = p[7 + 2]]
<1>0. ~ (ETH + VLAN > Len(p))
  BY SMT DEF ETH, VLAN
<1>1. vlan_tag_pop(p) = [pkt |-> r, ret |-> bpf_ntohs(p[7 + 1])]
  BY <1>0 DEF vlan_tag_pop, ETH
<1>2. SUFFICES ASSUME Len(p) >= 9
               PROVE  /\ r \in Seq(Nat) /\ Len(r) = Len(p) - 2
                      /\ \A k \in 1 .. Len(p) - 2 : r[k] = p[IF k < 7 THEN k ELSE k + 2]
  BY <1>1, SMT DEF ETH, VLAN
<1>3. moved \in Seq(Nat) /\ Len(moved) = Len(p) - 2 /\ \A k \in 1 .. Len(p) - 2 : moved[k] = p[k + 2]
  <2>1. moved = SubSeq(p, 3, Len(p))
    BY SMT DEF bpf_xdp_adjust_head, VLAN
  <2> QED BY <1>2, <2>1, SMT
<1>4. header \in Seq(Nat) /\ Len(header) = 7 /\ \A k \in 1 .. 7 : header[k] = p[k]
  <2>1. Len(p) >= 7
    BY <1>2, SMT
  <2> QED BY <2>1, HeaderUnits
<1> HIDE DEF moved, header
<1>5. Len(header) <= Len(moved)
  BY <1>2, <1>3, <1>4, SMT
<1>6. /\ q \in Seq(Nat) /\ Len(q) = Len(moved)
      /\ \A k \in 1 .. Len(moved) : q[k] = IF k <= Len(header) THEN header[k] ELSE moved[k]
  BY <1>3, <1>4, <1>5, MemcpyUnits, ZenonT(60)
<1> HIDE DEF q
<1>7. r \in Seq(Nat) /\ Len(r) = Len(p) - 2 /\ r[7] = p[9] /\ \A k \in 1 .. Len(p) - 2 : k # 7 => r[k] = q[k]
  <2>1. q \in Seq(Nat) /\ Len(q) = Len(p) - 2 /\ p[9] \in Nat
    BY <1>2, <1>3, <1>6, SMT
  <2> QED BY <1>2, <2>1, SMT
<1> HIDE DEF r
<1>8. ASSUME NEW k \in 1 .. Len(p) - 2 PROVE r[k] = p[IF k < 7 THEN k ELSE k + 2]
  <2>0. Len(p) \in Nat /\ Len(header) = 7 /\ Len(moved) = Len(p) - 2
    BY <1>3, <1>4, SMT
  <2>1. CASE k < 7
    <3>1. k \in 1 .. Len(moved) /\ k <= Len(header) /\ k \in 1 .. 7 /\ k # 7
      BY <2>0, <2>1, SMT
    <3> QED BY <2>1, <3>1, <1>4, <1>6, <1>7
  <2>2. CASE k = 7
    <3>1. ~ (k < 7) /\ k + 2 = 9
      BY <2>2, SMT
    <3> QED BY <2>2, <3>1, <1>7
  <2>3. CASE k > 7
    <3>1. k \in 1 .. Len(moved) /\ ~ (k <= Len(header)) /\ ~ (k < 7) /\ k # 7
      BY <2>0, <2>3, SMT
    <3> QED BY <3>1, <1>3, <1>6, <1>7
  <2> QED BY <2>1, <2>2, <2>3, SMT
<1> QED BY <1>7, <1>8

\* Where a unit comes from when the addresses are swapped.
SwappedFrom(k) == IF k <= 3 THEN k + 3 ELSE IF k <= 6 THEN k - 3 ELSE k

\* Units of a packet whose addresses were swapped.
LEMMA SwapUnits ==
  ASSUME NEW p \in Seq(Nat), Len(p) >= ETH
  PROVE  LET r == swap_src_dst_mac(p)
         IN  /\ r \in Seq(Nat)
             /\ Len(r) = Len(p)
             /\ \A k \in 1 .. Len(p) : r[k] = p[SwappedFrom(k)]
<1> DEFINE first == SubSeq(p, 1, 3)
           second == SubSeq(p, 4, 6)
           s == second \o first
<1>0. Len(p) >= 7
  BY DEF ETH
<1>1. first \in Seq(Nat) /\ Len(first) = 3 /\ \A k \in 1 .. 3 : first[k] = p[k]
  BY <1>0, HeaderUnits
<1>2. second \in Seq(Nat) /\ Len(second) = 3 /\ \A k \in 1 .. 3 : second[k] = p[k + 3]
  BY <1>0, HeaderUnits
<1>3. swap_src_dst_mac(p) = memcpy(p, s)
  BY DEF swap_src_dst_mac
<1> HIDE DEF first, second
<1>4. /\ s \in Seq(Nat) /\ Len(s) = Len(second) + Len(first)
      /\ \A k \in 1 .. Len(second) : s[k] = second[k]
      /\ \A k \in 1 .. Len(first) : s[Len(second) + k] = first[k]
  BY <1>1, <1>2, ConcatUnits
<1> HIDE DEF s
<1>5. Len(s) = 6 /\ Len(s) <= Len(p)
  <2>1. Len(s) = 6
    <3>1. Len(s) = Len(second) + Len(first) /\ Len(first) = 3 /\ Len(second) = 3
      BY <1>1, <1>2, <1>4
    <3> QED BY <3>1, SMT
  <2> QED BY <2>1, <1>0, SMT
<1>6. /\ memcpy(p, s) \in Seq(Nat) /\ Len(memcpy(p, s)) = Len(p)
      /\ \A k \in 1 .. Len(p) : memcpy(p, s)[k] = IF k <= Len(s) THEN s[k] ELSE p[k]
  BY <1>4, <1>5, MemcpyUnits, ZenonT(60)
<1>7. ASSUME NEW k \in 1 .. Len(p) PROVE memcpy(p, s)[k] = p[SwappedFrom(k)]
  <2>1. CASE k <= 3
    <3>1. k <= Len(s) /\ k \in 1 .. Len(second) /\ k \in 1 .. 3
      BY <2>1, <1>2, <1>5, SMT
    <3> QED BY <2>1, <3>1, <1>2, <1>4, <1>6 DEF SwappedFrom
  <2>2. CASE k \in 4 .. 6
    <3>1. /\ k <= Len(s) /\ k - 3 \in 1 .. Len(first) /\ k - 3 \in 1 .. 3 /\ Len(second) + (k - 3) = k
          /\ ~ (k <= 3) /\ k <= 6
      <4>1. Len(first) = 3 /\ Len(second) = 3 /\ Len(s) = 6
        BY <1>1, <1>2, <1>5
      <4> QED BY <2>2, <4>1, SMT
    <3>2. memcpy(p, s)[k] = s[k]
      BY <3>1, <1>6
    <3>3. s[Len(second) + (k - 3)] = first[k - 3]
      BY <3>1, <1>4
    <3>4. s[k] = first[k - 3]
      BY <3>1, <3>3
    <3>5. first[k - 3] = p[k - 3]
      BY <3>1, <1>1
    <3>6. SwappedFrom(k) = k - 3
      BY <3>1 DEF SwappedFrom
    <3> QED BY <3>2, <3>4, <3>5, <3>6
  <2>3. CASE k > 6
    <3>1. ~ (k <= Len(s)) /\ ~ (k <= 3) /\ ~ (k <= 6)
      BY <2>3, <1>5, SMT
    <3> QED BY <3>1, <1>6 DEF SwappedFrom
  <2> QED BY <2>1, <2>2, <2>3, SMT
<1>8. memcpy(p, s) \in Seq(Nat) /\ Len(memcpy(p, s)) = Len(p)
  BY <1>6
<1> QED BY <1>3, <1>7, <1>8

\* vlan_tag_pop takes back what vlan_tag_push did to any packet.
LEMMA PopAfterPush ==
  ASSUME NEW p \in Seq(Nat), Len(p) >= ETH, NEW tci \in Nat
  PROVE  vlan_tag_pop(Pushed(p, tci)) = [pkt |-> p, ret |-> bpf_ntohs(tci)]
<1> DEFINE q == Pushed(p, tci)
           r == vlan_tag_pop(q)
<1>1. /\ q \in Seq(Nat) /\ Len(q) = Len(p) + 2 /\ q[7] = TagProto /\ q[8] = tci
      /\ \A k \in 1 .. Len(p) : q[IF k < 7 THEN k ELSE k + 2] = p[k]
  BY PushedUnits DEF ETH
<1> HIDE DEF q
<1>2. Len(q) >= ETH /\ ETH + VLAN <= Len(q) /\ Len(q) - 2 = Len(p) /\ ~ (ETH + VLAN > Len(q)) /\ 7 + 1 = 8
  BY <1>1, SMT DEF ETH, VLAN
<1>3. proto_is_vlan(q[ETH])
  BY <1>1 DEF proto_is_vlan, ETH, TagProto
<1>4. /\ r.ret = bpf_ntohs(q[ETH + 1]) /\ r.pkt \in Seq(Nat) /\ Len(r.pkt) = Len(q) - VLAN
      /\ \A k \in 1 .. Len(q) - VLAN : r.pkt[k] = q[IF k < ETH THEN k ELSE k + VLAN]
  <2>1. q \in Seq(Nat)
    BY <1>1
  <2> QED BY <2>1, <1>2, <1>3, PopUnits
<1>5. r = [pkt |-> r.pkt, ret |-> r.ret]
  BY <1>2, <1>3 DEF vlan_tag_pop
<1> HIDE DEF r
<1>6. \A k \in 1 .. Len(p) : r.pkt[k] = p[k]
  BY <1>1, <1>2, <1>4 DEF ETH, VLAN
<1>7. r.pkt \in Seq(Nat) /\ Len(r.pkt) = Len(p) /\ r.ret = bpf_ntohs(tci)
  BY <1>1, <1>2, <1>4 DEF ETH, VLAN
<1>8. r.pkt = p
  BY <1>6, <1>7, SameUnits
<1> QED BY <1>5, <1>7, <1>8 DEF q, r

----------------------------------------------------------------------------
(***************************************************************************)
(* The packet helpers, for any frames, tags and headroom.                  *)
(***************************************************************************)

\* A header is only rewritten behind the Ethernet header, which a cursor that
\* has moved has passed.
PacketInv == pkt \in Seq(Nat) /\ pos \in 0 .. Len(pkt) /\ (pos = 0 \/ pos >= ETH)

\* parse_ethhdr_vlan skips a tag only if the packet holds it whole.
LEMMA SkippedFits ==
  ASSUME NEW p \in Seq(Nat), Len(p) >= ETH
  PROVE  Skipped(p) \in 0 .. 2 /\ ETH + VLAN * Skipped(p) <= Len(p)
BY SMT DEF Skipped, TagAt, ETH, VLAN, VLAN_MAX_DEPTH

\* A parser moves the cursor forwards and not past data_end.
LEMMA ParsersFit ==
  ASSUME NEW at \in Nat, NEW end \in Nat, NEW size \in Nat, NEW words \in Nat
  PROVE  /\ parse_fixed(at, end, size) = -1 \/ parse_fixed(at, end, size) \in at .. end
         /\ parse_variable(at, end, size, words) = -1 \/ parse_variable(at, end, size, words) \in at .. end
BY SMT DEF parse_fixed, parse_variable

\* Moving the cursor by what a parser returned keeps the invariant.
LEMMA MoveInv ==
  ASSUME PacketInv, NEW to, to = -1 \/ to \in pos .. Len(pkt), Move(to)
  PROVE  PacketInv'
<1>1. pkt' = pkt /\ pos > 0 /\ (pos' = pos \/ pos' \in pos .. Len(pkt))
  BY DEF Move
<1> QED BY <1>1, SMT DEF PacketInv, ETH

\* The packets that the rewriting helpers leave.
LEMMA RewritesInv ==
  ASSUME NEW p \in Seq(Nat), Len(p) >= ETH
  PROVE  /\ vlan_tag_pop(p).pkt \in Seq(Nat)
         /\ \A vlid \in TCIs : vlan_tag_push(p, vlid).pkt \in Seq(Nat)
         /\ swap_src_dst_mac(p) \in Seq(Nat)
<1>1. vlan_tag_pop(p).pkt \in Seq(Nat)
  <2>1. CASE proto_is_vlan(p[ETH]) /\ ETH + VLAN <= Len(p)
    BY <2>1, PopUnits
  <2>2. CASE ~ (proto_is_vlan(p[ETH]) /\ ETH + VLAN <= Len(p))
    <3>1. ETH + VLAN <= Len(p) \/ ETH + VLAN > Len(p)
      BY SMT DEF ETH, VLAN
    <3> QED BY <2>2, <3>1, SMT DEF vlan_tag_pop
  <2> QED BY <2>1, <2>2
<1>2. ASSUME NEW vlid \in TCIs PROVE vlan_tag_push(p, vlid).pkt \in Seq(Nat)
  <2>1. bpf_htons(vlid) \in Nat
    BY HtonsUnit, PacketsAssumption
  <2>2. Len(p) >= 7
    BY DEF ETH
  <2>3. Pushed(p, bpf_htons(vlid)) \in Seq(Nat)
    BY <2>1, <2>2, PushedUnits
  <2> QED BY <2>3, PushResult
<1> QED BY <1>1, <1>2, SwapUnits

\* Every helper keeps the invariant.
LEMMA PacketStep == PacketInv /\ [PacketNext]_packet => PacketInv'
<1> SUFFICES ASSUME PacketInv, [PacketNext]_packet PROVE PacketInv'
  OBVIOUS
<1>0. pkt \in Seq(Nat) /\ Len(pkt) \in Nat /\ pos \in Nat
  BY SMT DEF PacketInv
<1>1. CASE UNCHANGED packet
  BY <1>1 DEF PacketInv, packet
<1>2. CASE parse_ethhdr_vlan
  <2>1. CASE ETH > Len(pkt)
    BY <1>2, <2>1 DEF parse_ethhdr_vlan, PacketInv
  <2>2. CASE ~ (ETH > Len(pkt))
    <3>1. pkt' = pkt /\ pos' = ETH + VLAN * Skipped(pkt)
      BY <1>2, <2>2 DEF parse_ethhdr_vlan
    <3>2. Len(pkt) >= ETH
      BY <1>0, <2>2, SMT DEF ETH
    <3>3. Skipped(pkt) \in 0 .. 2 /\ ETH + VLAN * Skipped(pkt) <= Len(pkt)
      BY <1>0, <3>2, SkippedFits
    <3>4. pos' \in 0 .. Len(pkt) /\ pos' >= ETH
      BY <1>0, <3>1, <3>3, SMT DEF ETH, VLAN
    <3> QED BY <1>0, <3>1, <3>4 DEF PacketInv
  <2> QED BY <2>1, <2>2
<1>3. CASE parse_ip6hdr \/ parse_icmphdr \/ parse_icmphdr_common
  <2>1. IPV6 \in Nat /\ ICMP \in Nat /\ ICMP_COMMON \in Nat /\ 0 \in Nat
    BY SMT DEF IPV6, ICMP, ICMP_COMMON
  <2> QED BY <1>0, <1>3, <2>1, MoveInv, ParsersFit DEF parse_ip6hdr, parse_icmphdr, parse_icmphdr_common
<1>4. CASE parse_iphdr \/ parse_tcphdr
  <2>1. IPV4 \in Nat /\ TCP \in Nat /\ 0 .. 15 \subseteq Nat
    BY SMT DEF IPV4, TCP
  <2> QED BY <1>0, <1>4, <2>1, MoveInv, ParsersFit DEF parse_iphdr, parse_tcphdr
<1>5. CASE parse_udphdr
  <2>1. pkt' = pkt /\ pos > 0 /\ (pos' = pos \/ (pos' = pos + 4 /\ parse_fixed(pos, Len(pkt), 4) # -1))
    BY <1>5 DEF parse_udphdr, UDP
  <2>2. pos' = pos \/ pos' \in pos .. Len(pkt)
    BY <1>0, <2>1, SMT DEF parse_fixed
  <2> QED BY <2>1, <2>2, SMT DEF PacketInv, ETH
<1>6. ASSUME NEW result, Rewrite(result), result.pkt \in Seq(Nat) PROVE PacketInv'
  <2>1. pkt' \in Seq(Nat) /\ pos' = 0
    BY <1>6 DEF Rewrite
  <2> QED BY <2>1, SMT DEF PacketInv
<1>7. ASSUME pos > 0 PROVE Len(pkt) >= ETH
  BY <1>7, SMT DEF PacketInv, ETH
<1>8. CASE Pop
  BY <1>0, <1>6, <1>7, <1>8, RewritesInv DEF Pop, Rewrite
<1>9. CASE Push
  BY <1>0, <1>6, <1>7, <1>9, RewritesInv DEF Push, Rewrite
<1>10. CASE Swap
  <2>1. swap_src_dst_mac(pkt) \in Seq(Nat)
    BY <1>0, <1>7, <1>10, SwapUnits DEF Swap, Rewrite
  <2> QED BY <2>1, <1>6, <1>10 DEF Swap
<1> QED BY <1>1, <1>2, <1>3, <1>4, <1>5, <1>8, <1>9, <1>10 DEF PacketNext

\* The invariant holds of every packet that is received.
LEMMA PacketStart == PacketInit => PacketInv
<1> SUFFICES ASSUME PacketInit PROVE PacketInv
  OBVIOUS
<1>1. pkt \in Seq(Nat) /\ pos = 0
  BY PacketsAssumption DEF PacketInit
<1> QED BY <1>1, SMT DEF PacketInv

\* Whatever a packet claims about its headers, and however often it is
\* rewritten and parsed anew, the cursor never passes data_end.
THEOREM CursorStaysWithin == PacketSpec => []CursorWithin
<1>1. PacketInv => CursorWithin
  BY SMT DEF PacketInv, CursorWithin
<1> QED BY <1>1, PacketStart, PacketStep, PTL DEF PacketSpec

\* vlan_tag_pop takes back exactly what vlan_tag_push did to the packet, at
\* every point of a program's run.
THEOREM PopAlwaysUndoesPush == PacketSpec => []PopUndoesPush
<1>1. ASSUME PacketInv PROVE PopUndoesPush
  <2> SUFFICES ASSUME Len(pkt) \in ETH .. MaxUnits - VLAN, NEW vlid \in TCIs
               PROVE  LET back == vlan_tag_pop(vlan_tag_push(pkt, vlid).pkt)
                      IN  back.pkt = pkt /\ (vlid \in 0 .. VLAN_VID_MASK => back.ret = vlid)
    BY DEF PopUndoesPush
  <2>1. pkt \in Seq(Nat) /\ bpf_htons(vlid) \in Nat
    BY <1>1, HtonsUnit, PacketsAssumption DEF PacketInv
  <2>2. Len(pkt) >= ETH /\ ~ (Len(pkt) + VLAN > MaxUnits)
    BY <2>1, PacketsAssumption, SMT DEF ETH, VLAN
  <2>3. vlan_tag_push(pkt, vlid).pkt = Pushed(pkt, bpf_htons(vlid))
    BY <2>2, PushResult
  <2>4. vlan_tag_pop(Pushed(pkt, bpf_htons(vlid))) = [pkt |-> pkt, ret |-> bpf_ntohs(bpf_htons(vlid))]
    BY <2>1, <2>2, PopAfterPush
  <2>5. ASSUME vlid \in 0 .. VLAN_VID_MASK PROVE bpf_ntohs(bpf_htons(vlid)) = vlid
    BY <2>5, NtohsBack
  <2> DEFINE back == vlan_tag_pop(vlan_tag_push(pkt, vlid).pkt)
             id == bpf_ntohs(bpf_htons(vlid))
  <2>6. back = [pkt |-> pkt, ret |-> id]
    BY <2>3, <2>4
  <2> HIDE DEF back, id
  <2>7. back.pkt = pkt /\ back.ret = id
    BY <2>6
  <2>8. vlid \in 0 .. VLAN_VID_MASK => back.ret = vlid
    BY <2>5, <2>7 DEF id
  <2> QED BY <2>7, <2>8 DEF back
<1> QED BY <1>1, PacketStart, PacketStep, PTL DEF PacketSpec

\* One packet ends with the units of another.
LEMMA SuffixUnits ==
  ASSUME NEW p \in Seq(Nat), NEW q \in Seq(Nat), Len(p) <= Len(q),
         \A k \in 1 .. Len(p) : p[k] = q[Len(q) - Len(p) + k]
  PROVE  EndsWith(q, p)
<1> DEFINE d == Len(q) - Len(p)
           a == SubSeq(q, d + 1, Len(q))
<1>1. Len(p) \in Nat /\ Len(q) \in Nat /\ d \in Nat /\ d + Len(p) = Len(q)
  BY SMT
<1>2. \A k \in 1 .. Len(p) : p[k] = q[d + k]
  OBVIOUS
<1> HIDE DEF d
<1>3. a \in Seq(Nat)
  BY <1>1, SMT
<1>4. Len(a) = Len(p)
  BY <1>1, SMT
<1>5. \A k \in 1 .. Len(p) : a[k] = q[d + k]
  BY <1>1, SMT
<1>6. a = p
  <2> HIDE DEF a
  <2> QED BY <1>2, <1>3, <1>4, <1>5, SameUnits
<1> QED BY <1>6 DEF EndsWith, d

\* The protocol field and all that follows.
LEMMA FromProtoUnits ==
  ASSUME NEW p \in Seq(Nat), Len(p) >= 7
  PROVE  /\ FromProto(p) \in Seq(Nat)
         /\ Len(FromProto(p)) = Len(p) - 6 /\ \A k \in 1 .. Len(p) - 6 : FromProto(p)[k] = p[k + 6]
<1>1. SubSeq(p, 7, Len(p)) \in Seq(Nat)
  BY SMT
<1>2. Len(SubSeq(p, 7, Len(p))) = Len(p) - 6
  BY SMT
<1>3. \A k \in 1 .. Len(p) - 6 : SubSeq(p, 7, Len(p))[k] = p[k + 6]
  BY SMT
<1> QED BY <1>1, <1>2, <1>3 DEF FromProto, ETH

\* A packet that is longer by d units in front of its protocol.
LEMMA TailKept ==
  ASSUME NEW p \in Seq(Nat), NEW q \in Seq(Nat), Len(p) >= 7, NEW d \in Nat, Len(q) = Len(p) + d,
         \A k \in 7 .. Len(p) : q[k + d] = p[k]
  PROVE  EndsWith(FromProto(q), FromProto(p))
<1> DEFINE a == FromProto(p)
           b == FromProto(q)
<1>1. Len(p) \in Nat /\ Len(q) \in Nat /\ Len(q) >= 7
  BY SMT
<1>2. a \in Seq(Nat) /\ Len(a) = Len(p) - 6 /\ \A k \in 1 .. Len(p) - 6 : a[k] = p[k + 6]
  BY FromProtoUnits
<1>3. b \in Seq(Nat) /\ Len(b) = Len(q) - 6 /\ \A k \in 1 .. Len(q) - 6 : b[k] = q[k + 6]
  BY <1>1, FromProtoUnits
<1> HIDE DEF a, b
<1>4. Len(a) <= Len(b)
  BY <1>1, <1>2, <1>3, SMT
<1>5. ASSUME NEW k \in 1 .. Len(a) PROVE a[k] = b[Len(b) - Len(a) + k]
  <2>1. Len(a) = Len(p) - 6 /\ Len(b) = Len(q) - 6
    BY <1>2, <1>3
  <2>2. /\ k \in 1 .. Len(p) - 6 /\ k + 6 \in 7 .. Len(p)
        /\ Len(b) - Len(a) + k \in 1 .. Len(q) - 6 /\ (Len(b) - Len(a) + k) + 6 = (k + 6) + d
    BY <1>1, <2>1, SMT
  <2> QED BY <2>2, <1>2, <1>3
<1> QED BY <1>2, <1>3, <1>4, <1>5, SuffixUnits DEF a, b

\* The two addresses swap places.
LEMMA SwapsBack ==
  \A k \in 1 .. 3 : k \in 1 .. 6 /\ k + 3 \in 1 .. 6 /\ SwappedFrom(k) = k + 3 /\ SwappedFrom(k + 3) = k
<1> SUFFICES ASSUME NEW k \in 1 .. 3
             PROVE  k \in 1 .. 6 /\ k + 3 \in 1 .. 6 /\ SwappedFrom(k) = k + 3 /\ SwappedFrom(k + 3) = k
  OBVIOUS
<1>1. k \in 1 .. 6 /\ k + 3 \in 1 .. 6 /\ k <= 3 /\ ~ (k + 3 <= 3) /\ k + 3 <= 6 /\ (k + 3) - 3 = k
  BY SMT
<1> QED BY <1>1 DEF SwappedFrom

\* Two packets whose addresses are the same, unit by unit, or swapped.
LEMMA MACsKept ==
  ASSUME NEW p \in Seq(Nat), NEW q \in Seq(Nat), Len(p) >= 7, Len(q) >= 7,
         \/ \A k \in 1 .. 6 : q[k] = p[k]
         \/ \A k \in 1 .. 6 : q[k] = p[SwappedFrom(k)]
  PROVE  MACs(q) = MACs(p)
<1> DEFINE a == SubSeq(p, 1, 3)
           b == SubSeq(p, 4, 6)
           c == SubSeq(q, 1, 3)
           e == SubSeq(q, 4, 6)
<1>1. /\ a \in Seq(Nat) /\ Len(a) = 3 /\ \A k \in 1 .. 3 : a[k] = p[k]
      /\ b \in Seq(Nat) /\ Len(b) = 3 /\ \A k \in 1 .. 3 : b[k] = p[k + 3]
  BY HeaderUnits
<1>2. /\ c \in Seq(Nat) /\ Len(c) = 3 /\ \A k \in 1 .. 3 : c[k] = q[k]
      /\ e \in Seq(Nat) /\ Len(e) = 3 /\ \A k \in 1 .. 3 : e[k] = q[k + 3]
  BY HeaderUnits
<1>3. \A k \in 1 .. 3 : k \in 1 .. 6 /\ k + 3 \in 1 .. 6
  BY SwapsBack
<1>4. \A k \in 1 .. 3 : SwappedFrom(k) = k + 3 /\ SwappedFrom(k + 3) = k
  BY SwapsBack
<1> HIDE DEF a, b, c, e
<1>5. CASE \A k \in 1 .. 6 : q[k] = p[k]
  <2>1. \A k \in 1 .. 3 : c[k] = a[k] /\ e[k] = b[k]
    BY <1>1, <1>2, <1>3, <1>5
  <2>2. c = a
    BY <1>1, <1>2, <2>1, SameUnits, ZenonT(60)
  <2>3. e = b
    BY <1>1, <1>2, <2>1, SameUnits, ZenonT(60)
  <2> QED BY <2>2, <2>3 DEF MACs, a, b, c, e
<1>6. CASE \A k \in 1 .. 6 : q[k] = p[SwappedFrom(k)]
  <2>1. ASSUME NEW k \in 1 .. 3 PROVE c[k] = b[k] /\ e[k] = a[k]
    <3>1. q[k] = p[k + 3] /\ q[k + 3] = p[k]
      BY <1>3, <1>4, <1>6
    <3> QED BY <3>1, <1>1, <1>2
  <2>2. c = b
    BY <1>1, <1>2, <2>1, SameUnits, ZenonT(60)
  <2>3. e = a
    BY <1>1, <1>2, <2>1, SameUnits, ZenonT(60)
  <2> QED BY <2>2, <2>3 DEF MACs, a, b, c, e
<1> QED BY <1>5, <1>6

\* What RewriteKeeps asks of a packet p that becomes q.
Keeps(p, q) ==
  /\ MACs(q) = MACs(p)
  /\ EndsWith(FromProto(p), FromProto(q)) \/ EndsWith(FromProto(q), FromProto(p))

\* A packet is kept by a helper that refuses it.
LEMMA SameKeeps ==
  ASSUME NEW p \in Seq(Nat), Len(p) >= 7
  PROVE  Keeps(p, p)
<1>1. 0 \in Nat /\ Len(p) = Len(p) + 0 /\ \A k \in 7 .. Len(p) : k + 0 = k
  BY SMT
<1> QED BY <1>1, TailKept DEF Keeps

\* Each rewriting helper keeps the addresses and what is behind the tags.
LEMMA PushKeeps ==
  ASSUME NEW p \in Seq(Nat), Len(p) >= 7, NEW vlid \in Int
  PROVE  Keeps(p, vlan_tag_push(p, vlid).pkt)
<1> DEFINE q == Pushed(p, bpf_htons(vlid))
<1>0. bpf_htons(vlid) \in Nat
  BY HtonsUnit
<1>1. /\ q \in Seq(Nat) /\ Len(q) = Len(p) + 2
      /\ \A k \in 1 .. Len(p) : q[IF k < 7 THEN k ELSE k + 2] = p[k]
  BY <1>0, PushedUnits
<1> HIDE DEF q
<1>2. Len(p) \in Nat /\ Len(q) >= 7 /\ 2 \in Nat
  BY <1>1, SMT
<1>3. \A k \in 1 .. 6 : k \in 1 .. Len(p) /\ k < 7
  BY <1>2, SMT
<1>4. \A k \in 7 .. Len(p) : k \in 1 .. Len(p) /\ ~ (k < 7)
  BY <1>2, SMT
<1>5. \A k \in 1 .. 6 : q[k] = p[k]
  BY <1>1, <1>3
<1>6. \A k \in 7 .. Len(p) : q[k + 2] = p[k]
  BY <1>1, <1>4
<1>7. MACs(q) = MACs(p)
  BY <1>1, <1>2, <1>5, MACsKept
<1>8. EndsWith(FromProto(q), FromProto(p))
  BY <1>1, <1>2, <1>6, TailKept
<1>9. Keeps(p, q)
  BY <1>7, <1>8 DEF Keeps
<1>10. vlan_tag_push(p, vlid).pkt \in {p, q}
  BY PushResult DEF q
<1> QED BY <1>9, <1>10, SameKeeps

\* The same for vlan_tag_pop.
LEMMA PopKeeps ==
  ASSUME NEW p \in Seq(Nat), Len(p) >= 7
  PROVE  Keeps(p, vlan_tag_pop(p).pkt)
<1> DEFINE q == vlan_tag_pop(p).pkt
<1>0. Len(p) \in Nat /\ Len(p) >= ETH /\ (ETH + VLAN <= Len(p) \/ ETH + VLAN > Len(p))
  BY SMT DEF ETH, VLAN
<1>1. CASE proto_is_vlan(p[ETH]) /\ ETH + VLAN <= Len(p)
  <2>1. /\ q \in Seq(Nat) /\ Len(q) = Len(p) - VLAN
        /\ \A k \in 1 .. Len(p) - VLAN : q[k] = p[IF k < ETH THEN k ELSE k + VLAN]
    BY <1>0, <1>1, PopUnits
  <2>2. /\ q \in Seq(Nat) /\ Len(q) = Len(p) - 2
        /\ \A k \in 1 .. Len(p) - 2 : q[k] = p[IF k < 7 THEN k ELSE k + 2]
    BY <2>1 DEF ETH, VLAN
  <2>3. Len(p) >= 9
    BY <1>0, <1>1, SMT DEF ETH, VLAN
  <2> HIDE DEF q
  <2>4. Len(q) >= 7 /\ Len(p) = Len(q) + 2 /\ 2 \in Nat
    BY <1>0, <2>2, <2>3, SMT
  <2>5. \A k \in 1 .. 6 : k \in 1 .. Len(p) - 2 /\ k < 7
    BY <1>0, <2>3, SMT
  <2>6. \A k \in 7 .. Len(q) : k \in 1 .. Len(p) - 2 /\ ~ (k < 7)
    BY <1>0, <2>2, SMT
  <2>7. \A k \in 1 .. 6 : q[k] = p[k]
    BY <2>2, <2>5
  <2>8. \A k \in 7 .. Len(q) : p[k + 2] = q[k]
    BY <2>2, <2>6
  <2>9. MACs(q) = MACs(p)
    BY <2>2, <2>4, <2>7, MACsKept
  <2>10. EndsWith(FromProto(p), FromProto(q))
    BY <2>2, <2>4, <2>8, TailKept
  <2> QED BY <2>9, <2>10 DEF Keeps, q
<1>2. CASE ~ (proto_is_vlan(p[ETH]) /\ ETH + VLAN <= Len(p))
  <2>1. q = p
    BY <1>0, <1>2, SMT DEF vlan_tag_pop
  <2> QED BY <2>1, SameKeeps
<1> QED BY <1>1, <1>2

\* The same for swap_src_dst_mac.
LEMMA SwapKeeps ==
  ASSUME NEW p \in Seq(Nat), Len(p) >= 7
  PROVE  Keeps(p, swap_src_dst_mac(p))
<1> DEFINE q == swap_src_dst_mac(p)
<1>1. q \in Seq(Nat) /\ Len(q) = Len(p) /\ \A k \in 1 .. Len(p) : q[k] = p[SwappedFrom(k)]
  BY SwapUnits DEF ETH
<1> HIDE DEF q
<1>2. Len(q) >= 7 /\ Len(q) = Len(p) + 0 /\ 0 \in Nat
  BY <1>1, SMT
<1>3. \A k \in 1 .. 6 : k \in 1 .. Len(p)
  BY SMT
<1>4. \A k \in 7 .. Len(p) : k \in 1 .. Len(p) /\ k + 0 = k /\ SwappedFrom(k) = k
  BY SMT DEF SwappedFrom
<1>5. \A k \in 1 .. 6 : q[k] = p[SwappedFrom(k)]
  BY <1>1, <1>3
<1>6. \A k \in 7 .. Len(p) : q[k + 0] = p[k]
  BY <1>1, <1>4
<1>7. MACs(q) = MACs(p)
  BY <1>1, <1>2, <1>5, MACsKept
<1>8. EndsWith(FromProto(q), FromProto(p))
  BY <1>1, <1>2, <1>6, TailKept
<1> QED BY <1>7, <1>8 DEF Keeps, q

\* However tags are pushed and popped and addresses swapped, a packet keeps
\* both its addresses and everything behind the tags.
THEOREM RewritesKeep == PacketSpec => RewriteKeeps
<1> DEFINE Kept == pos > 0 /\ pos' = 0 => Keeps(pkt, pkt')
<1>1. ASSUME PacketInv, [PacketNext]_packet PROVE [Kept]_packet
  <2> SUFFICES ASSUME PacketNext, pos > 0, pos' = 0 PROVE Keeps(pkt, pkt')
    BY <1>1
  <2>0. pkt \in Seq(Nat) /\ pos \in Nat /\ Len(pkt) \in Nat
    BY <1>1, SMT DEF PacketInv
  <2>1. Len(pkt) >= 7
    BY <1>1, SMT DEF PacketInv, ETH
  <2>2. ASSUME NEW to, Move(to), to = -1 \/ to \in pos .. Len(pkt) PROVE FALSE
    <3>1. pos' = pos \/ pos' \in pos .. Len(pkt)
      BY <2>2 DEF Move
    <3> QED BY <2>0, <3>1, SMT
  <2>3. ~ parse_ethhdr_vlan
    <3>1. ~ (pos = 0)
      BY <2>0, SMT
    <3> QED BY <3>1 DEF parse_ethhdr_vlan
  <2>4. ~ (parse_ip6hdr \/ parse_icmphdr \/ parse_icmphdr_common)
    <3>1. IPV6 \in Nat /\ ICMP \in Nat /\ ICMP_COMMON \in Nat /\ 0 \in Nat
      BY SMT DEF IPV6, ICMP, ICMP_COMMON
    <3> QED BY <2>0, <2>2, <3>1, ParsersFit DEF parse_ip6hdr, parse_icmphdr, parse_icmphdr_common
  <2>5. ~ (parse_iphdr \/ parse_tcphdr)
    <3>1. IPV4 \in Nat /\ TCP \in Nat /\ 0 .. 15 \subseteq Nat
      BY SMT DEF IPV4, TCP
    <3> QED BY <2>0, <2>2, <3>1, ParsersFit DEF parse_iphdr, parse_tcphdr
  <2>6. ~ parse_udphdr
    <3>1. ASSUME parse_udphdr PROVE pos' = pos \/ pos' = pos + 4
      BY <3>1 DEF parse_udphdr, UDP
    <3> QED BY <2>0, <3>1, SMT
  <2>7. CASE Pop
    <3>1. pkt' = vlan_tag_pop(pkt).pkt
      BY <2>7 DEF Pop, Rewrite
    <3> QED BY <3>1, <2>0, <2>1, PopKeeps
  <2>8. CASE Push
    <3>1. PICK vlid \in TCIs : pkt' = vlan_tag_push(pkt, vlid).pkt
      BY <2>8 DEF Push, Rewrite
    <3>2. vlid \in Int
      BY PacketsAssumption
    <3> QED BY <3>1, <3>2, <2>0, <2>1, PushKeeps
  <2>9. CASE Swap
    <3>1. pkt' = swap_src_dst_mac(pkt)
      BY <2>9, SMT DEF Swap, Rewrite
    <3> QED BY <3>1, <2>0, <2>1, SwapKeeps
  <2> QED BY <2>3, <2>4, <2>5, <2>6, <2>7, <2>8, <2>9 DEF PacketNext
<1>2. [][Kept]_packet => RewriteKeeps
  BY PTL DEF RewriteKeeps, Keeps
<1> HIDE DEF Kept
<1> QED BY <1>1, <1>2, PacketStart, PacketStep, PTL DEF PacketSpec

\* The places that parse_ethhdr_vlan may stop at: behind whole tags only.
Stops(p) ==
  {e \in {ETH + VLAN * n : n \in 0 .. VLAN_MAX_DEPTH} :
     e <= Len(p) /\ \A k \in ETH .. e - 1 : (k - ETH) % VLAN = 0 => proto_is_vlan(p[k])}

\* Where a stop stands.
LEMMA StopsAt ==
  ASSUME NEW p \in Seq(Nat)
  PROVE  /\ Stops(p) \subseteq {7, 9, 11}
         /\ 7 \in Stops(p) <=> 7 <= Len(p)
         /\ 9 \in Stops(p) <=> 9 <= Len(p) /\ proto_is_vlan(p[7])
         /\ 11 \in Stops(p) <=> 11 <= Len(p) /\ proto_is_vlan(p[7]) /\ proto_is_vlan(p[9])
<1>1. {7 + 2 * n : n \in 0 .. 2} = {7, 9, 11}
  BY SMT
<1>2. 7 .. 7 - 1 = {} /\ 7 .. 9 - 1 = {7, 8} /\ 7 .. 11 - 1 = {7, 8, 9, 10}
  BY SMT
<1>3. (7 - 7) % 2 = 0 /\ (8 - 7) % 2 # 0 /\ (9 - 7) % 2 = 0 /\ (10 - 7) % 2 # 0
  BY SMT
<1> DEFINE Reached(e) == e <= Len(p) /\ \A k \in 7 .. e - 1 : (k - 7) % 2 = 0 => proto_is_vlan(p[k])
<1>4. Stops(p) = {e \in {7, 9, 11} : Reached(e)}
  BY <1>1 DEF Stops, ETH, VLAN, VLAN_MAX_DEPTH
<1>5. Reached(7) <=> 7 <= Len(p)
  BY <1>2
<1>6. Reached(9) <=> 9 <= Len(p) /\ proto_is_vlan(p[7])
  BY <1>2, <1>3
<1>7. Reached(11) <=> 11 <= Len(p) /\ proto_is_vlan(p[7]) /\ proto_is_vlan(p[9])
  BY <1>2, <1>3
<1> HIDE DEF Reached
<1> QED BY <1>4, <1>5, <1>6, <1>7

\* The last element of a set of numbers.
LEMMA MaxIs ==
  ASSUME NEW S, S \subseteq Int, NEW m \in S, \A e \in S : e <= m
  PROVE  Max(S) = m
<1>1. \A e \in S : m >= e
  BY SMT
<1>2. Max(S) \in S /\ \A e \in S : Max(S) >= e
  BY <1>1 DEF Max
<1>3. Max(S) >= m /\ m >= Max(S) /\ Max(S) \in Int
  BY <1>1, <1>2
<1> QED BY <1>3, SMT

\* The loop of parse_ethhdr_vlan ends at the last of them.
LEMMA SkipsToStop ==
  ASSUME NEW p \in Seq(Nat), Len(p) >= 7
  PROVE  Max(Stops(p)) = ETH + VLAN * Skipped(p)
<1>0. Len(p) \in Nat /\ ETH + VLAN = 9 /\ 9 + VLAN = 11
  BY SMT DEF ETH, VLAN
<1>1. TagAt(p, 7) <=> proto_is_vlan(p[7]) /\ 9 <= Len(p)
  <2>1. 7 \in DOMAIN p
    BY SMT
  <2> QED BY <1>0, <2>1 DEF TagAt, At, ETH
<1>2. 9 <= Len(p) => (TagAt(p, 9) <=> proto_is_vlan(p[9]) /\ 11 <= Len(p))
  <2>1. 9 <= Len(p) => 9 \in DOMAIN p
    BY SMT
  <2> QED BY <1>0, <2>1 DEF TagAt, At
<1>3. Stops(p) \subseteq Int
  <2>1. 7 \in Int /\ 9 \in Int /\ 11 \in Int
    BY SMT
  <2> QED BY <2>1, StopsAt
<1>4. CASE ~ TagAt(p, 7)
  <2>1. ETH + VLAN * Skipped(p) = 7
    <3>1. Skipped(p) = 0
      BY <1>4 DEF Skipped, ETH
    <3> QED BY <3>1, SMT DEF ETH, VLAN
  <2>2. 11 <= Len(p) => 9 <= Len(p)
    BY <1>0, SMT
  <2>3. 7 \in Stops(p) /\ \A e \in Stops(p) : e = 7
    BY <1>1, <1>4, <2>2, StopsAt
  <2>4. 7 <= 7
    BY SMT
  <2> QED BY <1>3, <2>1, <2>3, <2>4, MaxIs
<1>5. CASE TagAt(p, 7) /\ ~ TagAt(p, 9)
  <2>1. ETH + VLAN * Skipped(p) = 9
    <3>1. Skipped(p) = 1
      BY <1>0, <1>5 DEF Skipped, ETH
    <3> QED BY <3>1, SMT DEF ETH, VLAN
  <2>2. 9 \in Stops(p) /\ \A e \in Stops(p) : e = 7 \/ e = 9
    BY <1>1, <1>2, <1>5, StopsAt
  <2>3. 7 <= 9 /\ 9 <= 9
    BY SMT
  <2> QED BY <1>3, <2>1, <2>2, <2>3, MaxIs
<1>6. CASE TagAt(p, 7) /\ TagAt(p, 9)
  <2>1. ETH + VLAN * Skipped(p) = 11
    <3>1. Skipped(p) = 2
      BY <1>0, <1>6 DEF Skipped, ETH, VLAN_MAX_DEPTH
    <3> QED BY <3>1, SMT DEF ETH, VLAN
  <2>2. 11 \in Stops(p) /\ \A e \in Stops(p) : e = 7 \/ e = 9 \/ e = 11
    BY <1>1, <1>2, <1>6, StopsAt
  <2>3. 7 <= 11 /\ 9 <= 11 /\ 11 <= 11
    BY SMT
  <2> QED BY <1>3, <2>1, <2>2, <2>3, MaxIs
<1> QED BY <1>4, <1>5, <1>6

\* parse_ethhdr_vlan stops behind as many whole tags as the packet has, at
\* most VLAN_MAX_DEPTH, and returns the protocol that stands before the cursor.
THEOREM TagsAreSkipped == PacketSpec => TagsSkipped
<1> DEFINE Stopped == parse_ethhdr_vlan /\ pos' > 0 =>
                        pos' = Max(Stops(pkt)) /\ ret' = pkt[pos'] /\ Len(vlans') = (pos' - ETH) \div VLAN
<1>1. ASSUME PacketInv, [PacketNext]_packet PROVE [Stopped]_packet
  <2> SUFFICES ASSUME parse_ethhdr_vlan, pos' > 0
               PROVE  pos' = Max(Stops(pkt)) /\ ret' = pkt[pos'] /\ Len(vlans') = (pos' - ETH) \div VLAN
    OBVIOUS
  <2> DEFINE n == Skipped(pkt)
             ids == [k \in 1 .. n |-> Vid(pkt[ETH + VLAN * k - 1])]
  <2>0. pkt \in Seq(Nat) /\ Len(pkt) \in Nat
    BY <1>1, SMT DEF PacketInv
  <2>1. ~ (ETH > Len(pkt))
    <3>1. ASSUME ETH > Len(pkt) PROVE pos' = 0
      BY <3>1 DEF parse_ethhdr_vlan
    <3>2. ~ (0 > 0)
      BY SMT
    <3> QED BY <3>1, <3>2
  <2>2. pos' = ETH + VLAN * n /\ ret' = At(pkt, pos') /\ vlans' = ids
    BY <2>1 DEF parse_ethhdr_vlan
  <2>3. Len(pkt) >= 7 /\ Len(pkt) >= ETH
    BY <2>0, <2>1, SMT DEF ETH
  <2>4. n \in 0 .. 2 /\ ETH + VLAN * n <= Len(pkt)
    BY <2>0, <2>3, SkippedFits
  <2> HIDE DEF n
  <2>5. pos' = Max(Stops(pkt))
    BY <2>0, <2>2, <2>3, SkipsToStop DEF n
  <2>6. ret' = pkt[pos']
    <3>1. pos' \in DOMAIN pkt
      BY <2>0, <2>2, <2>4, SMT DEF ETH, VLAN
    <3> QED BY <2>2, <3>1 DEF At
  <2>7. Len(vlans') = n
    <3>1. n \in Nat
      BY <2>4, SMT
    <3> QED BY <2>2, <3>1, SMT
  <2>8. (pos' - ETH) \div VLAN = n
    BY <2>2, <2>4, SMT DEF ETH, VLAN
  <2> QED BY <2>5, <2>6, <2>7, <2>8
<1>2. [][Stopped]_packet => TagsSkipped
  BY PTL DEF TagsSkipped, Stops
<1> HIDE DEF Stopped
<1> QED BY <1>1, <1>2, PacketStart, PacketStep, PTL DEF PacketSpec

----------------------------------------------------------------------------
(***************************************************************************)
(* The command line of the in-kernel version, for any options.             *)
(***************************************************************************)

\* The fields of a configuration, and what its field bind may hold.
Fields == DOMAIN default_cfg
Binds == {{}, {"copy"}, {"zerocopy"}}

\* The configurations whose other fields have values in U.
Configs(U) == {c \in [Fields -> U \cup Binds] : c["bind"] \in Binds}

\* Every field that an option sets is one of them.
LEMMA FieldNames ==
  /\ "exit" \in Fields /\ "ifindex" \in Fields /\ "redirect_ifindex" \in Fields /\ "mode" \in Fields
  /\ "noexist" \in Fields /\ "do_unload" \in Fields /\ "unload_all" \in Fields /\ "prog_id" \in Fields
  /\ "reuse_maps" \in Fields /\ "poll" \in Fields /\ "queue" \in Fields /\ "verbose" \in Fields
  /\ "bind" \in Fields
BY SMT DEF Fields, default_cfg

\* Setting a field other than bind leaves bind as it is.
LEMMA FieldSet ==
  ASSUME NEW U, NEW c \in Configs(U), NEW field \in Fields, field # "bind", NEW u \in U
  PROVE  [c EXCEPT ![field] = u] \in Configs(U)
<1>1. c \in [Fields -> U \cup Binds] /\ c["bind"] \in Binds
  BY DEF Configs
<1>2. [c EXCEPT ![field] = u] \in [Fields -> U \cup Binds]
  BY <1>1
<1>3. [c EXCEPT ![field] = u]["bind"] = c["bind"]
  BY <1>1, FieldNames
<1> QED BY <1>1, <1>2, <1>3 DEF Configs

\* Setting bind.
LEMMA BindSet ==
  ASSUME NEW U, NEW c \in Configs(U), NEW b \in Binds
  PROVE  [c EXCEPT !.bind = b] \in Configs(U)
BY DEF Configs

\* The configuration that main starts from.
LEMMA DefaultConfig ==
  ASSUME NEW U, {0, -1, "drv", TRUE, FALSE} \subseteq U
  PROVE  default_cfg \in Configs(U)
<1>1. default_cfg = [f \in Fields |-> default_cfg[f]]
  BY SMT DEF Fields, default_cfg
<1>2. Fields = {"exit", "ifindex", "redirect_ifindex", "mode", "noexist", "do_unload", "unload_all", "prog_id",
                "reuse_maps", "bind", "poll", "queue", "verbose"}
  BY SMT DEF Fields, default_cfg
<1>3. \A f \in Fields \ {"bind"} : default_cfg[f] \in U
  <2>1. /\ default_cfg.exit \in U /\ default_cfg.ifindex \in U /\ default_cfg.redirect_ifindex \in U
        /\ default_cfg.mode \in U /\ default_cfg.noexist \in U /\ default_cfg.do_unload \in U
        /\ default_cfg.unload_all \in U /\ default_cfg.prog_id \in U /\ default_cfg.reuse_maps \in U
        /\ default_cfg.poll \in U /\ default_cfg.queue \in U /\ default_cfg.verbose \in U
    BY DEF default_cfg
  <2> QED BY <1>2, <2>1
<1>4. default_cfg["bind"] \in Binds
  BY SMT DEF default_cfg, Binds
<1> QED BY <1>1, <1>3, <1>4 DEF Configs

\* What parse_kernel does with the n-th option.
StepOption(options, n, cfg) == IF cfg.exit # 0 THEN cfg ELSE option_kernel(cfg, options[n])

\* The values that options may assign.
Values(options) ==
  {-1, 0, EXIT_FAIL_OPTION, "auto", "drv", "hw", "skb", TRUE, FALSE}
    \cup {options[n].arg : n \in Nat} \cup {Devices[d] : d \in DOMAIN Devices}

\* No option sets both modes, or anything but a value.
LEMMA OptionConfigs ==
  ASSUME NEW options, NEW n \in Nat, NEW cfg \in Configs(Values(options))
  PROVE  StepOption(options, n, cfg) \in Configs(Values(options))
<1> DEFINE U == Values(options)
           C == Configs(U)
<1>0. {-1, 0, EXIT_FAIL_OPTION, "auto", "drv", "hw", "skb", TRUE, FALSE} \subseteq U /\ options[n].arg \in U
  BY DEF Values
<1>1. \A d \in DOMAIN Devices : Devices[d] \in U
  BY DEF Values
<1>2. \A c \in C, field \in Fields \ {"bind"}, u \in U : [c EXCEPT ![field] = u] \in C
  BY FieldSet
<1>3. \A c \in C, b \in Binds : [c EXCEPT !.bind = b] \in C
  BY BindSet
<1>4. cfg.bind \in Binds /\ cfg \in C
  BY DEF Configs
<1> HIDE DEF C, U
<1>5. \A c \in C : Fail(c) \in C
  BY <1>0, <1>2, FieldNames DEF Fail
<1>6. \A name : \A field \in Fields \ {"bind"} : Device(cfg, field, name) \in C
  BY <1>0, <1>1, <1>2, <1>4, <1>5 DEF Device
<1>7. shared_option(cfg, options[n]) \in C
  BY <1>0, <1>2, <1>4, <1>5, <1>6, FieldNames DEF shared_option
<1>8. (cfg.bind \ {"zerocopy"}) \cup {"copy"} \in Binds /\ (cfg.bind \ {"copy"}) \cup {"zerocopy"} \in Binds
  BY <1>4 DEF Binds
<1>9. option_kernel(cfg, options[n]) \in C
  BY <1>0, <1>2, <1>3, <1>4, <1>7, <1>8, FieldNames DEF option_kernel
<1> QED BY <1>4, <1>9 DEF StepOption, C, U

\* After any number of options at most one copy mode is set.
LEMMA KernelBinds ==
  ASSUME NEW options, NEW n \in Nat, Len(options) = n
  PROVE  parse_kernel(default_cfg, options).bind \in Binds
<1> DEFINE C == Configs(Values(options))
           f == [p \in Nat \X C |-> StepOption(options, p[1], p[2])]
           Step(g, i) == IF i = 0 THEN default_cfg
                         ELSE IF g[i - 1].exit # 0 THEN g[i - 1] ELSE option_kernel(g[i - 1], options[i])
<1>1. default_cfg \in C
  BY DefaultConfig DEF Values
<1>2. f \in [Nat \X C -> C]
  BY OptionConfigs
<1>3. PICK g : IsRecursive(g, C, default_cfg, f)
  <2> HIDE DEF C, f
  <2> QED BY <1>1, <1>2, Recursion
<1>4. \A i \in Nat : g[i] \in C
  BY <1>3 DEF IsRecursive
<1>5. ASSUME NEW i \in Nat PROVE (IF i = 0 THEN default_cfg ELSE f[<<i, g[i - 1]>>]) = Step(g, i)
  <2>1. CASE i = 0
    BY <2>1
  <2>2. CASE i # 0
    <3>1. i - 1 \in Nat
      BY <2>2, SMT
    <3>2. g[i - 1] \in C
      BY <1>4, <3>1
    <3> HIDE DEF C
    <3>3. f[<<i, g[i - 1]>>] = StepOption(options, i, g[i - 1])
      BY <3>2
    <3> QED BY <2>2, <3>3 DEF StepOption
  <2> QED BY <2>1, <2>2
<1>6. g = [i \in Nat |-> Step(g, i)]
  <2>1. g = [i \in Nat |-> IF i = 0 THEN default_cfg ELSE f[<<i, g[i - 1]>>]]
    BY <1>3 DEF IsRecursive
  <2> HIDE DEF Step, f, C
  <2> QED BY <1>5, <2>1
<1>7. \E h : h = [i \in Nat |-> Step(h, i)] /\ parse_kernel(default_cfg, options) = h[n]
  BY <1>6 DEF parse_kernel
<1>8. PICK h : h = [i \in Nat |-> Step(h, i)] /\ parse_kernel(default_cfg, options) = h[n]
  BY <1>7
<1>9. \A i \in Nat : h[i] \in C
  <2>0. \A i \in Nat : h[i] = Step(h, i)
    <3> HIDE DEF Step
    <3> QED BY <1>8
  <2> DEFINE B == {i \in Nat : h[i] \notin C}
  <2> SUFFICES ASSUME B # {} PROVE FALSE
    OBVIOUS
  <2>1. PICK i \in B : \A k \in B : i <= k
    BY LeastNatural
  <2>2. CASE i = 0
    BY <1>1, <2>0, <2>1, <2>2
  <2>3. CASE i # 0
    <3>1. i - 1 \in Nat /\ i - 1 \notin B
      BY <2>1, <2>3, SMT
    <3>2. h[i - 1] \in C
      BY <3>1
    <3>3. h[i] = StepOption(options, i, h[i - 1])
      BY <2>0, <2>1, <2>3 DEF StepOption
    <3> QED BY <2>1, <3>2, <3>3, OptionConfigs
  <2> QED BY <2>2, <2>3
<1> QED BY <1>8, <1>9 DEF Configs

\* Whatever options parse_cmdline_args of the in-kernel version is given, and
\* however many, it never asks for copy and zero-copy mode together.
THEOREM AnyCommandLine ==
  ASSUME NEW S, NEW options \in Seq(S)
  PROVE  ~ ({"copy", "zerocopy"} \subseteq parse_kernel(default_cfg, options).bind)
<1>1. Len(options) \in Nat
  BY SMT
<1>2. parse_kernel(default_cfg, options).bind \in Binds
  BY <1>1, KernelBinds
<1> QED BY <1>2 DEF Binds

\* The same, of the command lines that the run adds options to.
THEOREM CopyModesExclude == Spec => []CopyModesExclusive
<1>1. Init => opts \in Seq(Options)
  BY SMT DEF Init
<1>2. opts \in Seq(Options) /\ [Next]_vars => (opts \in Seq(Options))'
  <2> SUFFICES ASSUME opts \in Seq(Options), [Next]_vars PROVE opts' \in Seq(Options)
    OBVIOUS
  <2>1. CASE AddOption
    <3>1. PICK new \in Options : opts' = Append(opts, new)
      BY <2>1 DEF AddOption
    <3> QED BY <3>1, SMT
  <2>2. CASE opts' = opts
    BY <2>2
  <2> QED BY <2>1, <2>2 DEF Next, vars, NextObject
<1>3. opts \in Seq(Options) => CopyModesExclusive
  BY AnyCommandLine DEF CopyModesExclusive
<1> QED BY <1>1, <1>2, <1>3, PTL DEF Spec

----------------------------------------------------------------------------
(***************************************************************************)
(* Fixed-point numbers: a shift multiplies while the result fits 31 bits,  *)
(* Normalise rounds down, and the long division is the quotient of a * 2^q.*)
(***************************************************************************)


\* Numbers of 31 bits are added as they are.
LEMMA PlusExact ==
  ASSUME NEW a \in MinInt .. MaxInt, NEW b \in MinInt .. MaxInt, a + b \in MinInt .. MaxInt
  PROVE  Plus(a, b) = a + b
<1>1. MaxInt \in Nat
  BY SMT DEF MaxInt
<1>2. \A n \in Nat : - n = 0 - n
  BY SMT
<1>3. MinInt = 0 - MaxInt - 1
  BY <1>1, <1>2 DEF MinInt
<1>4. b >= 0 => a <= MaxInt - b
  BY <1>1, <1>3, SMT
<1>5. ~ (b >= 0) => a >= MinInt - b
  BY <1>1, <1>3, SMT
<1> QED BY <1>4, <1>5 DEF Plus

\* Whatever the operands, a sum is a number.
LEMMA PlusInt ==
  ASSUME NEW a \in Int, NEW b \in Int
  PROVE  Plus(a, b) \in Int
BY SMT DEF Plus, MinInt, MaxInt

\* A shift to the left multiplies, as long as the result fits.
LEMMA ShlExact ==
  ASSUME NEW a \in Nat, NEW n \in Nat, a * Pow2[n] <= MaxInt
  PROVE  Shl(a, n) = a * Pow2[n]
<1> DEFINE f == [p \in Nat \X Int |-> Twice[p[2]]]
           Step(g, i) == IF i = 0 THEN a ELSE Twice[g[i - 1]]
<1>1. f \in [Nat \X Int -> Int]
  BY PlusInt DEF Twice
<1>2. a \in Int
  BY SMT
<1>3. PICK g : IsRecursive(g, Int, a, f)
  <2> HIDE DEF f
  <2> QED BY <1>1, <1>2, Recursion
<1>4. \A i \in Nat : g[i] \in Int
  BY <1>3 DEF IsRecursive
<1>5. ASSUME NEW i \in Nat PROVE (IF i = 0 THEN a ELSE f[<<i, g[i - 1]>>]) = Step(g, i)
  <2>1. CASE i # 0
    <3>1. i - 1 \in Nat
      BY <2>1, SMT
    <3>2. g[i - 1] \in Int
      BY <1>4, <3>1
    <3> QED BY <2>1, <3>2
  <2> QED BY <2>1
<1>6. g = [i \in Nat |-> Step(g, i)]
  <2>1. g = [i \in Nat |-> IF i = 0 THEN a ELSE f[<<i, g[i - 1]>>]]
    BY <1>3 DEF IsRecursive
  <2> HIDE DEF Step, f
  <2> QED BY <1>5, <2>1
<1>7. \E h : h = [i \in Nat |-> Step(h, i)] /\ Shl(a, n) = h[n]
  BY <1>6 DEF Shl
<1>8. PICK h : h = [i \in Nat |-> Step(h, i)] /\ Shl(a, n) = h[n]
  BY <1>7
<1>9. \A i \in Nat : h[i] = Step(h, i)
  <2> HIDE DEF Step
  <2> QED BY <1>8
<1> DEFINE B == {i \in 0 .. n : h[i] # a * Pow2[i]}
<1>10. B = {}
  <2> SUFFICES ASSUME B # {} PROVE FALSE
    OBVIOUS
  <2>0. B \subseteq Nat
    BY SMT
  <2>1. PICK i \in B : \A k \in B : i <= k
    <3> HIDE DEF B
    <3> QED BY <2>0, LeastNatural
  <2>2. CASE i = 0
    <3>1. a * Pow2[0] = a /\ 0 \in Nat
      BY Pow2Step, SMT
    <3> QED BY <1>9, <2>1, <2>2, <3>1
  <2>3. CASE i # 0
    <3>1. i \in Nat /\ i - 1 \in Nat /\ i - 1 \in 0 .. n /\ i - 1 \notin B /\ (i - 1) + 1 = i /\ i <= n
      BY <2>1, <2>3, SMT
    <3>2. h[i - 1] = a * Pow2[i - 1]
      BY <3>1
    <3>3. Pow2[i - 1] \in Nat /\ Pow2[i] = 2 * Pow2[i - 1] /\ Pow2[i] <= Pow2[n] /\ Pow2[n] \in Nat
      BY <3>1, Pow2Step, Pow2Grows
    <3> DEFINE u == Pow2[i - 1]
               v == Pow2[n]
               w == a * u
    <3> HIDE DEF u, v
    <3>4. w \in Nat /\ a * (2 * u) = w + w
      <4>1. u \in Nat
        BY <3>3 DEF u
      <4> QED BY <4>1, SMT
    <3>5. a * (2 * u) <= a * v
      <4>1. u \in Nat /\ v \in Nat /\ 2 * u <= v
        BY <3>3 DEF u, v
      <4> QED BY <4>1, SMT
    <3>6. a * v <= MaxInt /\ v \in Nat
      BY <3>3 DEF v
    <3> HIDE DEF w
    <3>7. w \in MinInt .. MaxInt /\ w + w \in MinInt .. MaxInt
      <4>1. a * v \in Nat
        BY <3>6, SMT
      <4>2. w + w <= MaxInt
        BY <3>4, <3>5, <3>6, <4>1, SMT DEF MaxInt
      <4>3. MinInt <= 0 /\ MinInt \in Int /\ MaxInt \in Int
        BY SMT DEF MinInt, MaxInt
      <4> QED BY <3>4, <4>2, <4>3, SMT
    <3>8. Twice[w] = w + w
      <4>1. w \in Int
        BY <3>4, SMT
      <4>2. Twice[w] = Plus(w, w)
        BY <4>1 DEF Twice
      <4> QED BY <3>7, <4>2, PlusExact
    <3>9. h[i] = Twice[w]
      BY <1>9, <2>3, <3>1, <3>2 DEF w, u
    <3>10. a * Pow2[i] = w + w
      BY <3>3, <3>4 DEF u
    <3> QED BY <2>1, <3>8, <3>9, <3>10
  <2> QED BY <2>2, <2>3
<1>11. n \in 0 .. n
  BY SMT
<1> QED BY <1>8, <1>10, <1>11

\* Powers of 2 are positive.
LEMMA Pow2Positive == \A n \in Nat : Pow2[n] \in Nat /\ Pow2[n] >= 1
<1> SUFFICES ASSUME NEW n \in Nat PROVE Pow2[n] \in Nat /\ Pow2[n] >= 1
  OBVIOUS
<1>1. Pow2[n] \in Nat \ {0}
  BY Pow2Step
<1> QED BY <1>1, SMT

\* Halving never removes more than k of the zeros counted so far.
LEMMA NarrowRange ==
  ASSUME NEW s \in [n : Int, x : Nat], NEW k \in Nat
  PROVE  Narrow(s, k) \in [n : Int, x : Nat] /\ Narrow(s, k).n \in (s.n - k) .. s.n
<1> DEFINE p == Pow2[k]
<1>1. p \in Nat /\ p >= 1
  BY Pow2Positive
<1>2. s.n \in Int /\ s.x \in Nat
  OBVIOUS
<1>3. CASE s.x >= p
  <2>1. s.x \div p \in Nat
    <3> HIDE DEF p
    <3> QED BY <1>1, <1>2, SMT
  <2>2. s.n - k \in Int /\ s.n - k \in (s.n - k) .. s.n
    BY <1>2, SMT
  <2>3. Narrow(s, k) = [n |-> s.n - k, x |-> s.x \div p]
    BY <1>3 DEF Narrow
  <2>4. Narrow(s, k).n = s.n - k
    <3>1. \A i, j : [n |-> i, x |-> j].n = i
      OBVIOUS
    <3> HIDE DEF p
    <3> QED BY <2>3, <3>1
  <2>5. Narrow(s, k) \in [n : Int, x : Nat]
    <3>1. \A i \in Int, j \in Nat : [n |-> i, x |-> j] \in [n : Int, x : Nat]
      OBVIOUS
    <3> QED BY <2>1, <2>2, <2>3, <3>1
  <2> QED BY <2>2, <2>4, <2>5
<1>4. CASE ~ (s.x >= p)
  <2>1. s.n \in (s.n - k) .. s.n
    BY <1>2, SMT
  <2>2. Narrow(s, k) = s
    BY <1>4 DEF Narrow
  <2> QED BY <2>1, <2>2
<1> QED BY <1>3, <1>4

\* A natural number of 32 bits has at least 32 of 64 zeros in front.
LEMMA LeadingZerosRange ==
  ASSUME NEW n \in Nat
  PROVE  LeadingZeros(64, n) \in 32 .. 64
<1> DEFINE s == [n |-> 64, x |-> n]
           s16 == Narrow(s, 16)
           s8  == Narrow(s16, 8)
           s4  == Narrow(s8, 4)
           s2  == Narrow(s4, 2)
           S   == [n : Int, x : Nat]
<1>1. 16 \in Nat /\ 8 \in Nat /\ 4 \in Nat /\ 2 \in Nat
  BY SMT
<1>2. s \in S /\ s.n = 64
  BY SMT
<1> HIDE DEF s
<1>3. s16 \in S /\ s16.n \in (s.n - 16) .. s.n
  BY <1>1, <1>2, NarrowRange
<1> HIDE DEF s16
<1>4. s8 \in S /\ s8.n \in (s16.n - 8) .. s16.n
  BY <1>1, <1>3, NarrowRange
<1> HIDE DEF s8
<1>5. s4 \in S /\ s4.n \in (s8.n - 4) .. s8.n
  BY <1>1, <1>4, NarrowRange
<1> HIDE DEF s4
<1>6. s2 \in S /\ s2.n \in (s4.n - 2) .. s4.n
  BY <1>1, <1>5, NarrowRange
<1> HIDE DEF s2
<1>7. s16.n \in Int /\ s8.n \in Int /\ s4.n \in Int /\ s2.n \in Int /\ s2.x \in Nat
  BY <1>3, <1>4, <1>5, <1>6
<1> HIDE DEF S
<1>8. s2.n \in 34 .. 64
  BY <1>2, <1>3, <1>4, <1>5, <1>6, <1>7, SMT
<1>9. (IF s2.x >= 2 THEN s2.n - 2 ELSE s2.n - s2.x) \in 32 .. 64
  BY <1>7, <1>8, SMT
<1> QED BY <1>9 DEF LeadingZeros, s, s16, s8, s4, s2

\* Normalise rounds down to the scale that it chooses, and keeps numbers that
\* need a sign.
LEMMA NormaliseTruncates ==
  ASSUME NEW sum \in Nat, sum <= MaxInt, NEW q \in 0 .. 24
  PROVE  Truncates(Normalise(sum, q), sum, q)
<1> DEFINE allowed == 64 - count_zero_64(sum)
           result == Normalise(sum, q)
<1>1. count_zero_64(sum) = LeadingZeros(64, sum)
  <2>1. ~ (sum < 0)
    BY SMT
  <2> QED BY <2>1 DEF count_zero_64
<1>2. allowed \in 0 .. 32
  <2>1. count_zero_64(sum) \in 32 .. 64
    BY <1>1, LeadingZerosRange
  <2> QED BY <2>1, SMT
<1>3. CASE allowed < q
  <2> DEFINE d == q - allowed
             p == Pow2[d]
             r == sum \div p
  <2>1. d \in Nat /\ ~ (d > 30) /\ allowed <= q
    <3> HIDE DEF allowed
    <3> QED BY <1>2, <1>3, SMT
  <2>2. result = FP(r, allowed)
    BY <1>3, <2>1 DEF Normalise, Shr
  <2> HIDE DEF d, allowed
  <2>3. p \in Nat /\ p >= 1
    BY <2>1, Pow2Positive
  <2>4. r \in Nat /\ r * p <= sum /\ sum - r * p < p
    <3> HIDE DEF p
    <3> QED BY <2>3, DivRange
  <2> HIDE DEF r, result
  <2>5. r * p <= MaxInt
    <3> HIDE DEF p
    <3>1. r * p \in Nat
      BY <2>3, <2>4, SMT
    <3> QED BY <2>4, <3>1, SMT DEF MaxInt
  <2>6. Shl(r, d) = r * p
    BY <2>1, <2>4, <2>5, ShlExact
  <2>7. result.q = allowed /\ result.number = r
    BY <2>2 DEF FP
  <2> QED BY <2>1, <2>4, <2>6, <2>7 DEF Truncates, d, result
<1>4. CASE ~ (allowed < q)
  <2>1. result = FP(sum, q)
    BY <1>4 DEF Normalise
  <2> HIDE DEF result, allowed
  <2>2. q - q = 0 /\ q <= q /\ sum * 1 = sum /\ sum <= sum /\ sum - sum < 1 /\ 0 \in Nat
    BY SMT
  <2>3. Pow2[0] = 1
    BY Pow2Step
  <2>4. Shl(sum, 0) = sum
    BY <2>2, <2>3, ShlExact
  <2>5. result.q = q /\ result.number = sum
    BY <2>1 DEF FP
  <2> QED BY <2>2, <2>3, <2>4, <2>5 DEF Truncates, result
<1> QED BY <1>3, <1>4

\* Numbers that need a sign are kept as they are.
LEMMA NormaliseNegative ==
  ASSUME NEW sum \in Int, sum < 0, NEW q \in 0 .. 24
  PROVE  Normalise(sum, q) = FP(sum, q)
<1>1. \A n \in Nat : - n = 0 - n
  BY SMT
<1>2. -1 = 0 - 1
  BY <1>1, SMT
<1>3. count_zero_64(sum) = 0 - 1
  BY <1>2 DEF count_zero_64
<1>4. ~ (64 - (0 - 1) < q)
  BY SMT
<1> QED BY <1>3, <1>4 DEF Normalise

\* Operands of the same scale from 0 to 2^29: add and subtract round down to
\* the scale that they choose.
LEMMA SumTruncatesOf ==
  ASSUME NEW a, NEW b, a.q \in 0 .. 24, a.q = b.q,
         a.number \in 0 .. 2^29, b.number \in 0 .. 2^29
  PROVE  /\ Truncates(add(a, b), a.number + b.number, a.q)
         /\ IF a.number >= b.number
            THEN Truncates(subtract(a, b), a.number - b.number, a.q)
            ELSE subtract(a, b) = FP(a.number - b.number, a.q)
<1> DEFINE m == a.number
           n == b.number
           q == a.q
           B == 2^29
<1>1. check_bit(a, b).q = q
  <2>1. \A i \in 0 .. 24 : ~ (i < i)
    BY SMT
  <2> QED BY <2>1 DEF check_bit
<1>2. B \in Nat /\ B + B <= MaxInt /\ MaxInt \in Nat
  BY SMT DEF MaxInt
<1>3. MinInt = 0 - MaxInt - 1
  <2>1. \A i \in Nat : - i = 0 - i
    BY SMT
  <2> QED BY <1>2, <2>1 DEF MinInt
<1>4. m \in 0 .. B /\ n \in 0 .. B /\ q \in 0 .. 24
  OBVIOUS
<1> HIDE DEF B, m, n, q
<1>5. m \in Nat /\ n \in Nat /\ m + n \in Nat /\ m + n <= MaxInt
  BY <1>2, <1>4, SMT
<1>6. m \in MinInt .. MaxInt /\ n \in MinInt .. MaxInt /\ m + n \in MinInt .. MaxInt
  BY <1>2, <1>3, <1>4, <1>5, SMT
<1>7. add(a, b) = Normalise(m + n, q)
  <2>1. Plus(m, n) = m + n
    BY <1>6, PlusExact
  <2> QED BY <1>1, <2>1 DEF add, m, n
<1>8. Truncates(add(a, b), m + n, q)
  BY <1>4, <1>5, <1>7, NormaliseTruncates
<1> DEFINE negated == IF n = MinInt THEN MinInt ELSE - n
<1>9. negated = 0 - n
  <2>1. n # MinInt
    BY <1>2, <1>3, <1>5, SMT
  <2>2. \A i \in Nat : - i = 0 - i
    BY SMT
  <2> QED BY <1>5, <2>1, <2>2
<1>10. subtract(a, b) = Normalise(Plus(m, negated), q)
  BY <1>1 DEF subtract, m, n
<1> HIDE DEF negated
<1>11. m - n \in Int /\ m - n = m + negated /\ negated \in MinInt .. MaxInt /\ m + negated \in MinInt .. MaxInt
  BY <1>2, <1>3, <1>4, <1>5, <1>9, SMT
<1>12. subtract(a, b) = Normalise(m - n, q)
  <2>1. Plus(m, negated) = m + negated
    BY <1>6, <1>11, PlusExact
  <2> QED BY <1>10, <1>11, <2>1
<1>13. CASE m >= n
  <2>1. m - n \in Nat /\ m - n <= MaxInt
    BY <1>2, <1>4, <1>5, <1>13, SMT
  <2>2. Truncates(subtract(a, b), m - n, q)
    BY <1>4, <1>12, <2>1, NormaliseTruncates
  <2> QED BY <1>8, <1>13, <2>2 DEF m, n, q
<1>14. CASE ~ (m >= n)
  <2>1. m - n < 0
    BY <1>5, <1>14, SMT
  <2>2. subtract(a, b) = FP(m - n, q)
    BY <1>4, <1>11, <1>12, <2>1, NormaliseNegative
  <2> QED BY <1>8, <1>14, <2>2 DEF m, n, q
<1> QED BY <1>13, <1>14

\* One step of a long division with no carry out of 31 bits.
LEMMA DivideBitStep ==
  ASSUME NEW d \in Nat, d >= 1, NEW s, s.rem \in 0 .. (d - 1), s.low \in Nat, s.big = FALSE,
         s.low + s.low + 1 <= MaxInt
  PROVE  LET t == DivideBit(d, s, 0)
         IN  /\ t.rem \in 0 .. (d - 1) /\ t.low \in Nat /\ t.big = FALSE
             /\ t.low * d + t.rem = 2 * (s.low * d + s.rem)
<1> DEFINE r == s.rem
           l == s.low
           fits == r >= d - r - 0
           bit == IF fits THEN 1 ELSE 0
           t == DivideBit(d, s, 0)
<1>1. t.rem = IF fits THEN r - (d - r - 0) ELSE r + r + 0
  BY DEF DivideBit
<1>2. t.low = Plus(Plus(l, l), bit)
  BY DEF DivideBit
<1>3. t.big = (FALSE \/ l >= 2^30)
  BY DEF DivideBit
<1>4. r \in 0 .. (d - 1) /\ l \in Nat /\ l + l + 1 <= MaxInt
  OBVIOUS
<1> HIDE DEF t, r, l
<1>5. ~ (l >= 2^30)
  BY <1>4, SMT DEF MaxInt
<1>6. bit \in 0 .. 1
  BY SMT
<1>7. t.rem \in 0 .. (d - 1) /\ t.rem = r + r - bit * d
  <2>1. CASE fits
    <3>1. bit = 1
      BY <2>1
    <3>2. t.rem = r - (d - r - 0)
      BY <1>1, <2>1
    <3> QED BY <1>4, <2>1, <3>1, <3>2, SMT
  <2>2. CASE ~ fits
    <3>1. bit = 0
      BY <2>2
    <3>2. t.rem = r + r + 0
      BY <1>1, <2>2
    <3> QED BY <1>4, <2>2, <3>1, <3>2, SMT
  <2> QED BY <2>1, <2>2
<1> HIDE DEF fits, bit
<1>8. MaxInt \in Nat /\ MinInt = 0 - MaxInt - 1
  <2>1. \A i \in Nat : - i = 0 - i
    BY SMT
  <2>2. MaxInt \in Nat
    BY SMT DEF MaxInt
  <2> QED BY <2>1, <2>2 DEF MinInt
<1>9. /\ l \in MinInt .. MaxInt /\ l + l \in MinInt .. MaxInt
      /\ bit \in MinInt .. MaxInt /\ l + l + bit \in MinInt .. MaxInt
  BY <1>4, <1>6, <1>8, SMT
<1>10. t.low = l + l + bit
  BY <1>2, <1>9, PlusExact
<1>11. t.low \in Nat
  BY <1>4, <1>6, <1>10, SMT
<1>12. t.low * d + t.rem = 2 * (l * d + r)
  <2>1. r \in Nat
    BY <1>4, SMT
  <2>2. (l + l + bit) * d + (r + r - bit * d) = 2 * (l * d + r)
    <3>1. ASSUME NEW i \in Nat, NEW j \in Nat, NEW k \in Nat
          PROVE  (i + i + k) * d + (j + j - k * d) = 2 * (i * d + j)
      BY SMT
    <3>2. bit \in Nat
      BY <1>6, SMT
    <3> QED BY <1>4, <2>1, <3>1, <3>2
  <2> QED BY <1>7, <1>10, <2>2
<1> QED BY <1>3, <1>5, <1>7, <1>11, <1>12 DEF t, l, r

\* The division of n by d, done without a carry out of 31 bits.
Divided(s, d, n) ==
  /\ s \in Dividing
  /\ s.rem \in 0 .. (d - 1) /\ s.low \in Nat /\ s.big = FALSE
  /\ s.low * d + s.rem = n

\* A state of a long division, given its fields.
DividingState(r, l, b) == [rem |-> r, low |-> l, big |-> b]

\* The fields are as given.
LEMMA DividingFields ==
  ASSUME NEW r \in Int, NEW l \in Int, NEW b \in BOOLEAN
  PROVE  /\ DividingState(r, l, b).rem = r
         /\ DividingState(r, l, b).low = l
         /\ DividingState(r, l, b).big = b
         /\ DividingState(r, l, b) \in Dividing
BY DEF Dividing, DividingState

\* A step of a long division leads from a state to a state.
LEMMA DivideBitType ==
  ASSUME NEW d \in Nat, NEW s \in Dividing
  PROVE  DivideBit(d, s, 0) \in Dividing
<1> DEFINE fits == s.rem >= d - s.rem - 0
           rem == IF fits THEN s.rem - (d - s.rem - 0) ELSE s.rem + s.rem + 0
           bit == IF fits THEN 1 ELSE 0
           low == Plus(Plus(s.low, s.low), bit)
           big == s.big \/ s.low >= 2^30
<1>1. s.rem \in Int /\ s.low \in Int
  BY DEF Dividing
<1>2. rem \in Int /\ bit \in Int
  BY <1>1, SMT
<1>3. low \in Int
  <2> HIDE DEF bit
  <2> QED BY <1>1, <1>2, PlusInt
<1>4. DivideBit(d, s, 0) = DividingState(rem, low, big)
  BY DEF DivideBit, DividingState
<1>5. big \in BOOLEAN
  OBVIOUS
<1> HIDE DEF rem, low, big, bit
<1>6. DividingState(rem, low, big) \in Dividing
  BY <1>2, <1>3, <1>5, DividingFields, SMT
<1> QED BY <1>4, <1>6

\* The long division: the quotient of a * 2^q as long as that fits 31 bits.
LEMMA QuotientExact ==
  ASSUME NEW a \in Nat, NEW d \in Nat, d >= 1, NEW q \in Nat, a * Pow2[q] <= MaxInt
  PROVE  /\ Quotient(a, d, q).low = (a * Pow2[q]) \div d
         /\ Quotient(a, d, q).big = FALSE
<1> DEFINE start == DivideWord(d, a)
           f == [p \in Nat \X Dividing |-> DivideBit(d, p[2], 0)]
           next == [s \in Dividing |-> DivideBit(d, s, 0)]
           Step(g, i) == IF i = 0 THEN start ELSE next[g[i - 1]]
<1>1. f \in [Nat \X Dividing -> Dividing]
  BY DivideBitType
<1>2. start = DividingState(a % d, a \div d, FALSE)
  <2>1. a >= 0
    BY SMT
  <2> QED BY <2>1 DEF DivideWord, DividingState
<1>3. (a % d) \in 0 .. (d - 1) /\ a \div d \in Nat /\ (a \div d) * d + (a % d) = a
  BY SMT
<1>4. start \in Dividing
  <2>1. (a % d) \in Int /\ a \div d \in Int /\ FALSE \in BOOLEAN
    BY <1>3, SMT
  <2> QED BY <1>2, <2>1, DividingFields
<1>5. PICK g : IsRecursive(g, Dividing, start, f)
  <2> HIDE DEF f, start
  <2> QED BY <1>1, <1>4, Recursion
<1>6. \A i \in Nat : g[i] \in Dividing
  BY <1>5 DEF IsRecursive
<1>7. ASSUME NEW i \in Nat PROVE (IF i = 0 THEN start ELSE f[<<i, g[i - 1]>>]) = Step(g, i)
  <2> HIDE DEF start
  <2>1. CASE i # 0
    <3>1. i - 1 \in Nat
      BY <2>1, SMT
    <3>2. g[i - 1] \in Dividing
      BY <1>6, <3>1
    <3> QED BY <2>1, <3>2
  <2> QED BY <2>1
<1>8. g = [i \in Nat |-> Step(g, i)]
  <2>1. g = [i \in Nat |-> IF i = 0 THEN start ELSE f[<<i, g[i - 1]>>]]
    BY <1>5 DEF IsRecursive
  <2> HIDE DEF Step, f, start
  <2> QED BY <1>7, <2>1
<1>9. \E h : h = [i \in Nat |-> Step(h, i)] /\ Quotient(a, d, q) = h[q]
  BY <1>8 DEF Quotient
<1>10. PICK h : h = [i \in Nat |-> Step(h, i)] /\ Quotient(a, d, q) = h[q]
  BY <1>9
<1>11. \A i \in Nat : h[i] = Step(h, i)
  <2> HIDE DEF Step
  <2> QED BY <1>10
<1> HIDE DEF start
<1> DEFINE B == {i \in 0 .. q : ~ Divided(h[i], d, a * Pow2[i])}
<1>12. B = {}
  <2> SUFFICES ASSUME B # {} PROVE FALSE
    OBVIOUS
  <2>0. B \subseteq Nat
    BY SMT
  <2>1. PICK i \in B : \A k \in B : i <= k
    <3> HIDE DEF B
    <3> QED BY <2>0, LeastNatural
  <2>2. CASE i = 0
    <3>1. a * Pow2[0] = a /\ 0 \in Nat
      BY Pow2Step, SMT
    <3>2. h[0] = DividingState(a % d, a \div d, FALSE)
      BY <1>2, <1>11, <3>1
    <3>3. h[0].rem = a % d /\ h[0].low = a \div d /\ h[0].big = FALSE
      <4>1. (a % d) \in Int /\ a \div d \in Int /\ FALSE \in BOOLEAN
        BY <1>3, SMT
      <4>2. /\ DividingState(a % d, a \div d, FALSE).rem = a % d
            /\ DividingState(a % d, a \div d, FALSE).low = a \div d
            /\ DividingState(a % d, a \div d, FALSE).big = FALSE
        BY <4>1, DividingFields
      <4> QED BY <3>2, <4>2
    <3>4. Divided(h[0], d, a * Pow2[0])
      BY <1>2, <1>3, <1>4, <3>1, <3>2, <3>3 DEF Divided
    <3> QED BY <2>1, <2>2, <3>4
  <2>3. CASE i # 0
    <3> DEFINE s == h[i - 1]
               u == Pow2[i - 1]
               v == Pow2[q]
    <3>1. i \in Nat /\ i - 1 \in Nat /\ i - 1 \in 0 .. q /\ i - 1 \notin B /\ (i - 1) + 1 = i /\ i <= q
      BY <2>1, <2>3, SMT
    <3>2. Divided(s, d, a * u)
      BY <3>1
    <3>3. u \in Nat /\ Pow2[i] = 2 * u /\ 2 * u <= v /\ v \in Nat
      <4>1. Pow2[(i - 1) + 1] = 2 * Pow2[i - 1]
        BY <3>1, Pow2Step
      <4>2. Pow2[i] <= Pow2[q]
        BY <3>1, Pow2Grows
      <4> QED BY <3>1, <4>1, <4>2, Pow2Positive
    <3>4. a * Pow2[i] = 2 * (a * u)
      <4>1. a * (2 * u) = 2 * (a * u)
        <5> HIDE DEF u
        <5> QED BY <3>3, SMT
      <4> QED BY <3>3, <4>1
    <3>5. 2 * (a * u) <= MaxInt
      <4> HIDE DEF u, v
      <4>1. 2 * (a * u) <= a * v
        BY <3>3, SMT
      <4>2. a * v <= MaxInt
        BY DEF v
      <4>3. a * u \in Nat /\ a * v \in Nat /\ MaxInt \in Nat
        BY <3>3, SMT DEF MaxInt
      <4> QED BY <4>1, <4>2, <4>3, SMT
    <3>6. s.rem \in 0 .. (d - 1) /\ s.low \in Nat /\ s.big = FALSE /\ s.low * d + s.rem = a * u
      BY <3>2 DEF Divided
    <3>7. h[i] = DivideBit(d, s, 0) /\ h[i] \in Dividing
      <4>1. s \in Dividing
        BY <3>2 DEF Divided
      <4>2. h[i] = next[s]
        BY <1>11, <2>3, <3>1
      <4>3. next[s] = DivideBit(d, s, 0)
        BY <4>1
      <4> QED BY <4>1, <4>2, <4>3, DivideBitType
    <3> HIDE DEF s, u, v
    <3>8. s.low + s.low + 1 <= MaxInt
      <4>1. s.low <= s.low * d /\ s.low * d \in Nat
        BY <3>6, SMT
      <4>2. s.rem \in Nat
        BY <3>6, SMT
      <4>3. 2 * (s.low * d + s.rem) <= MaxInt
        BY <3>5, <3>6
      <4> QED BY <3>6, <4>1, <4>2, <4>3, SMT DEF MaxInt
    <3>9. /\ h[i].rem \in 0 .. (d - 1) /\ h[i].low \in Nat /\ h[i].big = FALSE
          /\ h[i].low * d + h[i].rem = 2 * (s.low * d + s.rem)
      BY <3>6, <3>7, <3>8, DivideBitStep
    <3>10. Divided(h[i], d, a * Pow2[i])
      BY <3>4, <3>6, <3>7, <3>9 DEF Divided
    <3> QED BY <2>1, <3>10
  <2> QED BY <2>2, <2>3
<1>13. q \in 0 .. q
  BY SMT
<1>14. Divided(h[q], d, a * Pow2[q])
  BY <1>12, <1>13
<1>15. ASSUME NEW l \in Nat, NEW r \in 0 .. (d - 1)
       PROVE  (l * d + r) \div d = l
  BY <1>15, SMT
<1>16. (h[q].low * d + h[q].rem) \div d = h[q].low
  BY <1>14, <1>15 DEF Divided
<1>17. h[q].low = (a * Pow2[q]) \div d
  BY <1>14, <1>16 DEF Divided
<1> QED BY <1>10, <1>14, <1>17 DEF Divided

\* Fixed-point numbers with a scale that the header's operators are meant for.
Scaled == [number : Int, q : 0 .. 24]

\* On operands of the same scale from 0 to 2^29, add and subtract of
\* fixed-point.h round down to the scale that they choose, and differences
\* that need a sign are exact.
THEOREM AnySum ==
  ASSUME NEW a \in Scaled, NEW b \in Scaled
  PROVE  SumTruncates(a, b)
<1>1. a.q \in 0 .. 24
  BY DEF Scaled
<1> QED BY <1>1, SumTruncatesOf DEF SumTruncates

\* On operands of the same scale whose quotient fits 31 bits before the
\* division, divide of fixed-point.h returns the quotient rounded down to the
\* scale that it chooses.
THEOREM AnyQuotient ==
  ASSUME NEW a \in Scaled, NEW b \in Scaled, a.q = b.q,
         a.number >= 0, b.number >= 1, a.number * Pow2[a.q] <= MaxInt
  PROVE  Truncates(divide(a, b), (a.number * Pow2[a.q]) \div b.number, a.q)
<1> DEFINE m == a.number
           d == b.number
           q == a.q
           n == m * Pow2[q]
           quotient == Quotient(m, d, q)
<1>1. m \in Int /\ d \in Int /\ q \in 0 .. 24
  BY DEF Scaled
<1>2. check_bit(a, b).q = q
  <2>1. \A i \in 0 .. 24 : ~ (i < i)
    BY SMT
  <2> QED BY <1>1, <2>1 DEF check_bit
<1>3. divide(a, b) = IF d <= 0 THEN Normalise(0, q)
                     ELSE IF quotient.big THEN FP(quotient.low, q)
                     ELSE Normalise(quotient.low, q)
  BY <1>2 DEF divide
<1>4. m >= 0 /\ d >= 1 /\ n <= MaxInt
  OBVIOUS
<1> HIDE DEF m, d, q
<1>5. m \in Nat /\ d \in Nat /\ q \in Nat /\ ~ (d <= 0)
  BY <1>1, <1>4, SMT
<1>6. quotient.low = n \div d /\ quotient.big = FALSE
  BY <1>4, <1>5, QuotientExact
<1>7. n \in Nat
  <2>1. Pow2[q] \in Nat
    BY <1>5, Pow2Positive
  <2> QED BY <1>5, <2>1, SMT
<1> HIDE DEF n, quotient
<1>8. n \div d \in Nat /\ n \div d <= MaxInt
  <2>1. n \div d \in Nat /\ n \div d <= n
    BY <1>4, <1>5, <1>7, SMT
  <2> QED BY <1>4, <1>7, <2>1, SMT DEF MaxInt
<1>9. divide(a, b) = Normalise(n \div d, q)
  BY <1>3, <1>5, <1>6
<1>10. Truncates(divide(a, b), n \div d, q)
  BY <1>1, <1>8, <1>9, NormaliseTruncates
<1> QED BY <1>10 DEF n, m, d, q

\* The eighth power of 2.
LEMMA Pow2Of8 == Pow2[8] = 256
<1>0. Pow2[0] = 1 /\ \A n \in Nat : Pow2[n + 1] = 2 * Pow2[n]
  BY Pow2Step
<1>1. Pow2[1] = 2
  BY <1>0, SMT
<1>2. Pow2[2] = 4
  BY <1>0, <1>1, SMT
<1>3. Pow2[3] = 8
  BY <1>0, <1>2, SMT
<1>4. Pow2[4] = 16
  BY <1>0, <1>3, SMT
<1>5. Pow2[5] = 32
  BY <1>0, <1>4, SMT
<1>6. Pow2[6] = 64
  BY <1>0, <1>5, SMT
<1>7. Pow2[7] = 128
  BY <1>0, <1>6, SMT
<1> QED BY <1>0, <1>7, SMT

\* Twelve bits and eight fractional bits fit 31 bits.
LEMMA ProductFits ==
  ASSUME NEW m \in 0 .. 2^12, NEW p \in Nat, p <= Pow2[8]
  PROVE  m * p <= MaxInt
<1>1. p <= 256
  BY Pow2Of8, SMT
<1>2. m \in Nat /\ m * p \in Nat /\ m * p <= (2^12) * p
  BY SMT
<1> QED BY <1>1, <1>2, SMT DEF MaxInt

\* The operands that the run divides are among those.
LEMMA QuotientTruncatesOf ==
  ASSUME NEW a \in Scaled, NEW b \in Scaled
  PROVE  QuotientTruncates(a, b)
<1> SUFFICES ASSUME a.q = b.q, a.q <= 8, a.number \in 0 .. 2^12, b.number \in 1 .. 2^12
             PROVE  Truncates(divide(a, b), (a.number * Pow2[a.q]) \div b.number, a.q)
  BY DEF QuotientTruncates
<1>1. a.q \in Nat /\ 8 \in Nat
  <2>1. a.q \in 0 .. 24
    BY DEF Scaled
  <2> QED BY <2>1, SMT
<1>2. Pow2[a.q] \in Nat /\ Pow2[a.q] <= Pow2[8]
  BY <1>1, Pow2Grows, Pow2Positive
<1>3. \A m \in 0 .. 2^12 : m >= 0
  BY SMT
<1>4. \A d \in 1 .. 2^12 : d >= 1
  BY SMT
<1>5. a.number * Pow2[a.q] <= MaxInt
  BY <1>2, ProductFits
<1>6. a.number >= 0 /\ b.number >= 1
  BY <1>3, <1>4
<1> QED BY <1>5, <1>6, AnyQuotient

\* The operands of the run's behaviours have such scales.
LEMMA OperandsScaled ==
  /\ Init => x \in Scaled /\ y \in Scaled
  /\ x \in Scaled /\ y \in Scaled /\ [Next]_vars => x' \in Scaled /\ y' \in Scaled
<1>1. Operands \subseteq Scaled
  <2>1. Numbers \subseteq Int
    <3>1. \A k \in 0 .. 30 : Pow2[k] \in Int
      <4>1. \A k \in 0 .. 30 : k \in Nat
        BY SMT
      <4>2. \A k \in Nat : k \in Int
        BY SMT
      <4> QED BY <4>1, <4>2, Pow2Positive
    <3>2. \A k \in 0 .. 30 : Pow2[k] - 1 \in Int /\ Pow2[k] + 1 \in Int
      BY <3>1, SMT
    <3>3. - 1 \in Int /\ MinInt \in Int /\ MaxInt \in Int
      BY SMT DEF MinInt, MaxInt
    <3>4. 0 .. Small \subseteq Int
      BY OperandsAssumption, SMT
    <3>5. UNION {{Pow2[k] - 1, Pow2[k], Pow2[k] + 1} : k \in 0 .. 30} \subseteq Int
      BY <3>1, <3>2
    <3>6. {- 1, MinInt, MaxInt} \subseteq Int
      BY <3>3
    <3> QED BY <3>4, <3>5, <3>6 DEF Numbers
  <2> QED BY <2>1, OperandsAssumption DEF Operands, Scaled
<1>2. FP(0, 0) \in Scaled
  <2>1. 0 \in Int /\ 0 \in 0 .. 24
    BY SMT
  <2> QED BY <2>1 DEF FP, Scaled
<1>3. Init => x \in Scaled /\ y \in Scaled
  BY <1>1, <1>2 DEF Init, OperandsInit
<1>4. ASSUME x \in Scaled, y \in Scaled, [Next]_vars PROVE x' \in Scaled /\ y' \in Scaled
  <2>1. CASE x' = x /\ y' = y
    BY <1>4, <2>1
  <2>2. CASE OperandsNext
    BY <1>4, <2>2 DEF OperandsNext
  <2> QED BY <1>4, <2>1, <2>2 DEF Next, vars, AddOption, NextObject
<1> QED BY <1>3, <1>4

\* AnySum, of the pairs of operands that the run enumerates.
THEOREM SumsAlwaysTruncate == Spec => []SumsTruncate
<1> DEFINE Inv == x \in Scaled /\ y \in Scaled
<1>1. Init => Inv
  BY OperandsScaled
<1>2. Inv /\ [Next]_vars => Inv'
  BY OperandsScaled
<1>3. Inv => SumsTruncate
  BY AnySum DEF SumsTruncate
<1> HIDE DEF Inv
<1> QED BY <1>1, <1>2, <1>3, PTL DEF Spec

\* AnyQuotient, of the pairs of operands that the run enumerates.
THEOREM QuotientsAlwaysTruncate == Spec => []QuotientsTruncate
<1> DEFINE Inv == x \in Scaled /\ y \in Scaled
<1>1. Init => Inv
  BY OperandsScaled
<1>2. Inv /\ [Next]_vars => Inv'
  BY OperandsScaled
<1>3. Inv => QuotientsTruncate
  BY QuotientTruncatesOf DEF QuotientsTruncate
<1> HIDE DEF Inv
<1> QED BY <1>1, <1>2, <1>3, PTL DEF Spec
=============================================================================
