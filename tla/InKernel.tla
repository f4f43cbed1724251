------------------------------ MODULE InKernel ------------------------------
(***************************************************************************)
(* The XDP program of the fully in-kernel version                          *)
(* (fully_in-kernel/main/xdp_prog_kern.c), run by every CPU of the machine *)
(* at once.                                                                *)
(*                                                                         *)
(* An invocation of xdp_filter_func handles one packet.  It counts the     *)
(* packet in the interval total (map "data") and in the counter of its     *)
(* source (map "logger"); the first packet that arrives more than Interval *)
(* after the last stamp (map "loc_ts") also closes the interval: it walks  *)
(* the logger twice (calc_entropy, then detection) and shifts every        *)
(* current count into a previous one.  Only the stamp is protected by a    *)
(* lock.  Each action below is one access to memory that CPUs share, so    *)
(* every interleaving of accesses is a behaviour.                          *)
(*                                                                         *)
(* The logger is a preallocated BPF hash map: a lookup returns a pointer   *)
(* to a map element, and a deleted element may be handed out again, for    *)
(* another key, while that pointer is still in use.  So elements are       *)
(* memory cells (elem) and the map is what links keys to them (logger).    *)
(*                                                                         *)
(* Entropies are abstracted to zero / not zero, which is all that the      *)
(* program's control depends on; FixedPoint and Analysis model the values. *)
(***************************************************************************)
EXTENDS Integers, FiniteSets, Powers

CONSTANTS
  CPUs,         \* the CPUs that run the program
  IPs,          \* the IPv4 source addresses
  Elems,        \* the preallocated elements of the logger map
  NoCPU,        \* value of the lock when it is free
  NoIP,         \* value of key when a CPU handles no packet
  NoElem,       \* the null pointer
  Blockable,    \* the sources an operator may put on the blacklist
  MaxEntries,   \* LOGGER_MAP_SIZE
  Interval,     \* invl_ns
  InitBits,     \* int_bits before the first interval is closed
  MinBits,      \* int_bits when an interval is closed; 4 in the code
  TxPort,       \* whether slot 0 of the tx_port devmap is filled
  MaxPkts,      \* bound: IPv4 packets received
  MaxNow        \* bound: the clock

ASSUME ConstantsAssumption ==
  /\ IsFiniteSet(CPUs)
  /\ IsFiniteSet(IPs)
  /\ NoCPU \notin CPUs
  /\ NoIP \notin IPs
  /\ NoElem \notin Elems
  /\ Blockable \subseteq IPs
  /\ MaxEntries \in Nat
  /\ Interval \in Nat
  /\ InitBits \in Nat
  /\ MinBits \in Nat \ {0}
  /\ TxPort \in BOOLEAN
  /\ MaxPkts \in Nat
  /\ MaxNow \in Nat

\* Replacing the element of a key needs a free one even when the map is full.
ASSUME ElemsAssumption ==
  IsFiniteSet(Elems) /\ Cardinality(Elems) > MaxEntries

VARIABLES
  now,                \* bpf_ktime_get_ns()
  arrived,            \* IPv4 packets received so far (bounds the model)
  blacklist,          \* map "blacklist": the /32 rules
  prev_interval_pkt,  \* map "data"
  cur_interval_pkt,   \* map "data"
  int_bits,           \* map "data"
  timestamp,          \* map "loc_ts"
  lock,               \* map "loc_ts": the spin lock, by its holder
  logger,             \* map "logger": the element linked under a key
  elem,               \* map "logger": the contents of its elements
  pc,                 \* the next access of a CPU, or its last verdict
  key,                \* the source of the packet
  ts,                 \* the local ts of xdp_filter_func
  value,              \* the local pointer to an element
  seen,               \* the value last loaded or computed, not yet used
  todo                \* the keys bpf_for_each_map_elem has yet to reach

env    == <<now, arrived, blacklist>>
data   == <<prev_interval_pkt, cur_interval_pkt, int_bits>>
loc_ts == <<timestamp, lock>>
maps   == <<logger, elem>>
locals == <<key, ts, value, seen, todo>>
vars   == <<env, data, loc_ts, maps, pc, locals>>

Verdicts == {"XDP_PASS", "XDP_DROP", "XDP_ABORTED", "XDP_REDIRECT"}
OnElem   == {"storeEntropy", "testFlow", "delete", "copyFlow", "storeFlow", "zeroFlow"}
Closing  == OnElem \cup {"entropy", "detect", "copyTotal", "storeTotal", "zeroTotal", "reset"}
Critical == {"claim", "setFirst", "setClose", "unlockEnd", "unlockClose"}
Counting == {"filter", "total", "load", "compare", "grow", "flow", "hit", "miss"}
Labels   == Counting \cup {"stamp", "lock"} \cup Critical \cup Closing

Idle(c)    == pc[c] \in Verdicts
Closes(c)  == pc[c] \in Closing \cup {"unlockClose"}
Linked(e)  == \E ip \in IPs : logger[ip] = e
Flows      == {ip \in IPs : logger[ip] # NoElem}

\* struct logger_value, with the key the element is hashed under.
Element == [key : IPs \cup {NoIP}, prev : Nat, cur : Nat, entropy : {0, 1}]

Init ==
  /\ now = 0 /\ arrived = 0 /\ blacklist = {}
  /\ prev_interval_pkt = 0 /\ cur_interval_pkt = 0 /\ int_bits = InitBits
  /\ timestamp = 0 /\ lock = NoCPU
  /\ logger = [ip \in IPs |-> NoElem]
  /\ elem = [e \in Elems |-> [key |-> NoIP, prev |-> 0, cur |-> 0, entropy |-> 0]]
  /\ pc = [c \in CPUs |-> "XDP_PASS"]
  /\ key = [c \in CPUs |-> NoIP]
  /\ ts = [c \in CPUs |-> 0]
  /\ value = [c \in CPUs |-> NoElem]
  /\ seen = [c \in CPUs |-> 0]
  /\ todo = [c \in CPUs |-> {}]

Goto(c, label) == pc' = [pc EXCEPT ![c] = label]

\* Leaving xdp_filter_func: the locals die.
Return(c, verdict) ==
  /\ Goto(c, verdict)
  /\ key' = [key EXCEPT ![c] = NoIP]
  /\ ts' = [ts EXCEPT ![c] = 0]
  /\ value' = [value EXCEPT ![c] = NoElem]
  /\ seen' = [seen EXCEPT ![c] = 0]
  /\ todo' = [todo EXCEPT ![c] = {}]

\* bpf_redirect_map answers XDP_ABORTED when the slot of the devmap is empty.
bpf_redirect_map == IF TxPort THEN "XDP_REDIRECT" ELSE "XDP_ABORTED"

----------------------------------------------------------------------------
(***************************************************************************)
(* The environment: time passes, and an operator adds rules to the         *)
(* blacklist (the program itself never writes it).                         *)
(***************************************************************************)
Tick ==
  /\ now < MaxNow
  /\ now' = now + 1
  /\ UNCHANGED <<arrived, blacklist, data, loc_ts, maps, pc, locals>>

AddRule(ip) ==
  /\ ip \in Blockable \ blacklist
  /\ blacklist' = blacklist \cup {ip}
  /\ UNCHANGED <<now, arrived, data, loc_ts, maps, pc, locals>>

----------------------------------------------------------------------------
(***************************************************************************)
(* The packet path.                                                        *)
(***************************************************************************)

\* A frame too short for its Ethernet or IPv4 header; it is passed, though
\* the comments in xdp_filter_func say that it is dropped.
ReceiveMalformed(c) ==
  /\ Idle(c)
  /\ Return(c, "XDP_PASS")
  /\ UNCHANGED <<env, data, loc_ts, maps>>

\* A frame that is not IPv4.
ReceiveOther(c) ==
  /\ Idle(c)
  /\ Return(c, bpf_redirect_map)
  /\ UNCHANGED <<env, data, loc_ts, maps>>

\* An IPv4 packet; its time stamp is taken here and used much later.
Receive(c, ip) ==
  /\ Idle(c)
  /\ arrived < MaxPkts
  /\ arrived' = arrived + 1
  /\ key' = [key EXCEPT ![c] = ip]
  /\ ts' = [ts EXCEPT ![c] = now]
  /\ Goto(c, "filter")
  /\ UNCHANGED <<now, blacklist, data, loc_ts, maps, value, seen, todo>>

Filter(c) ==
  /\ pc[c] = "filter"
  /\ \/ /\ key[c] \in blacklist
        /\ Return(c, "XDP_DROP")
     \/ /\ key[c] \notin blacklist
        /\ Goto(c, "total")
        /\ UNCHANGED locals
  /\ UNCHANGED <<env, data, loc_ts, maps>>

\* lock_xadd(&tmp->cur_interval_pkt, 1)
CountTotal(c) ==
  /\ pc[c] = "total"
  /\ cur_interval_pkt' = cur_interval_pkt + 1
  /\ Goto(c, "load")
  /\ UNCHANGED <<env, prev_interval_pkt, int_bits, loc_ts, maps, locals>>

LoadTotal(c) ==
  /\ pc[c] = "load"
  /\ seen' = [seen EXCEPT ![c] = cur_interval_pkt]
  /\ Goto(c, "compare")
  /\ UNCHANGED <<env, data, loc_ts, maps, key, ts, value, todo>>

\* Mutation: the capacity taken for that of an unsigned number.
ExceedsUnsigned(n, bits) == IF bits = 0 THEN BOOLEAN ELSE {n > Pow2[bits] - 1}

\* Mutation: the comparison is ">=", so the program grows int_bits too early.
ExceedsEarly(n, bits) == IF bits = 0 THEN BOOLEAN ELSE {n >= Pow2[bits - 1] - 1}

\* What "n > (1 << (bits - 1)) - 1" may evaluate to.  A shift by -1 is
\* undefined: a 32-bit BPF shift gives INT_MAX, a 64-bit one gives -1.
Exceeds(n, bits) == IF bits = 0 THEN BOOLEAN ELSE {n > Pow2[bits - 1] - 1}

CompareBits(c) ==
  /\ pc[c] = "compare"
  /\ \E short \in Exceeds(seen[c], int_bits) :
        Goto(c, IF short THEN "grow" ELSE "flow")
  /\ seen' = [seen EXCEPT ![c] = 0]
  /\ UNCHANGED <<env, data, loc_ts, maps, key, ts, value, todo>>

\* lock_xadd(&tmp->int_bits, 1)
GrowBits(c) ==
  /\ pc[c] = "grow"
  /\ int_bits' = int_bits + 1
  /\ Goto(c, "flow")
  /\ UNCHANGED <<env, prev_interval_pkt, cur_interval_pkt, loc_ts, maps, locals>>

\* Mutation: the null check of the lookup is missing.
LookupUnchecked(c) ==
  /\ pc[c] = "flow"
  /\ value' = [value EXCEPT ![c] = logger[key[c]]]
  /\ Goto(c, "hit")
  /\ UNCHANGED <<env, data, loc_ts, maps, key, ts, seen, todo>>

LookupFlow(c) ==
  /\ pc[c] = "flow"
  /\ value' = [value EXCEPT ![c] = logger[key[c]]]
  /\ Goto(c, IF logger[key[c]] = NoElem THEN "miss" ELSE "hit")
  /\ UNCHANGED <<env, data, loc_ts, maps, key, ts, seen, todo>>

\* lock_xadd(&value->cur, 1), whatever has become of the element meanwhile.
CountFlow(c) ==
  /\ pc[c] = "hit"
  /\ elem' = [elem EXCEPT ![value[c]].cur = @ + 1]
  /\ value' = [value EXCEPT ![c] = NoElem]
  /\ Goto(c, "stamp")
  /\ UNCHANGED <<env, data, loc_ts, logger, key, ts, seen, todo>>

\* bpf_map_update_elem(.., BPF_ANY): fails when a new key finds the map full
\* (the program ignores that), replaces the element of a key that another
\* CPU has inserted since the lookup.
InsertFlow(c) ==
  /\ pc[c] = "miss"
  /\ \/ /\ logger[key[c]] = NoElem
        /\ Cardinality(Flows) >= MaxEntries
        /\ UNCHANGED maps
     \/ /\ logger[key[c]] # NoElem \/ Cardinality(Flows) < MaxEntries
        /\ \E e \in {x \in Elems : ~ Linked(x)} :
             /\ logger' = [logger EXCEPT ![key[c]] = e]
             /\ elem' = [elem EXCEPT ![e] =
                  [key |-> key[c], prev |-> 0, cur |-> 1, entropy |-> 0]]
  /\ Goto(c, "stamp")
  /\ UNCHANGED <<env, data, loc_ts, locals>>

\* The test of the time stamp without the lock.
ReadStamp(c) ==
  /\ pc[c] = "stamp"
  /\ \/ /\ ts[c] > timestamp + Interval
        /\ Goto(c, "lock")
        /\ UNCHANGED locals
     \/ /\ ts[c] <= timestamp + Interval
        /\ Return(c, bpf_redirect_map)
  /\ UNCHANGED <<env, data, loc_ts, maps>>

\* Mutation: the lock does not wait for its holder.
LockAtOnce(c) ==
  /\ pc[c] = "lock"
  /\ lock' = c
  /\ Goto(c, "claim")
  /\ UNCHANGED <<env, data, timestamp, maps, locals>>

Lock(c) ==
  /\ pc[c] = "lock"
  /\ lock = NoCPU
  /\ lock' = c
  /\ Goto(c, "claim")
  /\ UNCHANGED <<env, data, timestamp, maps, locals>>

\* Mutation: the stamp is not tested again under the lock.
ClaimUnchecked(c) ==
  /\ pc[c] = "claim"
  /\ Goto(c, IF timestamp = 0 THEN "setFirst" ELSE "setClose")
  /\ UNCHANGED <<env, data, loc_ts, maps, locals>>

\* Mutation: the second test forgets the interval.
ClaimAnyLater(c) ==
  /\ pc[c] = "claim"
  /\ Goto(c, IF timestamp = 0 THEN "setFirst"
             ELSE IF ts[c] > timestamp THEN "setClose" ELSE "unlockEnd")
  /\ UNCHANGED <<env, data, loc_ts, maps, locals>>

\* Mutation: the first packet closes an interval that has not begun.
ClaimFirst(c) ==
  /\ pc[c] = "claim"
  /\ Goto(c, IF ts[c] > timestamp + Interval THEN "setClose" ELSE "unlockEnd")
  /\ UNCHANGED <<env, data, loc_ts, maps, locals>>

\* The test again, under the lock.
Claim(c) ==
  /\ pc[c] = "claim"
  /\ \/ /\ timestamp = 0
        /\ Goto(c, "setFirst")
     \/ /\ timestamp # 0
        /\ ts[c] > timestamp + Interval
        /\ Goto(c, "setClose")
     \/ /\ timestamp # 0
        /\ ts[c] <= timestamp + Interval
        /\ Goto(c, "unlockEnd")
  /\ UNCHANGED <<env, data, loc_ts, maps, locals>>

\* lts->timestamp = ts; the first packet does no more than that.
SetStamp(c) ==
  /\ \/ pc[c] = "setFirst" /\ Goto(c, "unlockEnd")
     \/ pc[c] = "setClose" /\ Goto(c, "unlockClose")
  /\ timestamp' = ts[c]
  /\ UNCHANGED <<env, data, lock, maps, locals>>

\* Mutation: the early exits forget to unlock.
UnlockForgotten(c) ==
  /\ \/ /\ pc[c] = "unlockEnd"
        /\ Return(c, bpf_redirect_map)
        /\ UNCHANGED lock
     \/ /\ pc[c] = "unlockClose"
        /\ lock' = NoCPU
        /\ todo' = [todo EXCEPT ![c] = IPs]
        /\ Goto(c, "entropy")
        /\ UNCHANGED <<key, ts, value, seen>>
  /\ UNCHANGED <<env, data, timestamp, maps>>

Unlock(c) ==
  /\ lock' = NoCPU
  /\ \/ /\ pc[c] = "unlockEnd"
        /\ Return(c, bpf_redirect_map)
     \/ /\ pc[c] = "unlockClose"
        /\ todo' = [todo EXCEPT ![c] = IPs]
        /\ Goto(c, "entropy")
        /\ UNCHANGED <<key, ts, value, seen>>
  /\ UNCHANGED <<env, data, timestamp, maps>>

----------------------------------------------------------------------------
(***************************************************************************)
(* Closing the interval.  A walk reaches the keys in the order of their    *)
(* hash buckets, which is any order, and visits a key if an element is     *)
(* linked under it by then.                                                *)
(***************************************************************************)

\* Without packets in the previous interval the entropy computes to 0;
\* otherwise it may be anything.
Entropies(prev) == IF prev = 0 THEN {0} ELSE {0, 1}

\* A step of the walk: the callback gets the element under the key ip.
Visit(c, ip) ==
  /\ ip \in todo[c]
  /\ todo' = [todo EXCEPT ![c] = @ \ {ip}]
  /\ value' = [value EXCEPT ![c] = logger[ip]]

\* calc_entropy, up to its last statements: it reads prev (and cur).
calc_entropy(c, ip) ==
  /\ pc[c] = "entropy"
  /\ Visit(c, ip)
  /\ \/ logger[ip] = NoElem /\ UNCHANGED <<pc, seen>>
     \/ /\ logger[ip] # NoElem
        /\ \E v \in Entropies(elem[logger[ip]].prev) :
              seen' = [seen EXCEPT ![c] = v]
        /\ Goto(c, "storeEntropy")
  /\ UNCHANGED <<env, data, loc_ts, maps, key, ts>>

\* logger_value->entropy = entropy
StoreEntropy(c) ==
  /\ pc[c] = "storeEntropy"
  /\ elem' = [elem EXCEPT ![value[c]].entropy = seen[c]]
  /\ value' = [value EXCEPT ![c] = NoElem]
  /\ seen' = [seen EXCEPT ![c] = 0]
  /\ Goto(c, "entropy")
  /\ UNCHANGED <<env, data, loc_ts, logger, key, ts, todo>>

\* Between the walks: the average, which only feeds the threshold test.
Average(c) ==
  /\ pc[c] = "entropy"
  /\ todo[c] = {}
  /\ todo' = [todo EXCEPT ![c] = IPs]
  /\ Goto(c, "detect")
  /\ UNCHANGED <<env, data, loc_ts, maps, key, ts, value, seen>>

\* detection, first test: an entropy of 0 skips the analysis.  The threshold
\* test has no effect, adding the source to the blacklist is commented out.
detection(c, ip) ==
  /\ pc[c] = "detect"
  /\ Visit(c, ip)
  /\ \/ logger[ip] = NoElem /\ UNCHANGED pc
     \/ /\ logger[ip] # NoElem
        /\ Goto(c, IF elem[logger[ip]].entropy = 0 THEN "copyFlow" ELSE "testFlow")
  /\ UNCHANGED <<env, data, loc_ts, maps, key, ts, seen>>

\* Mutation: a flow is deleted without looking at its current count.
TestNothing(c) ==
  /\ pc[c] = "testFlow"
  /\ Goto(c, "delete")
  /\ UNCHANGED <<env, data, loc_ts, maps, locals>>

\* if (logger_value->cur == 0)
TestFlow(c) ==
  /\ pc[c] = "testFlow"
  /\ \/ /\ elem[value[c]].cur = 0
        /\ Goto(c, "delete")
     \/ /\ elem[value[c]].cur # 0
        /\ Goto(c, "copyFlow")
  /\ UNCHANGED <<env, data, loc_ts, maps, locals>>

\* bpf_map_delete_elem(map, key), where key points into the element: what is
\* deleted is whatever is linked now under the key the element has now.
DeleteFlow(c) ==
  /\ pc[c] = "delete"
  /\ logger' = [logger EXCEPT ![elem[value[c]].key] = NoElem]
  /\ value' = [value EXCEPT ![c] = NoElem]
  /\ Goto(c, "detect")
  /\ UNCHANGED <<env, data, loc_ts, elem, key, ts, seen, todo>>

\* logger_value->prev = logger_value->cur, a load and a store.
LoadFlow(c) ==
  /\ pc[c] = "copyFlow"
  /\ seen' = [seen EXCEPT ![c] = elem[value[c]].cur]
  /\ Goto(c, "storeFlow")
  /\ UNCHANGED <<env, data, loc_ts, maps, key, ts, value, todo>>

StoreFlow(c) ==
  /\ pc[c] = "storeFlow"
  /\ elem' = [elem EXCEPT ![value[c]].prev = seen[c]]
  /\ seen' = [seen EXCEPT ![c] = 0]
  /\ Goto(c, "zeroFlow")
  /\ UNCHANGED <<env, data, loc_ts, logger, key, ts, value, todo>>

\* Mutation: the current count of the flow is not reset.
KeepFlow(c) ==
  /\ pc[c] = "zeroFlow"
  /\ value' = [value EXCEPT ![c] = NoElem]
  /\ Goto(c, "detect")
  /\ UNCHANGED <<env, data, loc_ts, maps, key, ts, seen, todo>>

\* logger_value->cur = 0
ZeroFlow(c) ==
  /\ pc[c] = "zeroFlow"
  /\ elem' = [elem EXCEPT ![value[c]].cur = 0]
  /\ value' = [value EXCEPT ![c] = NoElem]
  /\ Goto(c, "detect")
  /\ UNCHANGED <<env, data, loc_ts, logger, key, ts, seen, todo>>

EndDetection(c) ==
  /\ pc[c] = "detect"
  /\ todo[c] = {}
  /\ Goto(c, "copyTotal")
  /\ UNCHANGED <<env, data, loc_ts, maps, locals>>

\* tmp->prev_interval_pkt = tmp->cur_interval_pkt, a load and a store.
CopyTotal(c) ==
  /\ pc[c] = "copyTotal"
  /\ seen' = [seen EXCEPT ![c] = cur_interval_pkt]
  /\ Goto(c, "storeTotal")
  /\ UNCHANGED <<env, data, loc_ts, maps, key, ts, value, todo>>

StoreTotal(c) ==
  /\ pc[c] = "storeTotal"
  /\ prev_interval_pkt' = seen[c]
  /\ seen' = [seen EXCEPT ![c] = 0]
  /\ Goto(c, "zeroTotal")
  /\ UNCHANGED <<env, cur_interval_pkt, int_bits, loc_ts, maps, key, ts, value, todo>>

\* Mutation: the interval total is not reset.
KeepTotal(c) ==
  /\ pc[c] = "zeroTotal"
  /\ Goto(c, "reset")
  /\ UNCHANGED <<env, data, loc_ts, maps, locals>>

ZeroTotal(c) ==
  /\ pc[c] = "zeroTotal"
  /\ cur_interval_pkt' = 0
  /\ Goto(c, "reset")
  /\ UNCHANGED <<env, prev_interval_pkt, int_bits, loc_ts, maps, locals>>

ResetBits(c) ==
  /\ pc[c] = "reset"
  /\ int_bits' = MinBits
  /\ Return(c, bpf_redirect_map)
  /\ UNCHANGED <<env, prev_interval_pkt, cur_interval_pkt, loc_ts, maps>>

----------------------------------------------------------------------------
PacketStep(c) ==
  \/ Filter(c)
  \/ CountTotal(c)
  \/ LoadTotal(c)
  \/ CompareBits(c)
  \/ GrowBits(c)
  \/ LookupFlow(c)
  \/ CountFlow(c)
  \/ InsertFlow(c)
  \/ ReadStamp(c)
  \/ Lock(c)
  \/ Claim(c)
  \/ SetStamp(c)
  \/ Unlock(c)

CloseStep(c) ==
  \/ \E ip \in IPs : calc_entropy(c, ip)
  \/ StoreEntropy(c)
  \/ Average(c)
  \/ \E ip \in IPs : detection(c, ip)
  \/ TestFlow(c)
  \/ DeleteFlow(c)
  \/ LoadFlow(c)
  \/ StoreFlow(c)
  \/ ZeroFlow(c)
  \/ EndDetection(c)
  \/ CopyTotal(c)
  \/ StoreTotal(c)
  \/ ZeroTotal(c)
  \/ ResetBits(c)

CpuStep(c) == PacketStep(c) \/ CloseStep(c)

Next ==
  \/ Tick
  \/ \E ip \in IPs : AddRule(ip)
  \/ \E c \in CPUs :
       \/ ReceiveMalformed(c)
       \/ ReceiveOther(c)
       \/ \E ip \in IPs : Receive(c, ip)
       \/ CpuStep(c)

Spec == Init /\ [][Next]_vars

\* A CPU that has started on a packet runs to the end: the program is
\* bounded code in softirq context, and the spin lock is always released.
\* The kernel's queued spin lock serves waiters in order.
FairSpec == Spec /\ \A c \in CPUs : WF_vars(CpuStep(c)) /\ SF_vars(Lock(c))

----------------------------------------------------------------------------
(***************************************************************************)
(* Properties                                                              *)
(***************************************************************************)

\* The types of the variables local to an invocation.
LocalsOK ==
  /\ pc \in [CPUs -> Verdicts \cup Labels]
  /\ key \in [CPUs -> IPs \cup {NoIP}]
  /\ ts \in [CPUs -> Nat]
  /\ value \in [CPUs -> Elems \cup {NoElem}]
  /\ seen \in [CPUs -> Nat]
  /\ todo \in [CPUs -> SUBSET IPs]
  /\ \A c \in CPUs :
       /\ pc[c] \in Counting => key[c] \in IPs
       /\ pc[c] \in OnElem \cup {"hit"} =>
             value[c] \in Elems /\ elem[value[c]].key \in IPs
       /\ pc[c] = "storeEntropy" => seen[c] \in {0, 1}

\* Every variable holds a value of its C type (counters never go negative),
\* and no CPU goes through a null pointer: one about to access an element
\* has a pointer to an element that holds a key.
TypeOK ==
  /\ now \in Nat /\ arrived \in Nat
  /\ blacklist \subseteq IPs
  /\ prev_interval_pkt \in Nat /\ cur_interval_pkt \in Nat /\ int_bits \in Nat
  /\ timestamp \in Nat
  /\ lock \in CPUs \cup {NoCPU}
  /\ logger \in [IPs -> Elems \cup {NoElem}]
  /\ elem \in [Elems -> Element]
  /\ LocalsOK

\* loc_ts.lock: exactly the CPU between bpf_spin_lock and bpf_spin_unlock
\* holds it, on each of the three paths out of the locked region.
LockHeld == \A c \in CPUs : pc[c] \in Critical <=> lock = c

\* Closing an interval is not covered by the lock.  What the double test of
\* the time stamp gives: two CPUs close intervals at the same time only for
\* packets that arrived more than Interval apart, that is, only when the
\* earlier of the two walks has lasted longer than an interval.
SeparatedCloses ==
  \A c, d \in CPUs :
     c # d /\ Closes(c) /\ Closes(d) =>
        ts[c] > ts[d] + Interval \/ ts[d] > ts[c] + Interval

\* loc_ts.timestamp is set once by the first packet and from then on only
\* moves forward, by more than Interval, though CPUs reach the test in
\* another order than that of their packets' time stamps.
StampAdvances ==
  [][timestamp' # timestamp => timestamp = 0 \/ timestamp' > timestamp + Interval]_vars

\* The test of the total and the growth of int_bits are not one step, so CPUs
\* that race grow it more than once for the same total.  They overshoot by at
\* most one bit per CPU: what is left without these bits is no wider than at
\* the start or after a close, or was needed for a total of packets received.
BitsBounded ==
  LET bits == int_bits - Cardinality(CPUs)
  IN  bits > InitBits /\ bits > MinBits => Pow2[bits - 1] <= arrived

\* An invocation that has started returns a verdict: no lock is left held,
\* no walk goes on for ever.
PacketsFinish == \A c \in CPUs : ~ Idle(c) ~> Idle(c)
=============================================================================
