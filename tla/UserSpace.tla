----------------------------- MODULE UserSpace ------------------------------
(***************************************************************************)
(* The version that analyses traffic in user space (user+ebpf/main): the   *)
(* XDP program of xdp_prog_kern.c, run by every CPU, only counts packets;  *)
(* the process of xdp_loader.c attaches it and then, once a second, runs   *)
(* calculate_ent, which reads the maps, shifts the counts and writes them  *)
(* back.  Nothing excludes the two: each action is one access to a map.    *)
(*                                                                         *)
(* As in InKernel the logger is a preallocated hash map whose elements are *)
(* memory cells.  An update of an existing key links a new element, also   *)
(* when the update comes from user space.                                  *)
(*                                                                         *)
(* The entropies, their average and beta are left out: they only feed a    *)
(* test whose consequence, an entry in the blacklist, is commented out.    *)
(***************************************************************************)
EXTENDS Integers, Sequences, FiniteSets, Functions

CONSTANTS
  CPUs,         \* the CPUs that run the XDP program
  Sources,      \* the IPv4 sources of the traffic
  Zero,         \* the address 0.0.0.0
  Elems,        \* the preallocated elements of the logger map
  NoIP,         \* no key
  NoElem,       \* the null pointer
  Blockable,    \* the sources an operator may put on the blacklist
  MaxEntries,   \* max_entries of the logger, and the size of entpy's arrays
  Garbage,      \* what logger_value->cur may be after malloc
  RoundUp,      \* the count at which the round-up is printed; 11 in the code
  MaxPkts       \* bound: IPv4 packets received

Keys == Sources \cup {Zero}

ASSUME ConstantsAssumption ==
  /\ IsFiniteSet(CPUs)
  /\ IsFiniteSet(Keys)
  /\ NoIP \notin Keys
  /\ NoElem \notin Elems
  /\ Blockable \subseteq Sources
  /\ MaxEntries \in Nat \ {0}
  /\ Garbage \subseteq Nat /\ Garbage # {}
  /\ RoundUp \in Nat \ {0}
  /\ MaxPkts \in Nat

\* Replacing the element of a key needs a free one even when the map is full.
ASSUME ElemsAssumption ==
  IsFiniteSet(Elems) /\ Cardinality(Elems) > MaxEntries

VARIABLES
  order,              \* the hash buckets of the keys, from a random seed
  arrived,            \* IPv4 packets received so far (bounds the model)
  blacklist,          \* map "blacklist": the /32 rules
  tx_port,            \* map "tx_port": whether slot 0 is filled
  prev_interval_pkt,  \* map "data"
  cur_interval_pkt,   \* map "data"
  logger,             \* map "logger": the element linked under a key
  elem,               \* map "logger": the contents of its elements
  pc,                 \* CPU: its next access, or its last verdict
  key,                \* CPU: the source of the packet
  value,              \* CPU: the pointer the lookup returned
  drop_flag,          \* CPU
  upc,                \* process: its next access
  snapshot,           \* process: data_value->cur_interval_pkt
  next_key,           \* process: the key the walk has reached
  ips,                \* process: entpy->ip
  k,                  \* process: the index of the last loop
  cur,                \* process: logger_value->cur
  holder,             \* process: packets since the last round-up
  count,              \* process: rounds since the last round-up
  told,               \* history: all that was ever added to holder
  present,            \* history: the flows when the walk began
  done                \* history: the keys the last loop has processed

env     == <<order, arrived, blacklist>>
data    == <<prev_interval_pkt, cur_interval_pkt>>
maps    == <<logger, elem>>
cpu     == <<pc, key, value, drop_flag>>
round   == <<snapshot, next_key, ips, k, cur, present, done>>
summary == <<holder, count, told>>
process == <<upc, round, summary>>
vars    == <<env, tx_port, data, maps, cpu, process>>

Verdicts == {"XDP_DROP", "XDP_ABORTED", "XDP_REDIRECT"}
Labels   == {"filter", "total", "flow", "hit", "miss", "return"}
Steps    == {"attach", "devmap", "sleep", "first", "walk", "write", "read", "store"}

Idle(c)   == pc[c] \in Verdicts
Flows     == {ip \in Keys : logger[ip] # NoElem}
Linked(e) == \E ip \in Keys : logger[ip] = e

\* struct logger_value, with the key the element is hashed under.
Element == [key : Keys \cup {NoIP}, prev : Nat, cur : Nat]

\* Every order of the keys without collisions.
Orders == {o \in [Keys -> 1 .. Cardinality(Keys)] :
             \A x, y \in Keys : o[x] = o[y] => x = y}

Init ==
  /\ order \in Orders
  /\ arrived = 0 /\ blacklist = {} /\ tx_port = FALSE
  /\ prev_interval_pkt = 0 /\ cur_interval_pkt = 0
  /\ logger = [ip \in Keys |-> NoElem]
  /\ elem = [e \in Elems |-> [key |-> NoIP, prev |-> 0, cur |-> 0]]
  /\ pc = [c \in CPUs |-> "XDP_ABORTED"]
  /\ key = [c \in CPUs |-> NoIP]
  /\ value = [c \in CPUs |-> NoElem]
  /\ drop_flag = [c \in CPUs |-> FALSE]
  /\ upc = "attach"
  /\ snapshot = 0 /\ next_key = NoIP /\ ips = << >> /\ k = 0 /\ cur = 0
  /\ present = {} /\ done = {}
  /\ holder = 0 /\ count = 0 /\ told = 0

----------------------------------------------------------------------------
(***************************************************************************)
(* The maps.                                                               *)
(***************************************************************************)

\* The cells when the element of ip is given back.  Counts of an element that
\* is not linked are overwritten before they are read, so they are forgotten.
Freed(ip) ==
  [e \in Elems |-> IF e = logger[ip] THEN [elem[e] EXCEPT !.prev = 0, !.cur = 0]
                   ELSE elem[e]]

\* bpf_map_update_elem(&logger, .., BPF_ANY): a new key finding the map full
\* fails, which both programs ignore; otherwise a free element is linked.
Update(ip, v) ==
  \/ /\ logger[ip] = NoElem
     /\ Cardinality(Flows) >= MaxEntries
     /\ UNCHANGED maps
  \/ /\ logger[ip] # NoElem \/ Cardinality(Flows) < MaxEntries
     /\ \E e \in {x \in Elems : ~ Linked(x)} :
          /\ logger' = [logger EXCEPT ![ip] = e]
          /\ elem' = [Freed(ip) EXCEPT ![e] = v]

\* bpf_map_delete_elem(&logger, ..)
Delete(ip) ==
  /\ logger' = [logger EXCEPT ![ip] = NoElem]
  /\ elem' = Freed(ip)

\* bpf_map_get_next_key on the logger: the next key in bucket order, the
\* first one when the given key is not in the map, NoIP at the end.
NextKey(ip) ==
  LET after == {x \in Flows : ip \in Flows => order[x] > order[ip]}
  IN  IF after = {} THEN NoIP
      ELSE CHOOSE x \in after : \A y \in after : order[x] <= order[y]

\* An operator adds a rule to the blacklist; the programs never do.
AddRule(ip) ==
  /\ ip \in Blockable \ blacklist
  /\ blacklist' = blacklist \cup {ip}
  /\ UNCHANGED <<order, arrived, tx_port, data, maps, cpu, process>>

----------------------------------------------------------------------------
(***************************************************************************)
(* The XDP program, once attached.                                         *)
(***************************************************************************)
Goto(c, label) == pc' = [pc EXCEPT ![c] = label]

\* bpf_redirect_map answers XDP_ABORTED when the slot of the devmap is empty.
bpf_redirect_map == IF tx_port THEN "XDP_REDIRECT" ELSE "XDP_ABORTED"

\* A frame too short for its Ethernet or IPv4 header.
ReceiveMalformed(c) ==
  /\ upc # "attach" /\ Idle(c)
  /\ Goto(c, "XDP_ABORTED")
  /\ UNCHANGED <<env, tx_port, data, maps, key, value, drop_flag, process>>

\* A frame that is not IPv4.
ReceiveOther(c) ==
  /\ upc # "attach" /\ Idle(c)
  /\ Goto(c, bpf_redirect_map)
  /\ UNCHANGED <<env, tx_port, data, maps, key, value, drop_flag, process>>

Receive(c, ip) ==
  /\ upc # "attach" /\ Idle(c)
  /\ arrived < MaxPkts
  /\ arrived' = arrived + 1
  /\ key' = [key EXCEPT ![c] = ip]
  /\ Goto(c, "filter")
  /\ UNCHANGED <<order, blacklist, tx_port, data, maps, value, drop_flag, process>>

\* The verdict on a blacklisted source is only noted: it is still counted.
Filter(c) ==
  /\ pc[c] = "filter"
  /\ drop_flag' = [drop_flag EXCEPT ![c] = key[c] \in blacklist]
  /\ Goto(c, "total")
  /\ UNCHANGED <<env, tx_port, data, maps, key, value, process>>

\* lock_xadd(&tmp->cur_interval_pkt, 1)
CountTotal(c) ==
  /\ pc[c] = "total"
  /\ cur_interval_pkt' = cur_interval_pkt + 1
  /\ Goto(c, "flow")
  /\ UNCHANGED <<env, tx_port, prev_interval_pkt, maps, key, value, drop_flag, process>>

\* Mutation: the null check of the lookup is missing.
LookupUnchecked(c) ==
  /\ pc[c] = "flow"
  /\ value' = [value EXCEPT ![c] = logger[key[c]]]
  /\ Goto(c, "hit")
  /\ UNCHANGED <<env, tx_port, data, maps, key, drop_flag, process>>

LookupFlow(c) ==
  /\ pc[c] = "flow"
  /\ value' = [value EXCEPT ![c] = logger[key[c]]]
  /\ Goto(c, IF logger[key[c]] = NoElem THEN "miss" ELSE "hit")
  /\ UNCHANGED <<env, tx_port, data, maps, key, drop_flag, process>>

\* lock_xadd(&value->cur, 1), whatever has become of the element meanwhile.
CountFlow(c) ==
  /\ pc[c] = "hit"
  /\ elem' = [elem EXCEPT ![value[c]].cur = @ + 1]
  /\ value' = [value EXCEPT ![c] = NoElem]
  /\ Goto(c, "return")
  /\ UNCHANGED <<env, tx_port, data, logger, key, drop_flag, process>>

InsertFlow(c) ==
  /\ pc[c] = "miss"
  /\ Update(key[c], [key |-> key[c], prev |-> 0, cur |-> 1])
  /\ Goto(c, "return")
  /\ UNCHANGED <<env, tx_port, data, key, value, drop_flag, process>>

ReturnVerdict(c) ==
  /\ pc[c] = "return"
  /\ Goto(c, IF drop_flag[c] THEN "XDP_DROP" ELSE bpf_redirect_map)
  /\ key' = [key EXCEPT ![c] = NoIP]
  /\ drop_flag' = [drop_flag EXCEPT ![c] = FALSE]
  /\ UNCHANGED <<env, tx_port, data, maps, value, process>>

CpuStep(c) ==
  \/ Filter(c)
  \/ CountTotal(c)
  \/ LookupFlow(c)
  \/ CountFlow(c)
  \/ InsertFlow(c)
  \/ ReturnVerdict(c)

----------------------------------------------------------------------------
(***************************************************************************)
(* The process: main, then the endless loop around calculate_ent.          *)
(***************************************************************************)

\* From here on every packet of the interface runs the XDP program.
Attach ==
  /\ upc = "attach"
  /\ upc' = "devmap"
  /\ UNCHANGED <<env, tx_port, data, maps, cpu, round, summary>>

\* The slot of the devmap is filled after the program is attached; a failure
\* is only printed.
SetTxPort ==
  /\ upc = "devmap"
  /\ tx_port' \in BOOLEAN
  /\ upc' = "sleep"
  /\ UNCHANGED <<env, data, maps, cpu, round, summary>>

\* After sleep(1): the lookup of the interval total.
ReadData ==
  /\ upc = "sleep"
  /\ snapshot' = cur_interval_pkt
  /\ upc' = "first"
  /\ UNCHANGED <<env, tx_port, data, maps, cpu, next_key, ips, k, cur, present, done, summary>>

\* Mutation: the result of bpf_map_get_next_key is tested for being positive,
\* which it never is.
FirstKeyNever ==
  /\ upc = "first"
  /\ present' = Flows
  /\ next_key' = NextKey(Zero)
  /\ ips' = <<Zero, Zero>>
  /\ cur' \in Garbage
  /\ upc' = "write"
  /\ UNCHANGED <<env, tx_port, data, maps, cpu, snapshot, k, done, summary>>

\* The walk starts after the key 0.  When there is no such key nothing is
\* written to the memory from malloc: entpy's pages are zero, as it is large
\* enough to be mapped afresh, logger_value holds anything.  With i = 1 the
\* last loop then looks at two entries.
FirstKey ==
  /\ upc = "first"
  /\ present' = Flows
  /\ next_key' = NextKey(Zero)
  /\ \/ /\ NextKey(Zero) = NoIP
        /\ ips' = <<Zero, Zero>>
        /\ cur' \in Garbage
        /\ upc' = "write"
     \/ /\ NextKey(Zero) # NoIP
        /\ upc' = "walk"
        /\ UNCHANGED <<ips, cur>>
  /\ UNCHANGED <<env, tx_port, data, maps, cpu, snapshot, k, done, summary>>

\* Mutation: key is not set to next_key, so the walk stays where it is.
WalkStuck ==
  /\ upc = "walk"
  /\ ips' = Append(ips, next_key)
  /\ next_key' = NextKey(Zero)
  /\ upc' = IF next_key' = NoIP THEN "write" ELSE "walk"
  /\ UNCHANGED <<env, tx_port, data, maps, cpu, snapshot, k, cur, present, done, summary>>

\* The entropy of the flow (its lookup succeeds: nobody else deletes flows),
\* its entry in entpy, and the next key.  The loop's own bound is the size
\* of the map.
Walk ==
  /\ upc = "walk"
  /\ ips' = Append(ips, next_key)
  /\ next_key' = NextKey(next_key)
  /\ upc' = IF next_key' = NoIP THEN "write" ELSE "walk"
  /\ UNCHANGED <<env, tx_port, data, maps, cpu, snapshot, k, cur, present, done, summary>>

\* The interval total of the snapshot is added up.
Summarise ==
  /\ holder' = holder + snapshot
  /\ told' = told + snapshot
  /\ UNCHANGED count

\* Mutation: the current total is left in the map.
WriteKept ==
  /\ upc = "write"
  /\ Summarise
  /\ prev_interval_pkt' = snapshot
  /\ k' = 0
  /\ upc' = "read"
  /\ UNCHANGED <<env, tx_port, cur_interval_pkt, maps, cpu, snapshot, next_key, ips, cur, present, done>>

\* The update of "data" overwrites what was counted since the snapshot.
WriteData ==
  /\ upc = "write"
  /\ Summarise
  /\ prev_interval_pkt' = snapshot
  /\ cur_interval_pkt' = 0
  /\ k' = 0
  /\ upc' = "read"
  /\ UNCHANGED <<env, tx_port, maps, cpu, snapshot, next_key, ips, cur, present, done>>

\* The last loop, per key: a failed lookup leaves logger_value as it was.
ReadFlow ==
  /\ upc = "read"
  /\ LET e == logger[ips[k + 1]]
     IN  cur' = IF e = NoElem THEN cur ELSE elem[e].cur
  /\ upc' = "store"
  /\ UNCHANGED <<env, tx_port, data, maps, cpu, snapshot, next_key, ips, k, present, done, summary>>

\* Mutation: k < i.
LastStrict(n) == n - 2

\* The last index, i for k <= i.  After the walk over n flows i is n - 1; it
\* is 1 when ips holds the two entries of the empty walk.
Last(n) == n - 1

\* The end of a round in main: the round-up.
EndRound ==
  LET c == IF holder > 0 THEN count + 1 ELSE count
  IN  /\ upc' = "sleep"
      /\ snapshot' = 0 /\ next_key' = NoIP /\ ips' = << >> /\ k' = 0 /\ cur' = 0
      /\ present' = {} /\ done' = {}
      /\ IF c = RoundUp
         THEN holder' = 0 /\ count' = 0
         ELSE count' = c /\ UNCHANGED holder
      /\ UNCHANGED told

NextFlow ==
  /\ upc' = "read"
  /\ k' = k + 1
  /\ cur' = 0
  /\ done' = done \cup {ips[k + 1]}
  /\ UNCHANGED <<snapshot, next_key, ips, present, summary>>

\* Mutation: the shifted count is not reset.
ShiftKept(ip) == [key |-> ip, prev |-> cur, cur |-> cur]

Shift(ip) == [key |-> ip, prev |-> cur, cur |-> 0]

\* Mutation: flows without packets are written back like the others.
WriteAlways ==
  /\ upc = "store"
  /\ LET ip == ips[k + 1] IN Update(ip, Shift(ip))
  /\ IF k < Last(Len(ips)) THEN NextFlow ELSE EndRound
  /\ UNCHANGED <<env, tx_port, data, cpu>>

\* The deletion or update decided by the last lookup; either way
\* logger_value->cur is 0 afterwards.
WriteFlow ==
  /\ upc = "store"
  /\ LET ip == ips[k + 1]
     IN  IF cur = 0 THEN Delete(ip) ELSE Update(ip, Shift(ip))
  /\ IF k < Last(Len(ips)) THEN NextFlow ELSE EndRound
  /\ UNCHANGED <<env, tx_port, data, cpu>>

UserStep ==
  \/ Attach
  \/ SetTxPort
  \/ ReadData
  \/ FirstKey
  \/ Walk
  \/ WriteData
  \/ ReadFlow
  \/ WriteFlow

Next ==
  \/ UserStep
  \/ \E ip \in Sources : AddRule(ip)
  \/ \E c \in CPUs :
       \/ ReceiveMalformed(c)
       \/ ReceiveOther(c)
       \/ \E ip \in Sources : Receive(c, ip)
       \/ CpuStep(c)

Spec == Init /\ [][Next]_vars

\* An invocation of the XDP program runs to its end, and the process is
\* scheduled: it neither waits for anything but sleep nor leaves its loop.
FairSpec == Spec /\ WF_vars(UserStep) /\ \A c \in CPUs : WF_vars(CpuStep(c))

----------------------------------------------------------------------------
(***************************************************************************)
(* Properties                                                              *)
(***************************************************************************)

\* Every variable holds a value of its C type; neither program goes through
\* a null pointer or reads entpy beyond what the walk has written.
TypeOK ==
  /\ order \in Orders
  /\ arrived \in Nat /\ blacklist \subseteq Sources /\ tx_port \in BOOLEAN
  /\ prev_interval_pkt \in Nat /\ cur_interval_pkt \in Nat
  /\ logger \in [Keys -> Elems \cup {NoElem}]
  /\ elem \in [Elems -> Element]
  /\ pc \in [CPUs -> Verdicts \cup Labels]
  /\ key \in [CPUs -> Keys \cup {NoIP}]
  /\ value \in [CPUs -> Elems \cup {NoElem}]
  /\ drop_flag \in [CPUs -> BOOLEAN]
  /\ \A c \in CPUs :
       /\ pc[c] \in Labels => key[c] \in Keys
       /\ pc[c] = "hit" => value[c] \in Elems
  /\ upc \in Steps
  /\ snapshot \in Nat /\ cur \in Nat /\ k \in Nat
  /\ next_key \in Keys \cup {NoIP}
  /\ ips \in Seq(Keys)
  /\ upc = "walk" => next_key \in Keys
  /\ upc \in {"read", "store"} => k < Len(ips)
  /\ holder \in Nat /\ count \in 0 .. RoundUp - 1 /\ told \in Nat
  /\ present \subseteq Keys /\ done \subseteq Keys

\* calculate_ent's walk reaches no flow twice, so entpy's arrays, which have
\* as many entries as the map, are large enough for it, though flows are
\* inserted all the while.
WalkFits ==
  upc \in {"walk", "write"} /\ present # {} =>
    \/ ips = <<Zero, Zero>>
    \/ /\ \A i, j \in DOMAIN ips : ips[i] = ips[j] => i = j
       /\ Len(ips) <= MaxEntries

\* The flows a walk that starts after the key 0 gets to.
Reached(flows) ==
  {ip \in flows : Zero \in flows => order[ip] > order[Zero]}

\* A round shifts or deletes every flow that was in the logger when its walk
\* began (except 0.0.0.0, if logged, and the flows before it): the bound
\* k <= i of the last loop makes up for i being one less than the flows.
RoundComplete ==
  [][upc = "store" /\ upc' = "sleep" =>
       Reached(present) \subseteq done \cup {ips[k + 1]}]_vars

\* The totals of the rounds never add up to more packets than were received.
TotalsOnce == told + cur_interval_pkt <= arrived

\* Between rounds the flows hold every packet at most once: what a round
\* copies from cur to prev it also takes out of cur, and the entry it makes
\* up in an empty logger does not outlive the round.
FlowsOnce ==
  upc = "sleep" =>
    SumFunctionOnSet([ip \in Flows |-> elem[logger[ip]].prev + elem[logger[ip]].cur], Flows) <= arrived

\* When traffic ends, every flow is eventually deleted from the logger, also
\* one that some rounds skip because 0.0.0.0 is logged.
FlowsExpire ==
  \A ip \in Sources \ {Zero} : <>[](logger[ip] = NoElem)
=============================================================================
