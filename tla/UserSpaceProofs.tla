--------------------------- MODULE UserSpaceProofs ---------------------------
(***************************************************************************)
(* Theorems about UserSpace, for any number of CPUs, sources and elements. *)
(***************************************************************************)
EXTENDS UserSpace, BasicTheorems

\* The prover of every leaf that does not name another one.
USE Zenon

\* Between the start of a walk and the end of the round.
InRound == {"walk", "write", "read", "store"}

\* What reading entpy within its bounds rests on: when the walk is over it has
\* left an entry.
EntriesOK ==
  /\ upc \notin InRound => ips = << >>
  /\ upc = "write" => Len(ips) > 0

\* A linked element is hashed under its key.
KeysMatch == \A ip \in Flows : elem[logger[ip]].key = ip

\* The kernel keeps the map within max_entries.
Bounded == Cardinality(Flows) <= MaxEntries

\* The entries of the walk are flows, in the order of their buckets.
Ascending ==
  \A i \in DOMAIN ips :
    /\ ips[i] \in Flows
    /\ \A j \in DOMAIN ips : i < j => order[ips[i]] < order[ips[j]]

\* The inductive invariant of the walk: all that it had to reach and that lies
\* before the key it has come to, it has entered.
WalkInv ==
  /\ upc \in {"walk", "write"} => present \subseteq Flows
  /\ upc = "walk" =>
       /\ next_key \in Flows
       /\ Ascending
       /\ \A i \in DOMAIN ips : order[ips[i]] < order[next_key]
       /\ \A ip \in Reached(present) :
            order[ip] < order[next_key] => \E i \in DOMAIN ips : ips[i] = ip
  /\ upc = "write" => ips = <<Zero, Zero>> \/ Ascending
  /\ upc \in {"write", "read", "store"} =>
       \A ip \in Reached(present) : \E i \in DOMAIN ips : ips[i] = ip
  /\ upc \in {"read", "store"} => \A i \in DOMAIN ips : i <= k => ips[i] \in done

\* The CPUs whose packet has arrived and is not counted in the total.
Uncounted == {c \in CPUs : pc[c] \in {"filter", "total"}}

\* The inductive invariant of the totals.
TotalInv ==
  /\ told + cur_interval_pkt + Cardinality(Uncounted) <= arrived
  /\ upc \in {"first", "walk", "write"} => snapshot <= cur_interval_pkt

\* The CPUs whose packet has arrived and is not counted in a flow.
Unlogged == {c \in CPUs : pc[c] \in {"filter", "total", "flow", "hit", "miss"}}

\* The entry that is made up for an empty walk is dealt with twice, and
\* what was written the first time is no packet.
MadeUp == upc \in {"read", "store"} /\ ips = <<Zero, Zero>>

\* The packets that the flow of ip stands for.
Packets ==
  [ip \in Keys |->
     IF ip \notin Flows THEN 0
     ELSE IF MadeUp /\ k = 1 /\ ip = Zero THEN elem[logger[ip]].cur
     ELSE elem[logger[ip]].prev + elem[logger[ip]].cur]

\* The inductive invariant of the flows: the count that the process has loaded
\* may stand for the same packets as the flow it was loaded from, and for no
\* others.
FlowInv ==
  /\ SumFunctionOnSet(Packets, Keys) + Cardinality(Unlogged) <= arrived
  /\ upc = "store" /\ ~ (MadeUp /\ k = 0) =>
       SumFunctionOnSet(Packets, Keys \ {ips[k + 1]}) + cur + Cardinality(Unlogged) <= arrived
  /\ upc = "read" => (MadeUp /\ k = 0) \/ cur = 0
  /\ upc = "write" => ips = <<Zero, Zero>> \/ cur = 0
  /\ upc \notin {"write", "read", "store"} => cur = 0

----------------------------------------------------------------------------
(***************************************************************************)
(* Types, and the logger as a map.                                         *)
(***************************************************************************)

\* Initially the logger is empty.
LEMMA TypingInit == ASSUME Init PROVE TypeOK /\ EntriesOK /\ KeysMatch /\ Flows = {}
<1>1. RoundUp \in Nat \ {0} /\ NoIP \notin Keys /\ NoElem \notin Elems
  BY ConstantsAssumption
<1>2. Flows = {} /\ KeysMatch
  BY DEF Init, Flows, KeysMatch
<1>3. EntriesOK
  BY DEF Init, EntriesOK, InRound
<1>4. elem \in [Elems -> Element]
  BY DEF Init, Element
<1>5. /\ logger \in [Keys -> Elems \cup {NoElem}]
      /\ pc \in [CPUs -> Verdicts \cup Labels] /\ \A c \in CPUs : pc[c] \notin Labels
      /\ key \in [CPUs -> Keys \cup {NoIP}] /\ value \in [CPUs -> Elems \cup {NoElem}]
      /\ drop_flag \in [CPUs -> BOOLEAN]
  BY DEF Init, Verdicts, Labels
<1>6. /\ snapshot \in Nat /\ cur \in Nat /\ k \in Nat /\ next_key \in Keys \cup {NoIP} /\ ips \in Seq(Keys)
      /\ holder \in Nat /\ count \in 0 .. RoundUp - 1 /\ told \in Nat
      /\ present \subseteq Keys /\ done \subseteq Keys /\ upc = "attach"
  BY <1>1, SMT DEF Init
<1>7. TypeOK
  BY <1>4, <1>5, <1>6 DEF Init, TypeOK, Labels, Steps
<1> QED BY <1>2, <1>3, <1>7

\* What the proofs below need of the types.
LEMMA Types ==
  ASSUME TypeOK
  PROVE  /\ pc \in [CPUs -> Verdicts \cup Labels]
         /\ key \in [CPUs -> Keys \cup {NoIP}]
         /\ value \in [CPUs -> Elems \cup {NoElem}]
         /\ elem \in [Elems -> Element]
         /\ logger \in [Keys -> Elems \cup {NoElem}]
         /\ \A c \in CPUs : /\ pc[c] \in Labels => key[c] \in Keys
                            /\ pc[c] = "hit" => value[c] \in Elems
         /\ NoElem \notin Elems /\ NoIP \notin Keys /\ Zero \in Keys /\ Sources \subseteq Keys
BY ConstantsAssumption DEF TypeOK, Keys

\* Giving an element back changes its counts only.
LEMMA FreedKeeps ==
  ASSUME TypeOK, NEW ip \in Keys
  PROVE  /\ Freed(ip) \in [Elems -> Element]
         /\ \A e \in Elems : Freed(ip)[e].key = elem[e].key
         /\ \A e \in Elems : e # logger[ip] => Freed(ip)[e] = elem[e]
<1>1. \A e \in Elems : elem[e] \in Element
  BY Types
<1>2. ASSUME NEW e \in Elems PROVE
        /\ Freed(ip)[e] = IF e = logger[ip] THEN [elem[e] EXCEPT !.prev = 0, !.cur = 0] ELSE elem[e]
        /\ [elem[e] EXCEPT !.prev = 0, !.cur = 0] \in Element
        /\ [elem[e] EXCEPT !.prev = 0, !.cur = 0].key = elem[e].key
  BY <1>1 DEF Freed, Element
<1>3. Freed(ip) = [e \in Elems |-> Freed(ip)[e]]
  BY DEF Freed
<1>4. \A e \in Elems : Freed(ip)[e] \in Element
  BY <1>1, <1>2
<1> QED BY <1>2, <1>3, <1>4

\* A successful update: the key is linked to an element with the value, and
\* the other links and their elements are left alone.
Linking(ip, v) ==
  /\ ip \in Flows'
  /\ elem'[logger'[ip]] = v
  /\ \A x \in Keys \ {ip} : logger'[x] = logger[x] /\ (x \in Flows => elem'[logger[x]] = elem[logger[x]])

\* An update fails only for a new key in a full map.
LEMMA UpdateMap ==
  ASSUME TypeOK, KeysMatch, NEW ip \in Keys, NEW v \in Element, v.key = ip, Update(ip, v)
  PROVE  /\ logger' \in [Keys -> Elems \cup {NoElem}]
         /\ elem' \in [Elems -> Element]
         /\ KeysMatch'
         /\ \/ ip \notin Flows /\ Cardinality(Flows) >= MaxEntries /\ UNCHANGED maps
            \/ (ip \in Flows \/ Cardinality(Flows) < MaxEntries) /\ Linking(ip, v) /\ Flows' = Flows \cup {ip}
<1>1. CASE logger[ip] = NoElem /\ Cardinality(Flows) >= MaxEntries /\ UNCHANGED maps
  BY <1>1, Types DEF maps, KeysMatch, Flows
<1>2. CASE /\ logger[ip] # NoElem \/ Cardinality(Flows) < MaxEntries
           /\ \E e \in {x \in Elems : ~ Linked(x)} :
                /\ logger' = [logger EXCEPT ![ip] = e]
                /\ elem' = [Freed(ip) EXCEPT ![e] = v]
  <2>1. PICK e \in Elems : ~ Linked(e) /\ logger' = [logger EXCEPT ![ip] = e] /\ elem' = [Freed(ip) EXCEPT ![e] = v]
    BY <1>2
  <2>2. logger' \in [Keys -> Elems \cup {NoElem}] /\ elem' \in [Elems -> Element]
    BY <2>1, Types, FreedKeeps
  <2>3. logger'[ip] = e /\ elem'[e] = v /\ e # NoElem /\ \A x \in Keys \ {ip} : logger'[x] = logger[x]
    BY <2>1, Types, FreedKeeps
  <2>4. Flows' = Flows \cup {ip}
    BY <2>3 DEF Flows
  <2>5. ASSUME NEW x \in Keys \ {ip}, x \in Flows PROVE elem'[logger[x]] = elem[logger[x]]
    <3>1. logger[x] \in Elems /\ elem[logger[x]].key = x
      BY <2>5, Types DEF Flows, KeysMatch
    <3>2. logger[x] # e
      BY <2>1, <2>5 DEF Linked
    <3>3. logger[x] # logger[ip]
      BY <3>1, Types DEF Flows, KeysMatch
    <3>4. elem'[logger[x]] = Freed(ip)[logger[x]]
      BY <2>1, <3>1, <3>2, FreedKeeps
    <3> QED BY <3>1, <3>3, <3>4, FreedKeeps
  <2>6. Linking(ip, v)
    BY <2>3, <2>4, <2>5 DEF Linking
  <2>7. KeysMatch'
    <3> SUFFICES ASSUME NEW x \in Flows' PROVE elem'[logger'[x]].key = x
      BY DEF KeysMatch
    <3>1. CASE x = ip
      BY <2>3, <3>1
    <3>2. CASE x # ip
      BY <2>4, <2>6, <3>2, SMT DEF Linking, KeysMatch, Flows
    <3> QED BY <3>1, <3>2
  <2> QED BY <1>2, <2>2, <2>4, <2>6, <2>7 DEF Flows
<1> QED BY <1>1, <1>2 DEF Update

\* A deletion unlinks the key, and leaves the others alone.
LEMMA DeleteMap ==
  ASSUME TypeOK, KeysMatch, NEW ip \in Keys, Delete(ip)
  PROVE  /\ logger' \in [Keys -> Elems \cup {NoElem}]
         /\ elem' \in [Elems -> Element]
         /\ KeysMatch'
         /\ Flows' = Flows \ {ip}
         /\ \A x \in Keys \ {ip} : logger'[x] = logger[x] /\ (x \in Flows => elem'[logger[x]] = elem[logger[x]])
<1>1. logger' \in [Keys -> Elems \cup {NoElem}] /\ elem' \in [Elems -> Element]
  BY Types, FreedKeeps DEF Delete
<1>2. logger'[ip] = NoElem /\ \A x \in Keys \ {ip} : logger'[x] = logger[x]
  BY Types DEF Delete
<1>3. Flows' = Flows \ {ip}
  BY <1>2 DEF Flows
<1>4. ASSUME NEW x \in Keys \ {ip}, x \in Flows PROVE elem'[logger[x]] = elem[logger[x]]
  <2>1. logger[x] \in Elems /\ elem[logger[x]].key = x
    BY <1>4, Types DEF Flows, KeysMatch
  <2>2. logger[x] # logger[ip]
    BY <2>1, Types DEF Flows, KeysMatch
  <2> QED BY <2>1, <2>2, FreedKeeps DEF Delete
<1>5. KeysMatch'
  BY <1>2, <1>3, <1>4, SMT DEF KeysMatch, Flows
<1> QED BY <1>1, <1>2, <1>3, <1>4, <1>5

\* bpf_map_get_next_key returns the first of the keys that come after.
LEMMA NextKeyIs ==
  ASSUME TypeOK, NEW ip, NEW after, after = {x \in Flows : ip \in Flows => order[x] > order[ip]}
  PROVE  \/ after = {} /\ NextKey(ip) = NoIP
         \/ NextKey(ip) \in after /\ \A y \in after : order[NextKey(ip)] <= order[y]
<1>1. CASE after = {}
  BY <1>1 DEF NextKey
<1>2. CASE after # {}
  <2>1. after \subseteq Keys /\ order \in [Keys -> 1 .. Cardinality(Keys)]
    BY DEF Flows, TypeOK, Orders
  <2>2. \A x \in after : order[x] \in Nat
    BY <2>1, SMT
  <2>3. {order[x] : x \in after} \subseteq Nat /\ {order[x] : x \in after} # {}
    BY <1>2, <2>2
  <2>4. PICK n \in {order[x] : x \in after} : \A m \in {order[x] : x \in after} : n <= m
    BY <2>3, LeastNatural
  <2>5. \E x \in after : \A y \in after : order[x] <= order[y]
    BY <2>4
  <2>6. NextKey(ip) = CHOOSE x \in after : \A y \in after : order[x] <= order[y]
    BY <1>2 DEF NextKey
  <2> QED BY <2>5, <2>6
<1> QED BY <1>1, <1>2

\* It is a key of the logger, if any.
LEMMA NextKeyType ==
  ASSUME TypeOK, NEW ip
  PROVE  NextKey(ip) = NoIP \/ NextKey(ip) \in Flows
<1>1. PICK after : after = {x \in Flows : ip \in Flows => order[x] > order[ip]}
  OBVIOUS
<1> QED BY <1>1, NextKeyIs

\* What the process reads and writes.
ProcessVars == <<upc, snapshot, next_key, ips, k, cur, holder, count, told, present, done>>

\* The steps of the CPUs keep the types.
LEMMA TypingCpu ==
  ASSUME TypeOK, EntriesOK, KeysMatch, NEW c \in CPUs,
         \/ ReceiveMalformed(c) \/ ReceiveOther(c) \/ (\E ip \in Sources : Receive(c, ip))
         \/ CpuStep(c)
  PROVE  TypeOK' /\ EntriesOK' /\ KeysMatch' /\ UNCHANGED ProcessVars /\ order' = order
<1>1. UNCHANGED ProcessVars /\ UNCHANGED <<order, blacklist, tx_port, prev_interval_pkt>>
  BY DEF ReceiveMalformed, ReceiveOther, Receive, CpuStep, Filter, CountTotal, LookupFlow, CountFlow,
     InsertFlow, ReturnVerdict, env, data, process, round, summary, ProcessVars
<1>2. arrived' \in Nat /\ cur_interval_pkt' \in Nat
  BY SMT DEF ReceiveMalformed, ReceiveOther, Receive, CpuStep, Filter, CountTotal, LookupFlow, CountFlow,
     InsertFlow, ReturnVerdict, env, data, TypeOK
<1>3. /\ pc' \in [CPUs -> Verdicts \cup Labels]
      /\ key' \in [CPUs -> Keys \cup {NoIP}]
      /\ value' \in [CPUs -> Elems \cup {NoElem}]
      /\ \A d \in CPUs : /\ pc'[d] \in Labels => key'[d] \in Keys
                         /\ pc'[d] = "hit" => value'[d] \in Elems
  <2>1. CASE ReceiveMalformed(c) \/ ReceiveOther(c) \/ (\E ip \in Sources : Receive(c, ip))
    BY <2>1, Types DEF ReceiveMalformed, ReceiveOther, Receive, Goto, bpf_redirect_map, Verdicts, Labels
  <2>2. CASE Filter(c) \/ CountTotal(c) \/ CountFlow(c) \/ InsertFlow(c) \/ ReturnVerdict(c)
    BY <2>2, Types, SMT DEF Filter, CountTotal, CountFlow, InsertFlow, ReturnVerdict, Goto,
       bpf_redirect_map, Verdicts, Labels
  <2>3. CASE LookupFlow(c)
    BY <2>3, Types DEF LookupFlow, Goto, Verdicts, Labels
  <2> QED BY <2>1, <2>2, <2>3 DEF CpuStep
<1>4. drop_flag' \in [CPUs -> BOOLEAN]
  <2>1. drop_flag \in [CPUs -> BOOLEAN] BY DEF TypeOK
  <2>2. CASE UNCHANGED drop_flag
    BY <2>1, <2>2
  <2>3. CASE Filter(c)
    <3>1. drop_flag' = [drop_flag EXCEPT ![c] = key[c] \in blacklist]
      BY <2>3 DEF Filter
    <3>2. (key[c] \in blacklist) \in BOOLEAN
      BY SMT
    <3> QED BY <2>1, <3>1, <3>2, SMT
  <2>4. CASE ReturnVerdict(c)
    BY <2>1, <2>4 DEF ReturnVerdict
  <2> QED BY <2>2, <2>3, <2>4 DEF ReceiveMalformed, ReceiveOther, Receive, CpuStep, CountTotal,
     LookupFlow, CountFlow, InsertFlow
<1>5. logger' \in [Keys -> Elems \cup {NoElem}] /\ elem' \in [Elems -> Element] /\ KeysMatch'
  <2>1. CASE UNCHANGED maps
    BY <2>1, Types DEF maps, KeysMatch, Flows
  <2>2. CASE CountFlow(c)
    <3>1. value[c] \in Elems /\ elem[value[c]] \in Element /\ elem' = [elem EXCEPT ![value[c]].cur = @ + 1] /\ logger' = logger
      BY <2>2, Types DEF CountFlow
    <3>2. elem' \in [Elems -> Element]
      BY <3>1, Types, SMT DEF Element
    <3>3. \A e \in Elems : elem'[e].key = elem[e].key
      BY <3>1, Types DEF Element
    <3> QED BY <3>1, <3>2, <3>3, Types DEF KeysMatch, Flows
  <2>3. CASE InsertFlow(c)
    <3>1. key[c] \in Keys
      BY <2>3, Types DEF InsertFlow, Labels
    <3>2. PICK ip, v : ip = key[c] /\ v = [key |-> key[c], prev |-> 0, cur |-> 1]
      OBVIOUS
    <3>3. v \in Element /\ v.key = ip /\ Update(ip, v)
      BY <2>3, <3>1, <3>2 DEF Element, InsertFlow
    <3> QED BY <3>1, <3>2, <3>3, UpdateMap
  <2> QED BY <2>1, <2>2, <2>3 DEF ReceiveMalformed, ReceiveOther, Receive, CpuStep, Filter, CountTotal,
     LookupFlow, ReturnVerdict
<1>6. EntriesOK'
  BY <1>1 DEF EntriesOK, ProcessVars
<1>7. TypeOK'
  BY <1>1, <1>2, <1>3, <1>4, <1>5 DEF TypeOK, ProcessVars
<1> QED BY <1>1, <1>5, <1>6, <1>7

\* The entries made up for an empty walk.
LEMMA MadeUpEntries ==
  ASSUME NEW s, s = <<Zero, Zero>>
  PROVE  s \in Seq(Keys) /\ Len(s) = 2 /\ DOMAIN s = 1 .. 2 /\ s[1] = Zero /\ s[2] = Zero
<1>1. Zero \in Keys
  BY DEF Keys
<1> QED BY <1>1, SMT

\* What the CPUs read and write.
CpuVars == <<order, arrived, blacklist, pc, key, value, drop_flag>>

\* The steps of the process keep the types.
LEMMA TypingUser ==
  ASSUME TypeOK, EntriesOK, KeysMatch, UserStep
  PROVE  TypeOK' /\ EntriesOK' /\ KeysMatch' /\ UNCHANGED CpuVars
<1>0. /\ snapshot \in Nat /\ cur \in Nat /\ k \in Nat /\ next_key \in Keys \cup {NoIP} /\ ips \in Seq(Keys)
      /\ holder \in Nat /\ count \in 0 .. RoundUp - 1 /\ told \in Nat
      /\ present \subseteq Keys /\ done \subseteq Keys /\ upc \in Steps
      /\ prev_interval_pkt \in Nat /\ cur_interval_pkt \in Nat /\ tx_port \in BOOLEAN
      /\ upc = "walk" => next_key \in Keys
      /\ upc \in {"read", "store"} => k < Len(ips)
      /\ RoundUp \in Nat \ {0} /\ Garbage \subseteq Nat
  BY ConstantsAssumption DEF TypeOK
<1>1. UNCHANGED CpuVars
  BY DEF UserStep, Attach, SetTxPort, ReadData, FirstKey, Walk, WriteData, ReadFlow, WriteFlow, env, cpu, CpuVars
<1>2. ASSUME UNCHANGED maps PROVE logger' \in [Keys -> Elems \cup {NoElem}] /\ elem' \in [Elems -> Element] /\ KeysMatch'
  BY <1>2, Types DEF maps, KeysMatch, Flows
<1>3. CASE Attach \/ SetTxPort \/ ReadData
  <2>1. /\ upc \notin InRound /\ upc' \notin InRound /\ upc' \in Steps
        /\ UNCHANGED <<maps, prev_interval_pkt, cur_interval_pkt, next_key, ips, k, cur, holder, count, told, present, done>>
        /\ snapshot' \in Nat /\ tx_port' \in BOOLEAN
    BY <1>0, <1>3 DEF Attach, SetTxPort, ReadData, InRound, Steps, data, round, summary
  <2>2. EntriesOK'
    BY <2>1 DEF EntriesOK, InRound
  <2> QED BY <1>0, <1>1, <1>2, <2>1, <2>2 DEF TypeOK, CpuVars, InRound
<1>4. CASE FirstKey
  <2>1. /\ upc = "first" /\ UNCHANGED <<maps, tx_port, prev_interval_pkt, cur_interval_pkt, snapshot, k, holder, count, told, done>>
        /\ present' \subseteq Keys /\ next_key' = NextKey(Zero)
        /\ \/ upc' = "write" /\ ips' = <<Zero, Zero>> /\ cur' \in Nat
           \/ upc' = "walk" /\ UNCHANGED <<ips, cur>> /\ NextKey(Zero) # NoIP
    BY <1>0, <1>4 DEF FirstKey, data, summary, Flows
  <2>2. next_key' \in Keys \cup {NoIP} /\ (upc' = "walk" => next_key' \in Keys)
    BY <2>1, NextKeyType DEF Flows
  <2>3. ips' \in Seq(Keys) /\ (upc' = "write" => Len(ips') > 0)
    <3>1. CASE upc' = "write" /\ ips' = <<Zero, Zero>>
      BY <3>1, MadeUpEntries, SMT
    <3>2. CASE upc' = "walk" /\ ips' = ips
      BY <1>0, <3>2
    <3> QED BY <2>1, <3>1, <3>2
  <2>4. EntriesOK'
    BY <2>1, <2>3 DEF EntriesOK, InRound
  <2> QED BY <1>0, <1>1, <1>2, <2>1, <2>2, <2>3, <2>4 DEF TypeOK, CpuVars, Steps
<1>5. CASE Walk
  <2>1. /\ upc = "walk"
        /\ UNCHANGED <<maps, tx_port, prev_interval_pkt, cur_interval_pkt, snapshot, k, cur, holder, count,
                       told, present, done>>
        /\ next_key' = NextKey(next_key) /\ ips' = Append(ips, next_key)
        /\ upc' \in {"write", "walk"} /\ (upc' = "walk" => next_key' # NoIP)
    BY <1>5 DEF Walk, data, summary
  <2>2. next_key' \in Keys \cup {NoIP} /\ (upc' = "walk" => next_key' \in Keys)
    BY <2>1, NextKeyType DEF Flows
  <2>3. ips' \in Seq(Keys) /\ Len(ips') > 0
    BY <1>0, <2>1, SMT
  <2>4. EntriesOK'
    BY <2>1, <2>3 DEF EntriesOK, InRound
  <2> QED BY <1>0, <1>1, <1>2, <2>1, <2>2, <2>3, <2>4 DEF TypeOK, CpuVars, Steps
<1>6. CASE WriteData
  <2>1. /\ upc = "write" /\ upc' = "read" /\ k' = 0 /\ cur_interval_pkt' = 0 /\ prev_interval_pkt' \in Nat
        /\ holder' \in Nat /\ told' \in Nat
        /\ UNCHANGED <<maps, tx_port, snapshot, next_key, ips, cur, count, present, done>>
    BY <1>0, <1>6, SMT DEF WriteData, Summarise
  <2>2. Len(ips) > 0
    BY <2>1 DEF EntriesOK
  <2>3. EntriesOK'
    BY <2>1 DEF EntriesOK, InRound
  <2> QED BY <1>0, <1>1, <1>2, <2>1, <2>2, <2>3 DEF TypeOK, CpuVars, Steps
<1>7. CASE ReadFlow
  <2>1. /\ upc = "read" /\ upc' = "store"
        /\ cur' = IF logger[ips[k + 1]] = NoElem THEN cur ELSE elem[logger[ips[k + 1]]].cur
        /\ UNCHANGED <<maps, tx_port, prev_interval_pkt, cur_interval_pkt, snapshot, next_key, ips, k,
                       holder, count, told, present, done>>
    BY <1>7 DEF ReadFlow, data, summary
  <2>2. ips[k + 1] \in Keys
    BY <1>0, <2>1, SMT
  <2>3. \A e \in Elems : elem[e].cur \in Nat
    BY Types DEF Element
  <2>4. cur' \in Nat
    BY <1>0, <2>1, <2>2, <2>3, Types
  <2>5. EntriesOK'
    BY <2>1 DEF EntriesOK, InRound
  <2> QED BY <1>0, <1>1, <1>2, <2>1, <2>4, <2>5 DEF TypeOK, CpuVars, Steps
<1>8. CASE WriteFlow
  <2>1. upc = "store" /\ UNCHANGED <<tx_port, prev_interval_pkt, cur_interval_pkt>> /\ k < Len(ips)
    BY <1>0, <1>8 DEF WriteFlow, data
  <2>2. PICK ip, v : ip = ips[k + 1] /\ v = Shift(ip)
    OBVIOUS
  <2>3. ip \in Keys /\ v \in Element /\ v.key = ip
    BY <1>0, <2>1, <2>2, SMT DEF Shift, Element
  <2>4. Delete(ip) \/ Update(ip, v)
    BY <1>8, <2>2 DEF WriteFlow
  <2>5. logger' \in [Keys -> Elems \cup {NoElem}] /\ elem' \in [Elems -> Element] /\ KeysMatch'
    BY <2>3, <2>4, UpdateMap, DeleteMap
  <2>6. CASE k < Last(Len(ips)) /\ NextFlow
    <3>1. /\ upc' = "read" /\ k' = k + 1 /\ cur' = 0 /\ done' \subseteq Keys /\ k' < Len(ips)
          /\ UNCHANGED <<snapshot, next_key, ips, present, holder, count, told>>
      BY <1>0, <2>2, <2>3, <2>6, SMT DEF NextFlow, Last, summary
    <3>2. EntriesOK'
      BY <3>1 DEF EntriesOK, InRound
    <3> QED BY <1>0, <1>1, <2>1, <2>5, <3>1, <3>2, SMT DEF TypeOK, CpuVars, Steps
  <2>7. CASE EndRound
    <3>1. /\ upc' = "sleep" /\ snapshot' = 0 /\ next_key' = NoIP /\ ips' = << >> /\ k' = 0 /\ cur' = 0
          /\ present' = {} /\ done' = {} /\ told' = told
          /\ \/ holder' = 0 /\ count' = 0
             \/ holder' = holder /\ count' \in {count, count + 1} /\ count' # RoundUp
      BY <2>7 DEF EndRound
    <3>2. count' \in 0 .. RoundUp - 1 /\ holder' \in Nat
      BY <1>0, <3>1, SMT
    <3>3. EntriesOK'
      BY <3>1 DEF EntriesOK, InRound
    <3> QED BY <1>0, <1>1, <2>1, <2>5, <3>1, <3>2, <3>3, SMT DEF TypeOK, CpuVars, Steps
  <2> QED BY <1>8, <2>6, <2>7 DEF WriteFlow
<1> QED BY <1>1, <1>3, <1>4, <1>5, <1>6, <1>7, <1>8 DEF UserStep

\* How a step changes the set of flows.
LEMMA FlowsStep ==
  ASSUME TypeOK, KeysMatch, [Next]_vars
  PROVE  \/ Flows' = Flows
         \/ \E ip \in Keys : \/ upc = "store" /\ Flows' = Flows \ {ip}
                             \/ (ip \in Flows \/ Cardinality(Flows) < MaxEntries) /\ Flows' = Flows \cup {ip}
<1>1. CASE UNCHANGED logger
  BY <1>1 DEF Flows
<1>2. ASSUME NEW c \in CPUs, InsertFlow(c)
      PROVE  Flows' = Flows \/ \E ip \in Keys : (ip \in Flows \/ Cardinality(Flows) < MaxEntries) /\ Flows' = Flows \cup {ip}
  <2>1. key[c] \in Keys
    BY <1>2, Types DEF InsertFlow, Labels
  <2>2. PICK ip, v : ip = key[c] /\ v = [key |-> key[c], prev |-> 0, cur |-> 1]
    OBVIOUS
  <2>3. v \in Element /\ v.key = ip /\ Update(ip, v)
    BY <1>2, <2>1, <2>2 DEF Element, InsertFlow
  <2>4. \/ UNCHANGED maps
        \/ (ip \in Flows \/ Cardinality(Flows) < MaxEntries) /\ Flows' = Flows \cup {ip}
    BY <2>1, <2>2, <2>3, UpdateMap
  <2> QED BY <2>1, <2>2, <2>4 DEF maps, Flows
<1>3. CASE WriteFlow
  <2>1. upc = "store" /\ ips[k + 1] \in Keys /\ cur \in Nat
    BY <1>3, SMT DEF WriteFlow, TypeOK
  <2>2. PICK ip, v : ip = ips[k + 1] /\ v = Shift(ip)
    OBVIOUS
  <2>3. v \in Element /\ v.key = ip
    BY <2>1, <2>2 DEF Shift, Element
  <2>4. Delete(ip) \/ Update(ip, v)
    BY <1>3, <2>2 DEF WriteFlow
  <2>5. CASE Delete(ip)
    BY <2>1, <2>2, <2>5, DeleteMap
  <2>6. CASE Update(ip, v)
    <3>1. \/ UNCHANGED maps
          \/ (ip \in Flows \/ Cardinality(Flows) < MaxEntries) /\ Flows' = Flows \cup {ip}
      BY <2>1, <2>2, <2>3, <2>6, UpdateMap
    <3> QED BY <2>1, <2>2, <3>1 DEF maps, Flows
  <2> QED BY <2>4, <2>5, <2>6
<1>4. CASE \/ Attach \/ SetTxPort \/ ReadData \/ FirstKey \/ Walk \/ WriteData \/ ReadFlow
           \/ (\E ip \in Sources : AddRule(ip)) \/ UNCHANGED vars
  BY <1>1, <1>4 DEF Attach, SetTxPort, ReadData, FirstKey, Walk, WriteData, ReadFlow, AddRule, vars, maps
<1>5. ASSUME NEW c \in CPUs,
             \/ ReceiveMalformed(c) \/ ReceiveOther(c) \/ (\E ip \in Sources : Receive(c, ip))
             \/ Filter(c) \/ CountTotal(c) \/ LookupFlow(c) \/ CountFlow(c) \/ ReturnVerdict(c)
      PROVE  UNCHANGED logger
  BY <1>5 DEF ReceiveMalformed, ReceiveOther, Receive, Filter, CountTotal, LookupFlow, CountFlow, ReturnVerdict, maps
<1> QED BY <1>1, <1>2, <1>3, <1>4, <1>5 DEF Next, UserStep, CpuStep

\* The map never holds more than max_entries keys.
LEMMA CapacityStep ==
  ASSUME TypeOK, KeysMatch, Cardinality(Flows) <= MaxEntries, [Next]_vars
  PROVE  Cardinality(Flows') <= MaxEntries
<1>1. IsFiniteSet(Flows) /\ Cardinality(Flows) \in Nat /\ MaxEntries \in Nat
  BY ConstantsAssumption, FS_Subset, FS_CardinalityType DEF Flows
<1>2. ASSUME NEW ip \in Keys, Flows' = Flows \ {ip} PROVE Cardinality(Flows') <= MaxEntries
  <2>1. IsFiniteSet(Flows \ {ip}) /\ Flows \ {ip} \subseteq Flows
    BY <1>1, FS_RemoveElement
  <2>2. Cardinality(Flows \ {ip}) <= Cardinality(Flows) /\ Cardinality(Flows \ {ip}) \in Nat
    BY <1>1, <2>1, FS_Subset, FS_CardinalityType
  <2> QED BY <1>1, <1>2, <2>2, SMT
<1>3. ASSUME NEW ip \in Keys, ip \in Flows \/ Cardinality(Flows) < MaxEntries, Flows' = Flows \cup {ip}
      PROVE  Cardinality(Flows') <= MaxEntries
  <2>1. CASE ip \in Flows
    <3>1. Flows' = Flows
      BY <1>3, <2>1
    <3> QED BY <3>1
  <2>2. CASE ip \notin Flows
    <3>1. Cardinality(Flows \cup {ip}) = Cardinality(Flows) + 1
      BY <1>1, <2>2, FS_AddElement
    <3> QED BY <1>1, <1>3, <2>2, <3>1, SMT
  <2> QED BY <2>1, <2>2
<1> QED BY <1>2, <1>3, FlowsStep

\* Every step keeps the types and the map.
LEMMA TypingStep ==
  ASSUME TypeOK, EntriesOK, KeysMatch, [Next]_vars
  PROVE  TypeOK' /\ EntriesOK' /\ KeysMatch'
<1>1. CASE UNCHANGED vars
  BY <1>1 DEF vars, env, data, maps, cpu, process, round, summary, TypeOK, EntriesOK, KeysMatch, Flows
<1>2. ASSUME NEW ip \in Sources, AddRule(ip) PROVE TypeOK' /\ EntriesOK' /\ KeysMatch'
  <2>1. /\ UNCHANGED <<order, arrived, tx_port, data, maps, cpu, process>>
        /\ blacklist' \subseteq Sources
    BY <1>2 DEF AddRule, TypeOK
  <2> QED BY <2>1 DEF data, maps, cpu, process, round, summary, TypeOK, EntriesOK, KeysMatch, Flows
<1> QED BY <1>1, <1>2, TypingCpu, TypingUser DEF Next

\* The invariant that the other proofs start from.
LEMMA MapInvariant == Spec => [](TypeOK /\ EntriesOK /\ KeysMatch /\ Bounded)
<1> DEFINE Inv == TypeOK /\ EntriesOK /\ KeysMatch /\ Bounded
<1>1. Init => Inv
  <2>1. MaxEntries \in Nat
    BY ConstantsAssumption
  <2> QED BY <2>1, TypingInit, FS_EmptySet, SMT DEF Bounded
<1>2. Inv /\ [Next]_vars => Inv'
  BY TypingStep, CapacityStep DEF Bounded
<1> QED BY <1>1, <1>2, PTL DEF Spec

\* Neither program goes through a null pointer, and the process reads entpy
\* only where its walk, or the empty walk, has written.
THEOREM Typing == Spec => []TypeOK
BY MapInvariant, PTL

----------------------------------------------------------------------------
(***************************************************************************)
(* The walk of calculate_ent.                                              *)
(***************************************************************************)

\* While the process stands still flows may come but not go.
LEMMA WalkQuiet ==
  ASSUME WalkInv, UNCHANGED ProcessVars, order' = order, Flows \subseteq Flows'
  PROVE  WalkInv'
<1>1. UNCHANGED <<upc, next_key, ips, k, present, done>>
  BY DEF ProcessVars
<1>2. Reached(present)' = Reached(present)
  BY <1>1 DEF Reached
<1>3. Ascending => Ascending'
  BY <1>1 DEF Ascending
<1> QED BY <1>1, <1>2, <1>3 DEF WalkInv

\* What the walk needs of the types.
LEMMA WalkTypes ==
  ASSUME TypeOK
  PROVE  /\ ips \in Seq(Keys) /\ DOMAIN ips = 1 .. Len(ips) /\ Len(ips) \in Nat
         /\ \A x \in Keys : order[x] \in Nat
         /\ \A x, y \in Keys : order[x] = order[y] => x = y
         /\ Flows \subseteq Keys /\ NoIP \notin Keys
<1>1. order \in [Keys -> 1 .. Cardinality(Keys)] /\ \A x, y \in Keys : order[x] = order[y] => x = y
  BY DEF TypeOK, Orders
<1>2. ips \in Seq(Keys)
  BY DEF TypeOK
<1> QED BY <1>1, <1>2, ConstantsAssumption, SMT DEF Flows

\* The walk starts at the first flow it has to reach.
LEMMA WalkFirst ==
  ASSUME TypeOK, EntriesOK, WalkInv, FirstKey
  PROVE  WalkInv'
<1>1. /\ upc = "first" /\ UNCHANGED <<maps, order>> /\ present' = Flows /\ next_key' = NextKey(Zero) /\ ips = << >>
      /\ \/ upc' = "write" /\ ips' = <<Zero, Zero>> /\ NextKey(Zero) = NoIP
         \/ upc' = "walk" /\ ips' = ips /\ NextKey(Zero) # NoIP
  BY DEF FirstKey, EntriesOK, InRound, env
<1>2. Flows' = Flows
  BY <1>1 DEF maps, Flows
<1>3. PICK after : after = {x \in Flows : Zero \in Flows => order[x] > order[Zero]}
  OBVIOUS
<1>4. Reached(present)' = after
  BY <1>1, <1>3 DEF Reached
<1>5. \/ after = {} /\ NextKey(Zero) = NoIP
      \/ NextKey(Zero) \in after /\ \A y \in after : order[NextKey(Zero)] <= order[y]
  BY <1>3, NextKeyIs
<1>6. CASE upc' = "write" /\ ips' = <<Zero, Zero>> /\ NextKey(Zero) = NoIP
  <2>1. after = {}
    BY <1>3, <1>5, <1>6, WalkTypes
  <2> QED BY <1>1, <1>2, <1>4, <1>6, <2>1 DEF WalkInv
<1>7. CASE upc' = "walk" /\ ips' = ips /\ NextKey(Zero) # NoIP
  <2>1. NextKey(Zero) \in Flows /\ \A y \in after : y \in Keys /\ order[NextKey(Zero)] <= order[y]
    BY <1>3, <1>5, <1>7, WalkTypes
  <2>2. \A y \in after : ~ (order[y] < order[NextKey(Zero)])
    BY <2>1, WalkTypes, SMT
  <2>3. DOMAIN ips' = {}
    BY <1>1, <1>7, SMT
  <2>4. Ascending'
    BY <2>3 DEF Ascending
  <2> QED BY <1>1, <1>2, <1>4, <1>7, <2>1, <2>2, <2>3, <2>4 DEF WalkInv
<1> QED BY <1>1, <1>6, <1>7

\* A step of the walk enters a flow and goes on to the next one.
LEMMA WalkOn ==
  ASSUME TypeOK, WalkInv, Walk
  PROVE  WalkInv'
<1>1. /\ upc = "walk" /\ UNCHANGED <<maps, order, present>> /\ next_key' = NextKey(next_key)
      /\ ips' = Append(ips, next_key)
      /\ upc' = IF next_key' = NoIP THEN "write" ELSE "walk"
  BY DEF Walk, env
<1>2. Flows' = Flows /\ Reached(present)' = Reached(present) /\ present \subseteq Flows /\ Reached(present) \subseteq Flows
  BY <1>1 DEF maps, Flows, Reached, WalkInv
<1>3. /\ next_key \in Flows /\ Ascending
      /\ \A i \in DOMAIN ips : order[ips[i]] < order[next_key]
      /\ \A ip \in Reached(present) : order[ip] < order[next_key] => \E i \in DOMAIN ips : ips[i] = ip
  BY <1>1 DEF WalkInv
<1>4. /\ DOMAIN ips' = 1 .. Len(ips) + 1 /\ DOMAIN ips = 1 .. Len(ips) /\ Len(ips) \in Nat
      /\ ips'[Len(ips) + 1] = next_key
      /\ \A i \in DOMAIN ips : ips'[i] = ips[i]
  BY <1>1, <1>3, WalkTypes, SMT
<1>5. PICK after : after = {x \in Flows : next_key \in Flows => order[x] > order[next_key]}
  OBVIOUS
<1>6. \/ after = {} /\ next_key' = NoIP
      \/ next_key' \in after /\ \A y \in after : order[next_key'] <= order[y]
  BY <1>1, <1>5, NextKeyIs
<1>7. Ascending'
  <2>1. ASSUME NEW i \in DOMAIN ips' PROVE ips'[i] \in Flows
    BY <1>3, <1>4, SMT DEF Ascending
  <2>2. ASSUME NEW i \in DOMAIN ips', NEW j \in DOMAIN ips', i < j
        PROVE  order[ips'[i]] < order[ips'[j]]
    <3>1. i \in DOMAIN ips
      BY <1>4, <2>2, SMT
    <3>2. CASE j \in DOMAIN ips
      BY <1>3, <1>4, <2>2, <3>1, <3>2 DEF Ascending
    <3>3. CASE j = Len(ips) + 1
      BY <1>3, <1>4, <3>1, <3>3
    <3> QED BY <1>4, <3>2, <3>3, SMT
  <2> QED BY <1>1, <1>2, <2>1, <2>2 DEF Ascending
<1>8. ASSUME NEW ip \in Reached(present), ip \notin after PROVE \E i \in DOMAIN ips' : ips'[i] = ip
  <2>1. ip \in Keys /\ next_key \in Keys /\ ~ (order[ip] > order[next_key])
    BY <1>2, <1>3, <1>5, <1>8, WalkTypes
  <2>2. CASE order[ip] < order[next_key]
    <3>1. PICK i \in DOMAIN ips : ips[i] = ip
      BY <1>3, <2>2
    <3>2. i \in DOMAIN ips' /\ ips'[i] = ip
      BY <1>4, <3>1, SMT
    <3> QED BY <3>2
  <2>3. CASE order[ip] = order[next_key]
    <3>1. ip = next_key
      BY <2>1, <2>3, WalkTypes
    <3>2. Len(ips) + 1 \in DOMAIN ips' /\ ips'[Len(ips) + 1] = ip
      BY <1>4, <3>1, SMT
    <3> QED BY <3>2
  <2>4. order[ip] \in Nat /\ order[next_key] \in Nat
    BY <2>1, WalkTypes
  <2> QED BY <2>1, <2>2, <2>3, <2>4, SMT
<1>9. CASE next_key' = NoIP
  <2>1. after = {} /\ upc' = "write"
    BY <1>1, <1>5, <1>6, <1>9, WalkTypes
  <2> QED BY <1>1, <1>2, <1>7, <1>8, <2>1 DEF WalkInv
<1>10. CASE next_key' # NoIP
  <2>1. upc' = "walk" /\ next_key' \in after /\ next_key' \in Flows
    BY <1>1, <1>5, <1>6, <1>10
  <2>2. \A i \in DOMAIN ips' : order[ips'[i]] < order[next_key']
    <3>1. order[next_key] < order[next_key'] /\ next_key' \in Keys /\ next_key \in Keys
      BY <1>3, <1>5, <2>1, WalkTypes
    <3>2. \A i \in DOMAIN ips : ips[i] \in Keys
      BY <1>3, WalkTypes DEF Ascending
    <3> QED BY <1>3, <1>4, <3>1, <3>2, WalkTypes, SMT
  <2>3. ASSUME NEW ip \in Reached(present), order[ip] < order[next_key']
        PROVE  \E i \in DOMAIN ips' : ips'[i] = ip
    <3>1. ip \in Keys /\ next_key' \in Keys
      BY <1>2, <2>1, WalkTypes
    <3>2. ip \notin after
      BY <1>6, <1>10, <2>3, <3>1, WalkTypes, SMT
    <3> QED BY <1>8, <3>2
  <2> QED BY <1>1, <1>2, <1>7, <2>1, <2>2, <2>3 DEF WalkInv
<1> QED BY <1>9, <1>10

\* The last loop notes what it has dealt with.
LEMMA WalkStore ==
  ASSUME TypeOK, WalkInv, WriteFlow
  PROVE  /\ WalkInv'
         /\ upc' = "sleep" => Reached(present) \subseteq done \cup {ips[k + 1]}
<1>1. upc = "store" /\ order' = order /\ k \in Nat /\ k < Len(ips)
  BY DEF WriteFlow, env, TypeOK
<1>2. /\ \A ip \in Reached(present) : \E i \in DOMAIN ips : ips[i] = ip
      /\ \A i \in DOMAIN ips : i <= k => ips[i] \in done
  BY <1>1 DEF WalkInv
<1>3. CASE k < Last(Len(ips)) /\ NextFlow
  <2>1. upc' = "read" /\ UNCHANGED <<ips, present>> /\ k' = k + 1 /\ done' = done \cup {ips[k + 1]}
    BY <1>3 DEF NextFlow
  <2>2. Reached(present)' = Reached(present)
    BY <1>1, <2>1 DEF Reached
  <2>3. ASSUME NEW i \in DOMAIN ips, i <= k + 1 PROVE ips[i] \in done'
    BY <1>1, <1>2, <2>1, <2>3, WalkTypes, SMT
  <2> QED BY <1>2, <2>1, <2>2, <2>3 DEF WalkInv
<1>4. CASE k >= Last(Len(ips)) /\ EndRound
  <2>1. upc' = "sleep"
    BY <1>4 DEF EndRound
  <2>2. k + 1 = Len(ips)
    <3>1. Len(ips) \in Nat /\ k >= Len(ips) - 1
      BY <1>4, WalkTypes DEF Last
    <3> QED BY <1>1, <3>1, SMT
  <2>3. ASSUME NEW ip \in Reached(present) PROVE ip \in done \cup {ips[k + 1]}
    <3>1. PICK i \in DOMAIN ips : ips[i] = ip
      BY <1>2
    <3>2. i <= k \/ i = k + 1
      BY <1>1, <2>2, WalkTypes, SMT
    <3> QED BY <1>2, <3>1, <3>2
  <2> QED BY <2>1, <2>3 DEF WalkInv
<1>5. Len(ips) \in Nat
  BY WalkTypes
<1> QED BY <1>1, <1>3, <1>4, <1>5, SMT DEF WriteFlow, Last

\* Every step keeps the invariant of the walk.
LEMMA WalkStep ==
  ASSUME TypeOK, EntriesOK, KeysMatch, WalkInv, [Next]_vars
  PROVE  /\ WalkInv'
         /\ upc = "store" /\ upc' = "sleep" => Reached(present) \subseteq done \cup {ips[k + 1]}
<1>1. CASE UNCHANGED ProcessVars /\ order' = order /\ ~ UserStep
  <2>1. Flows \subseteq Flows'
    <3>1. CASE UNCHANGED logger
      BY <3>1 DEF Flows
    <3>2. ASSUME NEW c \in CPUs, InsertFlow(c) PROVE Flows \subseteq Flows'
      <4>1. key[c] \in Keys
        BY <3>2, Types DEF InsertFlow, Labels
      <4>2. PICK ip, v : ip = key[c] /\ v = [key |-> key[c], prev |-> 0, cur |-> 1]
        OBVIOUS
      <4>3. v \in Element /\ v.key = ip /\ Update(ip, v)
        BY <3>2, <4>1, <4>2 DEF Element, InsertFlow
      <4>4. UNCHANGED maps \/ Flows' = Flows \cup {ip}
        BY <4>1, <4>2, <4>3, UpdateMap
      <4> QED BY <3>1, <4>4 DEF maps
    <3>3. ASSUME NEW c \in CPUs,
                 \/ ReceiveMalformed(c) \/ ReceiveOther(c) \/ (\E ip \in Sources : Receive(c, ip))
                 \/ Filter(c) \/ CountTotal(c) \/ LookupFlow(c) \/ CountFlow(c) \/ ReturnVerdict(c)
          PROVE  UNCHANGED logger
      BY <3>3 DEF ReceiveMalformed, ReceiveOther, Receive, Filter, CountTotal, LookupFlow, CountFlow,
         ReturnVerdict, maps
    <3>4. ASSUME (\E ip \in Sources : AddRule(ip)) \/ UNCHANGED vars PROVE UNCHANGED logger
      BY <3>4 DEF AddRule, vars, maps
    <3> QED BY <1>1, <3>1, <3>2, <3>3, <3>4 DEF Next, CpuStep
  <2>2. upc' = upc
    BY <1>1 DEF ProcessVars
  <2> QED BY <1>1, <2>1, <2>2, WalkQuiet
<1>2. CASE Attach \/ SetTxPort \/ ReadData
  BY <1>2 DEF Attach, SetTxPort, ReadData, WalkInv
<1>3. CASE FirstKey
  BY <1>3, WalkFirst DEF FirstKey
<1>4. CASE Walk
  BY <1>4, WalkOn DEF Walk
<1>5. CASE WriteData
  <2>1. upc = "write" /\ upc' = "read" /\ UNCHANGED <<order, ips, present>> /\ k' = 0
    BY <1>5 DEF WriteData, env
  <2>2. Reached(present)' = Reached(present)
    BY <2>1 DEF Reached
  <2>3. \A i \in DOMAIN ips : ~ (i <= 0)
    BY WalkTypes, SMT
  <2> QED BY <2>1, <2>2, <2>3 DEF WalkInv
<1>6. CASE ReadFlow
  <2>1. upc = "read" /\ upc' = "store" /\ UNCHANGED <<order, ips, present, k, done>>
    BY <1>6 DEF ReadFlow, env
  <2>2. Reached(present)' = Reached(present)
    BY <2>1 DEF Reached
  <2> QED BY <2>1, <2>2 DEF WalkInv
<1>7. CASE WriteFlow
  BY <1>7, WalkStore
<1>8. ASSUME ~ UserStep PROVE UNCHANGED ProcessVars /\ order' = order
  <2>1. ASSUME (\E ip \in Sources : AddRule(ip)) \/ UNCHANGED vars PROVE UNCHANGED ProcessVars /\ order' = order
    BY <2>1 DEF AddRule, vars, env, process, round, summary, ProcessVars
  <2> QED BY <1>8, <2>1, TypingCpu DEF Next
<1> QED BY <1>1, <1>2, <1>3, <1>4, <1>5, <1>6, <1>7, <1>8 DEF UserStep

\* The invariant of the walk holds throughout.
LEMMA WalkInvariant == Spec => [](TypeOK /\ EntriesOK /\ KeysMatch /\ Bounded /\ WalkInv)
<1>1. Init => WalkInv
  BY DEF Init, WalkInv
<1>2. TypeOK /\ EntriesOK /\ KeysMatch /\ WalkInv /\ [Next]_vars => WalkInv'
  BY WalkStep
<1> QED BY <1>1, <1>2, MapInvariant, PTL DEF Spec

\* Entries in ascending order are different flows, so there are no more of
\* them than the map holds.
LEMMA AscendingFits ==
  ASSUME TypeOK, Bounded, Ascending
  PROVE  (\A i, j \in DOMAIN ips : ips[i] = ips[j] => i = j) /\ Len(ips) <= MaxEntries
<1>1. \A i \in DOMAIN ips : ips[i] \in Flows /\ ips[i] \in Keys /\ order[ips[i]] \in Nat
  BY WalkTypes DEF Ascending
<1>2. ASSUME NEW i \in DOMAIN ips, NEW j \in DOMAIN ips, ips[i] = ips[j] PROVE i = j
  <2>1. ~ (i < j) /\ ~ (j < i)
    BY <1>1, <1>2, SMT DEF Ascending
  <2> QED BY <2>1, WalkTypes, SMT
<1>3. IsFiniteSet(Flows) /\ Cardinality(Flows) \in Nat /\ Cardinality(Flows) <= MaxEntries /\ MaxEntries \in Nat
  BY ConstantsAssumption, FS_Subset, FS_CardinalityType DEF Flows, Bounded
<1>4. IsFiniteSet(1 .. Len(ips)) /\ Cardinality(1 .. Len(ips)) = Len(ips)
  <2>1. Len(ips) \in Nat
    BY WalkTypes
  <2>2. /\ IsFiniteSet(1 .. Len(ips))
        /\ Cardinality(1 .. Len(ips)) = IF 1 > Len(ips) THEN 0 ELSE Len(ips) - 1 + 1
    <3>1. 1 \in Int /\ Len(ips) \in Int
      BY <2>1, SMT
    <3> QED BY <3>1, FS_Interval
  <2> QED BY <2>1, <2>2, SMT
<1>5. ips \in Injection(1 .. Len(ips), Flows)
  <2>1. ips \in [1 .. Len(ips) -> Flows]
    BY <1>1, WalkTypes, SMT
  <2>2. \A i, j \in 1 .. Len(ips) : ips[i] = ips[j] => i = j
    BY <1>2, WalkTypes
  <2> QED BY <2>1, <2>2 DEF Injection, IsInjective
<1>6. Cardinality(1 .. Len(ips)) <= Cardinality(Flows)
  BY <1>3, <1>4, <1>5, FS_Injection
<1> QED BY <1>2, <1>3, <1>4, <1>6, WalkTypes, SMT

\* calculate_ent's walk fits into entpy: it reaches no flow twice, though the
\* CPUs insert flows all the while.
THEOREM WalkBounded == Spec => []WalkFits
<1>1. TypeOK /\ Bounded /\ WalkInv => WalkFits
  BY AscendingFits DEF WalkInv, WalkFits
<1> QED BY <1>1, WalkInvariant, PTL

\* A round deals with every flow that was in the logger when its walk began
\* and that lies after the key 0 in bucket order, whatever is inserted
\* meanwhile.
THEOREM RoundsComplete == Spec => RoundComplete
<1>1. TypeOK /\ EntriesOK /\ KeysMatch /\ WalkInv /\ [Next]_vars =>
        [upc = "store" /\ upc' = "sleep" => Reached(present) \subseteq done \cup {ips[k + 1]}]_vars
  BY WalkStep
<1> QED BY <1>1, WalkInvariant, PTL DEF Spec, RoundComplete

----------------------------------------------------------------------------
(***************************************************************************)
(* The counts.                                                             *)
(***************************************************************************)

\* A step of a CPU changes the set of the CPUs that have yet to count by that
\* CPU, if at all.
LEMMA Pending ==
  ASSUME TypeOK, NEW c \in CPUs
  PROVE  /\ IsFiniteSet(Uncounted) /\ Cardinality(Uncounted) \in Nat
         /\ IsFiniteSet(Unlogged) /\ Cardinality(Unlogged) \in Nat
         /\ (\E ip \in Sources : Receive(c, ip)) =>
               /\ Cardinality(Uncounted') = Cardinality(Uncounted) + 1
               /\ Cardinality(Unlogged') = Cardinality(Unlogged) + 1
         /\ CountTotal(c) => Cardinality(Uncounted') = Cardinality(Uncounted) - 1 /\ Unlogged' = Unlogged
         /\ CountFlow(c) \/ InsertFlow(c) =>
               Uncounted' = Uncounted /\ Cardinality(Unlogged') = Cardinality(Unlogged) - 1
         /\ ReceiveMalformed(c) \/ ReceiveOther(c) \/ Filter(c) \/ LookupFlow(c) \/ ReturnVerdict(c) =>
               Uncounted' = Uncounted /\ Unlogged' = Unlogged
<1>0. pc \in [CPUs -> Verdicts \cup Labels]
  BY DEF TypeOK
<1>1. IsFiniteSet(Uncounted) /\ Cardinality(Uncounted) \in Nat /\ IsFiniteSet(Unlogged) /\ Cardinality(Unlogged) \in Nat
  BY ConstantsAssumption, FS_Subset, FS_CardinalityType DEF Uncounted, Unlogged
<1>2. ASSUME \E ip \in Sources : Receive(c, ip)
      PROVE  /\ Cardinality(Uncounted') = Cardinality(Uncounted) + 1
             /\ Cardinality(Unlogged') = Cardinality(Unlogged) + 1
  <2>1. pc[c] \in Verdicts /\ pc' = [pc EXCEPT ![c] = "filter"]
    BY <1>2 DEF Receive, Goto, Idle
  <2>2. /\ Uncounted' = Uncounted \cup {c} /\ c \notin Uncounted
        /\ Unlogged' = Unlogged \cup {c} /\ c \notin Unlogged
    BY <1>0, <2>1 DEF Uncounted, Unlogged, Verdicts
  <2> QED BY <1>1, <2>2, FS_AddElement
<1>3. ASSUME CountTotal(c)
      PROVE  Cardinality(Uncounted') = Cardinality(Uncounted) - 1 /\ Unlogged' = Unlogged
  <2>1. pc[c] = "total" /\ pc' = [pc EXCEPT ![c] = "flow"]
    BY <1>3 DEF CountTotal, Goto
  <2>2. Uncounted' = Uncounted \ {c} /\ c \in Uncounted /\ Unlogged' = Unlogged
    BY <1>0, <2>1 DEF Uncounted, Unlogged
  <2> QED BY <1>1, <2>2, FS_RemoveElement
<1>4. ASSUME CountFlow(c) \/ InsertFlow(c)
      PROVE  Uncounted' = Uncounted /\ Cardinality(Unlogged') = Cardinality(Unlogged) - 1
  <2>1. pc[c] \in {"hit", "miss"} /\ pc' = [pc EXCEPT ![c] = "return"]
    BY <1>4 DEF CountFlow, InsertFlow, Goto
  <2>2. Uncounted' = Uncounted /\ Unlogged' = Unlogged \ {c} /\ c \in Unlogged
    BY <1>0, <2>1 DEF Uncounted, Unlogged
  <2> QED BY <1>1, <2>2, FS_RemoveElement
<1>5. ASSUME ReceiveMalformed(c) \/ ReceiveOther(c) \/ ReturnVerdict(c)
      PROVE  Uncounted' = Uncounted /\ Unlogged' = Unlogged
  <2>1. PICK verdict \in Verdicts : pc' = [pc EXCEPT ![c] = verdict]
    BY <1>5, Zenon DEF ReceiveMalformed, ReceiveOther, ReturnVerdict, Goto, bpf_redirect_map, Verdicts
  <2>2. pc[c] \in Verdicts \cup {"return"}
    BY <1>5 DEF ReceiveMalformed, ReceiveOther, ReturnVerdict, Idle
  <2> QED BY <1>0, <2>1, <2>2 DEF Uncounted, Unlogged, Verdicts
<1>6. ASSUME Filter(c) \/ LookupFlow(c)
      PROVE  Uncounted' = Uncounted /\ Unlogged' = Unlogged
  BY <1>0, <1>6 DEF Filter, LookupFlow, Goto, Uncounted, Unlogged
<1> QED BY <1>1, <1>2, <1>3, <1>4, <1>5, <1>6

\* Every step keeps the totals below the packets received.
LEMMA TotalStep ==
  ASSUME TypeOK, EntriesOK, KeysMatch, TotalInv, [Next]_vars
  PROVE  TotalInv'
<1>0. told \in Nat /\ cur_interval_pkt \in Nat /\ arrived \in Nat /\ snapshot \in Nat
  BY DEF TypeOK
<1>1. IsFiniteSet(Uncounted) /\ Cardinality(Uncounted) \in Nat
  BY ConstantsAssumption, FS_Subset, FS_CardinalityType DEF Uncounted
<1>2. CASE (\E ip \in Sources : AddRule(ip)) \/ UNCHANGED vars
  BY <1>2 DEF AddRule, vars, env, data, cpu, process, round, summary, TotalInv, Uncounted
<1>3. ASSUME NEW c \in CPUs,
             \/ ReceiveMalformed(c) \/ ReceiveOther(c) \/ (\E ip \in Sources : Receive(c, ip))
             \/ CpuStep(c)
      PROVE  TotalInv'
  <2>1. UNCHANGED <<told, upc, snapshot>>
    BY <1>3, TypingCpu DEF ProcessVars
  <2>2. CASE \E ip \in Sources : Receive(c, ip)
    <3>1. arrived' = arrived + 1 /\ cur_interval_pkt' = cur_interval_pkt
      BY <2>2 DEF Receive, data
    <3> QED BY <1>0, <1>1, <2>1, <2>2, <3>1, Pending, SMT DEF TotalInv
  <2>3. CASE CountTotal(c)
    <3>1. arrived' = arrived /\ cur_interval_pkt' = cur_interval_pkt + 1
      BY <2>3 DEF CountTotal, env
    <3> QED BY <1>0, <1>1, <2>1, <2>3, <3>1, Pending, SMT DEF TotalInv
  <2>4. CASE \/ CountFlow(c) \/ InsertFlow(c)
             \/ ReceiveMalformed(c) \/ ReceiveOther(c) \/ Filter(c) \/ LookupFlow(c) \/ ReturnVerdict(c)
    <3>1. UNCHANGED <<arrived, cur_interval_pkt>>
      BY <2>4 DEF CountFlow, InsertFlow, ReceiveMalformed, ReceiveOther, Filter, LookupFlow, ReturnVerdict, env, data
    <3>2. Uncounted' = Uncounted
      BY <2>4, Pending
    <3> QED BY <2>1, <3>1, <3>2 DEF TotalInv
  <2> QED BY <1>3, <2>2, <2>3, <2>4 DEF CpuStep
<1>4. CASE UserStep
  <2>1. arrived' = arrived /\ Uncounted' = Uncounted
    BY <1>4, TypingUser DEF CpuVars, Uncounted
  <2>2. CASE Attach \/ SetTxPort \/ FirstKey \/ Walk \/ ReadFlow \/ WriteFlow
    <3>1. UNCHANGED <<told, cur_interval_pkt>>
      BY <2>2 DEF Attach, SetTxPort, FirstKey, Walk, ReadFlow, WriteFlow, NextFlow, EndRound, data, summary
    <3>2. upc' \in {"first", "walk", "write"} => upc \in {"first", "walk"} /\ snapshot' = snapshot
      BY <2>2 DEF Attach, SetTxPort, FirstKey, Walk, ReadFlow, WriteFlow, NextFlow, EndRound
    <3> QED BY <2>1, <3>1, <3>2 DEF TotalInv
  <2>3. CASE ReadData
    <3>1. UNCHANGED <<told, cur_interval_pkt>> /\ snapshot' = cur_interval_pkt
      BY <2>3 DEF ReadData, data, summary
    <3> QED BY <1>0, <2>1, <3>1, SMT DEF TotalInv
  <2>4. CASE WriteData
    <3>1. upc = "write" /\ upc' = "read" /\ told' = told + snapshot /\ cur_interval_pkt' = 0
      BY <2>4 DEF WriteData, Summarise
    <3> QED BY <1>0, <1>1, <2>1, <3>1, SMT DEF TotalInv
  <2> QED BY <1>4, <2>2, <2>3, <2>4 DEF UserStep
<1> QED BY <1>2, <1>3, <1>4 DEF Next

\* The totals of the rounds count no packet twice, though the XDP program
\* counts on between the snapshot and the update of "data": what it counts
\* then is lost, never repeated.
THEOREM TotalsBounded == Spec => []TotalsOnce
<1>1. Init => TotalInv
  <2> SUFFICES ASSUME Init PROVE TotalInv
    OBVIOUS
  <2>1. Uncounted = {}
    BY DEF Init, Uncounted
  <2> QED BY <2>1, FS_EmptySet, SMT DEF Init, TotalInv
<1>2. TypeOK /\ EntriesOK /\ KeysMatch /\ TotalInv /\ [Next]_vars => TotalInv'
  BY TotalStep
<1>3. TypeOK /\ TotalInv => TotalsOnce
  <2> SUFFICES ASSUME TypeOK, TotalInv PROVE TotalsOnce
    OBVIOUS
  <2>1. Cardinality(Uncounted) \in Nat
    BY ConstantsAssumption, FS_Subset, FS_CardinalityType DEF Uncounted
  <2>2. told \in Nat /\ cur_interval_pkt \in Nat /\ arrived \in Nat
    BY DEF TypeOK
  <2> QED BY <2>1, <2>2, SMT DEF TotalInv, TotalsOnce
<1> QED BY <1>1, <1>2, <1>3, MapInvariant, PTL DEF Spec

\* The packets of a flow are a number.
LEMMA PacketsNat ==
  ASSUME TypeOK, TypeOK'
  PROVE  \A ip \in Keys : Packets[ip] \in Nat /\ Packets'[ip] \in Nat
<1> SUFFICES ASSUME NEW ip \in Keys
             PROVE  Packets[ip] \in Nat /\ Packets'[ip] \in Nat
  OBVIOUS
<1>1. ip \in Flows => elem[logger[ip]].prev \in Nat /\ elem[logger[ip]].cur \in Nat
  BY DEF TypeOK, Element, Flows
<1>2. ip \in Flows' => elem'[logger'[ip]].prev \in Nat /\ elem'[logger'[ip]].cur \in Nat
  BY DEF TypeOK, Element, Flows
<1>3. Packets[ip] \in Nat
  BY <1>1, SMT DEF Packets
<1>4. Packets'[ip] \in Nat
  BY <1>2, SMT DEF Packets
<1> QED BY <1>3, <1>4

\* The keys are finitely many, so their packets can be added up.
LEMMA PacketSums ==
  ASSUME TypeOK, TypeOK', NEW x
  PROVE  /\ IsFiniteSet(Keys) /\ IsFiniteSet(Keys \ {x})
         /\ SumFunctionOnSet(Packets, Keys) \in Nat
         /\ SumFunctionOnSet(Packets', Keys) \in Nat
         /\ SumFunctionOnSet(Packets, Keys \ {x}) \in Nat
         /\ SumFunctionOnSet(Packets', Keys \ {x}) \in Nat
<1>1. IsFiniteSet(Keys)
  BY ConstantsAssumption, FS_AddElement DEF Keys
<1>2. IsFiniteSet(Keys \ {x})
  BY <1>1, FS_RemoveElement
<1>3. PICK p, q : p = Packets /\ q = Packets'
  OBVIOUS
<1>4. \A ip \in Keys : p[ip] \in Nat /\ q[ip] \in Nat
  BY <1>3, PacketsNat
<1>5. /\ SumFunctionOnSet(p, Keys) \in Nat /\ SumFunctionOnSet(q, Keys) \in Nat
      /\ SumFunctionOnSet(p, Keys \ {x}) \in Nat /\ SumFunctionOnSet(q, Keys \ {x}) \in Nat
  BY <1>1, <1>2, <1>4, SumNat
<1> QED BY <1>1, <1>2, <1>3, <1>5

\* A step of a CPU adds to the packets of the flows no more than it takes from
\* the packets still to be logged.
LEMMA CountsUp ==
  ASSUME TypeOK, TypeOK', FlowInv, NEW a, NEW n \in Nat,
         UNCHANGED <<upc, ips, k, cur>>,
         \A x \in Keys : x # a => Packets'[x] = Packets[x],
         a \in Keys => Packets'[a] <= Packets[a] + n,
         Cardinality(Unlogged) \in Nat, Cardinality(Unlogged') \in Nat,
         arrived' - Cardinality(Unlogged') = arrived - Cardinality(Unlogged) + n
  PROVE  FlowInv'
<1>1. PICK p, q : p = Packets /\ q = Packets'
  OBVIOUS
<1>2. /\ \A x \in Keys : p[x] \in Nat /\ q[x] \in Nat
      /\ \A x \in Keys : x # a => p[x] = q[x]
      /\ a \in Keys => q[a] <= p[a] + n
  BY <1>1, PacketsNat
<1>3. arrived \in Nat /\ arrived' \in Nat /\ cur \in Nat
  BY DEF TypeOK
<1>4. SumFunctionOnSet(q, Keys) <= SumFunctionOnSet(p, Keys) + n
  BY <1>2, PacketSums, SumGrows
<1>5. SumFunctionOnSet(q, Keys) + Cardinality(Unlogged') <= arrived'
  <2>1. SumFunctionOnSet(p, Keys) + Cardinality(Unlogged) <= arrived
    BY <1>1 DEF FlowInv
  <2>2. SumFunctionOnSet(p, Keys) \in Nat /\ SumFunctionOnSet(q, Keys) \in Nat
    BY <1>1, PacketSums
  <2> QED BY <1>3, <1>4, <2>1, <2>2, SMT
<1>6. ASSUME upc = "store", ~ (MadeUp /\ k = 0)
      PROVE  SumFunctionOnSet(q, Keys \ {ips[k + 1]}) + cur + Cardinality(Unlogged') <= arrived'
  <2>0. PICK K : K = Keys \ {ips[k + 1]}
    OBVIOUS
  <2>1. SumFunctionOnSet(p, K) + cur + Cardinality(Unlogged) <= arrived
    BY <1>1, <1>6, <2>0 DEF FlowInv
  <2>2. IsFiniteSet(K) /\ SumFunctionOnSet(p, K) \in Nat /\ SumFunctionOnSet(q, K) \in Nat
    BY <1>1, <2>0, PacketSums
  <2>3. /\ \A x \in K : p[x] \in Nat /\ q[x] \in Nat
        /\ \A x \in K : x # a => p[x] = q[x]
        /\ a \in K => q[a] <= p[a] + n
    BY <1>2, <2>0
  <2>4. SumFunctionOnSet(q, K) <= SumFunctionOnSet(p, K) + n
    BY <2>2, <2>3, SumGrows
  <2>5. SumFunctionOnSet(q, K) + cur + Cardinality(Unlogged') <= arrived'
    BY <1>3, <2>1, <2>2, <2>4, SMT
  <2> QED BY <2>0, <2>5
<1>7. (MadeUp <=> MadeUp') /\ k' = k /\ ips' = ips /\ cur' = cur /\ upc' = upc
  BY DEF MadeUp
<1> QED BY <1>1, <1>5, <1>6, <1>7 DEF FlowInv

\* The steps of the CPUs keep the packets of the flows below those received.
LEMMA FlowCpu ==
  ASSUME TypeOK, EntriesOK, KeysMatch, FlowInv, TypeOK', NEW c \in CPUs,
         \/ ReceiveMalformed(c) \/ ReceiveOther(c) \/ (\E ip \in Sources : Receive(c, ip))
         \/ CpuStep(c)
  PROVE  FlowInv'
<1>0. UNCHANGED <<upc, ips, k, cur>> /\ (MadeUp' <=> MadeUp)
  BY TypingCpu DEF ProcessVars, MadeUp
<1>1. /\ Cardinality(Unlogged) \in Nat
      /\ (\E ip \in Sources : Receive(c, ip)) => Cardinality(Unlogged') = Cardinality(Unlogged) + 1
      /\ CountFlow(c) \/ InsertFlow(c) => Cardinality(Unlogged') = Cardinality(Unlogged) - 1
  BY Pending
<1>2. Cardinality(Unlogged') \in Nat
  <2>1. Unlogged' \subseteq CPUs
    BY DEF Unlogged
  <2> QED BY <2>1, ConstantsAssumption, FS_Subset, FS_CardinalityType
<1>3. arrived \in Nat
  BY DEF TypeOK
<1>4. CASE \/ ReceiveMalformed(c) \/ ReceiveOther(c) \/ (\E ip \in Sources : Receive(c, ip))
           \/ Filter(c) \/ CountTotal(c) \/ LookupFlow(c) \/ ReturnVerdict(c)
  <2>1. UNCHANGED <<logger, elem>>
    BY <1>4 DEF ReceiveMalformed, ReceiveOther, Receive, Filter, CountTotal, LookupFlow, ReturnVerdict, maps
  <2>2. Packets' = Packets
    <3>1. Flows' = Flows
      BY <2>1 DEF Flows
    <3> QED BY <1>0, <2>1, <3>1 DEF Packets
  <2>3. CASE \E ip \in Sources : Receive(c, ip)
    <3>1. arrived' = arrived + 1
      BY <2>3 DEF Receive
    <3>2. arrived' - Cardinality(Unlogged') = arrived - Cardinality(Unlogged) + 0
      BY <1>1, <1>3, <2>3, <3>1, SMT
    <3>3. \A x \in Keys : Packets'[x] <= Packets[x] + 0
      BY <2>2, PacketsNat, SMT
    <3> QED BY <1>0, <1>1, <1>2, <2>2, <3>2, <3>3, CountsUp
  <2>4. CASE \/ ReceiveMalformed(c) \/ ReceiveOther(c)
             \/ Filter(c) \/ CountTotal(c) \/ LookupFlow(c) \/ ReturnVerdict(c)
    <3>1. arrived' = arrived /\ Unlogged' = Unlogged
      BY <2>4, Pending DEF ReceiveMalformed, ReceiveOther, Filter, CountTotal, LookupFlow, ReturnVerdict, env
    <3> QED BY <1>0, <2>2, <3>1 DEF FlowInv
  <2> QED BY <1>4, <2>3, <2>4
<1>5. ASSUME CountFlow(c) \/ InsertFlow(c), NEW a,
             \A x \in Keys : x # a => Packets'[x] = Packets[x],
             a \in Keys => Packets'[a] <= Packets[a] + 1
      PROVE  FlowInv'
  <2>1. arrived' = arrived
    BY <1>5 DEF CountFlow, InsertFlow, env
  <2>2. arrived' - Cardinality(Unlogged') = arrived - Cardinality(Unlogged) + 1
    BY <1>1, <1>2, <1>3, <1>5, <2>1, SMT
  <2> QED BY <1>0, <1>1, <1>2, <1>5, <2>2, CountsUp
<1>6. CASE CountFlow(c)
  <2>0. PICK e : e = value[c]
    OBVIOUS
  <2>1. /\ logger' = logger /\ e \in Elems /\ Flows' = Flows
        /\ elem' = [elem EXCEPT ![e].cur = @ + 1]
        /\ elem \in [Elems -> Element] /\ \A x \in Flows : logger[x] \in Elems
    BY <1>6, <2>0 DEF CountFlow, TypeOK, Flows
  <2>2. /\ \A d \in Elems : d # e => elem'[d] = elem[d]
        /\ elem'[e].prev = elem[e].prev /\ elem'[e].cur = elem[e].cur + 1
        /\ elem[e].prev \in Nat /\ elem[e].cur \in Nat
    BY <2>1 DEF Element
  <2>3. \A x \in Keys : ~ (x \in Flows /\ logger[x] = e) => Packets'[x] = Packets[x]
    BY <1>0, <2>1, <2>2 DEF Packets
  <2>4. \A x \in Flows : logger[x] = e => Packets'[x] <= Packets[x] + 1
    <3> SUFFICES ASSUME NEW x \in Flows, logger[x] = e
                 PROVE  Packets'[x] <= Packets[x] + 1
      OBVIOUS
    <3>1. x \in Keys
      BY DEF Flows
    <3>2. CASE MadeUp /\ k = 1 /\ x = Zero
      <4>1. Packets'[x] = elem[e].cur + 1 /\ Packets[x] = elem[e].cur
        BY <1>0, <2>1, <2>2, <3>1, <3>2 DEF Packets
      <4> QED BY <2>2, <4>1, SMT
    <3>3. CASE ~ (MadeUp /\ k = 1 /\ x = Zero)
      <4>1. Packets'[x] = elem[e].prev + (elem[e].cur + 1) /\ Packets[x] = elem[e].prev + elem[e].cur
        BY <1>0, <2>1, <2>2, <3>1, <3>3 DEF Packets
      <4> QED BY <2>2, <4>1, SMT
    <3> QED BY <3>2, <3>3
  <2>5. \A x, y \in Flows : logger[x] = e /\ logger[y] = e => x = y
    BY DEF KeysMatch
  <2>6. CASE \E x \in Flows : logger[x] = e
    <3>1. PICK a \in Flows : logger[a] = e
      BY <2>6
    <3> QED BY <1>5, <1>6, <2>3, <2>4, <2>5, <3>1
  <2>7. CASE ~ \E x \in Flows : logger[x] = e
    <3>1. \A x \in Keys : Packets'[x] = Packets[x]
      BY <2>3, <2>7
    <3>2. \A x \in Keys : Packets'[x] <= Packets[x] + 1
      BY <3>1, PacketsNat, SMT
    <3> QED BY <1>5, <1>6, <3>1, <3>2
  <2> QED BY <2>6, <2>7
<1>7. CASE InsertFlow(c)
  <2>0. PICK a, v : a = key[c] /\ v = [key |-> key[c], prev |-> 0, cur |-> 1]
    OBVIOUS
  <2>1. a \in Keys /\ v \in Element /\ v.key = a /\ v.prev = 0 /\ v.cur = 1 /\ Update(a, v)
    BY <1>7, <2>0 DEF InsertFlow, TypeOK, Element, Labels
  <2>2. CASE UNCHANGED maps
    <3>1. \A x \in Keys : Packets'[x] = Packets[x]
      <4>1. Flows' = Flows /\ logger' = logger /\ elem' = elem
        BY <2>2 DEF Flows, maps
      <4> QED BY <1>0, <4>1 DEF Packets
    <3>2. \A x \in Keys : Packets'[x] <= Packets[x] + 1
      BY <3>1, PacketsNat, SMT
    <3> QED BY <1>5, <1>7, <3>1, <3>2
  <2>3. CASE Linking(a, v) /\ Flows' = Flows \cup {a}
    <3>1. \A x \in Keys : x # a => Packets'[x] = Packets[x]
      BY <1>0, <2>3 DEF Packets, Linking
    <3>2. Packets'[a] = 1
      BY <1>0, <2>1, <2>3, SMT DEF Packets, Linking
    <3>3. Packets'[a] <= Packets[a] + 1
      BY <2>1, <3>2, PacketsNat, SMT
    <3> QED BY <1>5, <1>7, <3>1, <3>3
  <2> QED BY <2>1, <2>2, <2>3, UpdateMap
<1> QED BY <1>4, <1>6, <1>7 DEF CpuStep

\* So do the steps of the process: a shifted flow holds no more packets than
\* the lookup has returned.
LEMMA FlowUser ==
  ASSUME TypeOK, EntriesOK, KeysMatch, FlowInv, TypeOK', UserStep
  PROVE  FlowInv'
<1>0. arrived' = arrived /\ Unlogged' = Unlogged /\ arrived \in Nat /\ cur \in Nat
  BY TypingUser DEF CpuVars, Unlogged, TypeOK
<1>1. Cardinality(Unlogged) \in Nat
  BY ConstantsAssumption, FS_Subset, FS_CardinalityType DEF Unlogged
<1>2. ASSUME UNCHANGED maps, ~ (MadeUp /\ k = 1), ~ (MadeUp' /\ k' = 1)
      PROVE  Packets' = Packets
  <2>1. Flows' = Flows /\ logger' = logger /\ elem' = elem
    BY <1>2 DEF Flows, maps
  <2> QED BY <1>2, <2>1 DEF Packets
<1>3. CASE Attach \/ SetTxPort \/ ReadData \/ FirstKey \/ Walk
  <2>1. UNCHANGED maps /\ upc \notin {"write", "read", "store"} /\ upc' \notin {"read", "store"}
    BY <1>3 DEF Attach, SetTxPort, ReadData, FirstKey, Walk
  <2>2. /\ upc' = "write" => ips' = <<Zero, Zero>> \/ cur' = 0
        /\ upc' # "write" => cur' = 0
    BY <1>3, <2>1 DEF Attach, SetTxPort, ReadData, FirstKey, Walk, round, FlowInv
  <2>3. Packets' = Packets
    BY <1>2, <2>1 DEF MadeUp
  <2> QED BY <1>0, <2>1, <2>2, <2>3 DEF FlowInv
<1>4. CASE WriteData
  <2>1. UNCHANGED <<maps, ips, cur>> /\ upc = "write" /\ upc' = "read" /\ k' = 0
    BY <1>4 DEF WriteData
  <2>2. Packets' = Packets
    BY <1>2, <2>1, SMT DEF MadeUp
  <2>3. (MadeUp' /\ k' = 0) \/ cur' = 0
    BY <2>1 DEF FlowInv, MadeUp
  <2> QED BY <1>0, <2>1, <2>2, <2>3 DEF FlowInv
<1>5. CASE ReadFlow
  <2>0. PICK ip : ip = ips[k + 1]
    OBVIOUS
  <2>1. /\ UNCHANGED <<maps, ips, k>> /\ upc = "read" /\ upc' = "store"
        /\ cur' = IF logger[ip] = NoElem THEN cur ELSE elem[logger[ip]].cur
    BY <1>5, <2>0 DEF ReadFlow
  <2>2. ip \in Keys
    <3>1. ips \in Seq(Keys) /\ k \in Nat /\ k < Len(ips)
      BY <2>1 DEF TypeOK
    <3> QED BY <2>0, <3>1, SMT
  <2>3. (MadeUp' <=> MadeUp) /\ Packets' = Packets
    <3>1. MadeUp' <=> MadeUp
      BY <2>1 DEF MadeUp
    <3>2. Flows' = Flows /\ logger' = logger /\ elem' = elem
      BY <2>1 DEF Flows, maps
    <3> QED BY <2>1, <3>1, <3>2 DEF Packets
  <2>4. ASSUME ~ (MadeUp /\ k = 0)
        PROVE  SumFunctionOnSet(Packets, Keys \ {ip}) + cur' + Cardinality(Unlogged) <= arrived
    <3>1. cur' \in Nat /\ cur' <= Packets[ip]
      <4>1. CASE ip \in Flows
        <5>1. elem[logger[ip]].prev \in Nat /\ elem[logger[ip]].cur \in Nat /\ cur' = elem[logger[ip]].cur
          BY <2>1, <2>2, <4>1 DEF TypeOK, Element, Flows
        <5> QED BY <2>2, <4>1, <5>1, SMT DEF Packets
      <4>2. CASE ip \notin Flows
        <5>1. cur' = 0
          BY <2>1, <2>2, <2>4, <4>2 DEF FlowInv, Flows
        <5> QED BY <2>2, <5>1, PacketsNat, SMT
      <4> QED BY <4>1, <4>2
    <3>2. SumFunctionOnSet(Packets, Keys) = Packets[ip] + SumFunctionOnSet(Packets, Keys \ {ip})
      BY <2>2, PacketsNat, PacketSums, SumRemove
    <3>3. /\ SumFunctionOnSet(Packets, Keys) \in Nat /\ SumFunctionOnSet(Packets, Keys \ {ip}) \in Nat
          /\ Packets[ip] \in Nat
      BY <2>2, PacketsNat, PacketSums
    <3>4. SumFunctionOnSet(Packets, Keys) + Cardinality(Unlogged) <= arrived
      BY DEF FlowInv
    <3> QED BY <1>0, <1>1, <3>1, <3>2, <3>3, <3>4, SMT
  <2> QED BY <1>0, <2>0, <2>1, <2>3, <2>4 DEF FlowInv
<1>6. CASE WriteFlow
  <2>0. PICK ip, v : ip = ips[k + 1] /\ v = [key |-> ip, prev |-> cur, cur |-> 0]
    OBVIOUS
  <2>1. /\ upc = "store" /\ upc' \in {"read", "sleep"} /\ cur' = 0
        /\ IF cur = 0 THEN Delete(ip) ELSE Update(ip, v)
        /\ \/ k < Len(ips) - 1 /\ upc' = "read" /\ ips' = ips /\ k' = k + 1
           \/ ~ (k < Len(ips) - 1) /\ upc' = "sleep"
    BY <1>6, <2>0 DEF WriteFlow, NextFlow, EndRound, Last, Shift
  <2>2. ip \in Keys /\ v \in Element /\ v.key = ip /\ v.prev = cur /\ v.cur = 0 /\ k \in Nat /\ k < Len(ips)
    <3>1. k \in Nat /\ k < Len(ips) /\ ips \in Seq(Keys)
      BY <2>1 DEF TypeOK
    <3>2. ip \in Keys
      BY <2>0, <3>1, SMT
    <3>3. v \in Element /\ v.key = ip /\ v.prev = cur /\ v.cur = 0
      BY <1>0, <2>0, <3>2 DEF Element
    <3> QED BY <3>1, <3>2, <3>3
  <2>3. /\ MadeUp => ip = Zero
        /\ MadeUp /\ k = 0 => MadeUp' /\ k' = 1
        /\ MadeUp' => MadeUp
    <3>1. MadeUp => Len(ips) = 2 /\ ips[1] = Zero /\ ips[2] = Zero
      BY MadeUpEntries DEF MadeUp
    <3>2. MadeUp => ip = Zero
      <4>1. k \in Nat /\ (MadeUp => k < 2)
        BY <2>2, <3>1
      <4>2. MadeUp => k = 0 \/ k = 1
        BY <4>1, SMT
      <4> QED BY <2>0, <3>1, <4>2, SMT
    <3>3. MadeUp /\ k = 0 => MadeUp' /\ k' = 1
      BY <2>1, <3>1, SMT DEF MadeUp
    <3>4. MadeUp' => MadeUp
      BY <2>1 DEF MadeUp
    <3> QED BY <3>2, <3>3, <3>4
  <2>4. \/ UNCHANGED maps /\ ip \notin Flows
        \/ Linking(ip, v) /\ Flows' = Flows \cup {ip}
        \/ /\ Flows' = Flows \ {ip}
           /\ \A x \in Keys \ {ip} : logger'[x] = logger[x] /\ (x \in Flows => elem'[logger[x]] = elem[logger[x]])
    <3>1. CASE cur = 0
      BY <2>1, <2>2, <3>1, DeleteMap
    <3>2. CASE cur # 0
      BY <2>1, <2>2, <3>2, UpdateMap
    <3> QED BY <3>1, <3>2
  <2>5. \A x \in Keys \ {ip} :
           /\ x \in Flows' <=> x \in Flows
           /\ logger'[x] = logger[x]
           /\ x \in Flows => elem'[logger[x]] = elem[logger[x]]
    BY <2>4 DEF Linking, maps, Flows
  <2>6. \A x \in Keys \ {ip} : Packets'[x] = Packets[x]
    <3> SUFFICES ASSUME NEW x \in Keys \ {ip} PROVE Packets'[x] = Packets[x]
      OBVIOUS
    <3>1. ~ (MadeUp /\ k = 1 /\ x = Zero) /\ ~ (MadeUp' /\ k' = 1 /\ x = Zero)
      BY <2>3
    <3> QED BY <2>5, <3>1 DEF Packets
  <2>7. Packets'[ip] = 0 \/ (~ (MadeUp /\ k = 0) /\ Packets'[ip] <= cur)
    <3>1. CASE ip \notin Flows'
      BY <2>2, <3>1 DEF Packets
    <3>2. CASE ip \in Flows'
      <4>1. Linking(ip, v)
        BY <2>4, <3>2 DEF maps, Flows
      <4>2. CASE MadeUp /\ k = 0
        BY <2>2, <2>3, <3>2, <4>1, <4>2 DEF Packets, Linking
      <4>3. CASE ~ (MadeUp /\ k = 0)
        BY <1>0, <2>2, <3>2, <4>1, <4>3, SMT DEF Packets, Linking
      <4> QED BY <4>2, <4>3
    <3> QED BY <3>1, <3>2
  <2>8. PICK p, q, K : p = Packets /\ q = Packets' /\ K = Keys \ {ip}
    OBVIOUS
  <2>9. /\ SumFunctionOnSet(q, Keys) = q[ip] + SumFunctionOnSet(q, K)
        /\ SumFunctionOnSet(p, Keys) = p[ip] + SumFunctionOnSet(p, K)
        /\ SumFunctionOnSet(q, K) = SumFunctionOnSet(p, K)
        /\ SumFunctionOnSet(p, K) \in Nat /\ p[ip] \in Nat /\ q[ip] \in Nat
    <3>1. IsFiniteSet(Keys) /\ IsFiniteSet(K) /\ SumFunctionOnSet(p, K) \in Nat
      BY <2>8, PacketSums
    <3>2. \A x \in Keys : p[x] \in Nat /\ q[x] \in Nat
      BY <2>8, PacketsNat
    <3>3. \A x \in K : p[x] = q[x]
      BY <2>6, <2>8
    <3>4. /\ SumFunctionOnSet(q, Keys) = q[ip] + SumFunctionOnSet(q, Keys \ {ip})
          /\ SumFunctionOnSet(p, Keys) = p[ip] + SumFunctionOnSet(p, Keys \ {ip})
      BY <2>2, <3>1, <3>2, SumRemove, SMT
    <3>5. SumFunctionOnSet(q, K) = SumFunctionOnSet(p, K)
      BY <3>1, <3>3, SumSame
    <3> QED BY <2>2, <2>8, <3>1, <3>2, <3>4, <3>5
  <2>10. SumFunctionOnSet(q, Keys) + Cardinality(Unlogged) <= arrived
    <3>1. SumFunctionOnSet(p, Keys) + Cardinality(Unlogged) <= arrived
      BY <2>8 DEF FlowInv
    <3>2. ~ (MadeUp /\ k = 0) => SumFunctionOnSet(p, K) + cur + Cardinality(Unlogged) <= arrived
      BY <2>0, <2>1, <2>8 DEF FlowInv
    <3>3. q[ip] = 0 \/ (~ (MadeUp /\ k = 0) /\ q[ip] <= cur)
      BY <2>7, <2>8
    <3> QED BY <1>0, <1>1, <2>9, <3>1, <3>2, <3>3, SMT
  <2> QED BY <1>0, <2>1, <2>8, <2>10 DEF FlowInv
<1> QED BY <1>3, <1>4, <1>5, <1>6 DEF UserStep

\* Between two rounds no packet is held twice by the flows, though the process
\* shifts them with a lookup and an update that other CPUs' packets, lookups
\* and insertions come between.
THEOREM FlowsBounded == Spec => []FlowsOnce
<1>1. Init => FlowInv
  <2> SUFFICES ASSUME Init PROVE FlowInv
    OBVIOUS
  <2>1. Unlogged = {} /\ Flows = {} /\ upc = "attach" /\ cur = 0 /\ arrived = 0
    BY DEF Init, Unlogged, Flows
  <2>2. \A x \in Keys : Packets[x] = 0
    BY <2>1 DEF Packets
  <2>3. PICK p : p = Packets
    OBVIOUS
  <2>4. IsFiniteSet(Keys)
    BY ConstantsAssumption, FS_AddElement DEF Keys
  <2>5. SumFunctionOnSet(p, Keys) = 0
    BY <2>2, <2>3, <2>4, SumZero
  <2> QED BY <2>1, <2>3, <2>5, FS_EmptySet, SMT DEF FlowInv
<1>2. TypeOK /\ EntriesOK /\ KeysMatch /\ TypeOK' /\ FlowInv /\ [Next]_vars => FlowInv'
  <2> SUFFICES ASSUME TypeOK, EntriesOK, KeysMatch, TypeOK', FlowInv, [Next]_vars
               PROVE  FlowInv'
    OBVIOUS
  <2>1. CASE (\E ip \in Sources : AddRule(ip)) \/ UNCHANGED vars
    <3>1. UNCHANGED <<logger, elem, arrived, pc, upc, ips, k, cur>>
      BY <2>1 DEF AddRule, vars, env, maps, cpu, process, round
    <3>2. Unlogged' = Unlogged /\ Flows' = Flows /\ (MadeUp' <=> MadeUp)
      BY <3>1 DEF Unlogged, Flows, MadeUp
    <3>3. Packets' = Packets
      BY <3>1, <3>2 DEF Packets
    <3> QED BY <3>1, <3>2, <3>3 DEF FlowInv
  <2> QED BY <2>1, FlowCpu, FlowUser DEF Next
<1>3. TypeOK /\ FlowInv => FlowsOnce
  <2> SUFFICES ASSUME TypeOK, FlowInv, upc = "sleep" PROVE FlowsOnce
    BY DEF FlowsOnce
  <2>1. PICK f, p, h : /\ f = [ip \in Flows |-> elem[logger[ip]].prev + elem[logger[ip]].cur]
                       /\ p = Packets /\ h = [ip \in Flows |-> ip]
    OBVIOUS
  <2>2. IsFiniteSet(Keys)
    BY ConstantsAssumption, FS_AddElement DEF Keys
  <2>3. Flows \subseteq Keys /\ IsFiniteSet(Flows)
    BY <2>2, FS_Subset DEF Flows
  <2>4. \A x \in Flows : elem[logger[x]].prev \in Nat /\ elem[logger[x]].cur \in Nat
    BY DEF TypeOK, Element, Flows
  <2>5. \A x \in Flows : f[x] \in Nat /\ p[x] = f[x]
    BY <2>1, <2>3, <2>4, SMT DEF Packets, MadeUp
  <2>6. \A x \in Keys : p[x] \in Nat
    BY <2>1, <2>4, SMT DEF Packets
  <2>7. h \in [Flows -> Keys] /\ \A x \in Flows : h[x] = x
    BY <2>1, <2>3
  <2>8. SumFunctionOnSet(f, Flows) <= SumFunctionOnSet(p, Keys)
    BY <2>2, <2>3, <2>5, <2>6, <2>7, SumCovered, SMT
  <2>9. SumFunctionOnSet(f, Flows) \in Nat /\ SumFunctionOnSet(p, Keys) \in Nat
    BY <2>2, <2>3, <2>5, <2>6, SumNat
  <2>10. Cardinality(Unlogged) \in Nat /\ arrived \in Nat
    BY ConstantsAssumption, FS_Subset, FS_CardinalityType DEF Unlogged, TypeOK
  <2>11. SumFunctionOnSet(p, Keys) + Cardinality(Unlogged) <= arrived
    BY <2>1 DEF FlowInv
  <2>12. SumFunctionOnSet(f, Flows) <= arrived
    BY <2>8, <2>9, <2>10, <2>11, SMT
  <2> QED BY <2>1, <2>12 DEF FlowsOnce
<1> QED BY <1>1, <1>2, <1>3, MapInvariant, PTL DEF Spec
=============================================================================
