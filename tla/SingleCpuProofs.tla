--------------------------- MODULE SingleCpuProofs ---------------------------
(***************************************************************************)
(* On a machine with one CPU the in-kernel program implements FlowLog: the *)
(* refinement, for any sources, elements, interval and map size.           *)
(***************************************************************************)
EXTENDS SingleCpu, InKernelProofs

\* The prover of every leaf that does not name another one.
USE Zenon

Counts == [prev : Nat, cur : Nat]

\* A log as a set of sources with their counts.
IsLog(log) == DOMAIN log \subseteq IPs /\ log \in [DOMAIN log -> Counts]

\* What FlowLog logs when a packet of ip comes to old.
LoggedIn(old, ip) ==
  IF ip \in DOMAIN old
  THEN [old EXCEPT ![ip].cur = @ + 1]
  ELSE IF Cardinality(DOMAIN old) < MaxEntries
       THEN [x \in DOMAIN old \cup {ip} |->
               IF x = ip THEN [prev |-> 0, cur |-> 1] ELSE old[x]]
       ELSE old

\* The element under ip holds the counts prev and cur.
Has(ip, prev, cur) ==
  /\ ip \in Flows
  /\ elem[logger[ip]].prev = prev
  /\ elem[logger[ip]].cur = cur

\* The logger holds what log says.
Same(log) == Flows = DOMAIN log /\ \A ip \in DOMAIN log : Has(ip, log[ip].prev, log[ip].cur)

\* The interval totals.
Totals(prev, cur) == prev_interval_pkt = prev /\ cur_interval_pkt = cur

\* What becomes of ip when the interval is closed: the counts are shifted, or
\* the source was silent and is gone.
Closed(log, ip) ==
  \/ Has(ip, log[ip].cur, 0)
  \/ ip \notin Flows /\ log[ip].cur = 0 /\ log[ip].prev # 0

\* A positive entropy belongs to a source with packets in the previous interval.
EntropyOK(e) == elem[e].entropy # 0 => elem[e].prev # 0

OnFlow == {"testFlow", "delete", "copyFlow", "storeFlow", "zeroFlow"}

\* The first walk: the entropies of the sources it has passed are new, but for
\* the one it is about to store.
EntropyWalk(c) ==
  /\ \A ip \in Flows \ todo[c] :
        EntropyOK(logger[ip]) \/ (pc[c] = "storeEntropy" /\ value[c] = logger[ip])
  /\ pc[c] = "storeEntropy" =>
        /\ \E ip \in Flows : value[c] = logger[ip]
        /\ seen[c] # 0 => elem[value[c]].prev # 0

\* The second walk: the sources it has yet to reach have the counts of new, the
\* ones it has passed are closed, and one may be in between.
DetectionWalk(c, new) ==
  /\ Flows \subseteq DOMAIN new
  /\ \A ip \in DOMAIN new \cap todo[c] :
        Has(ip, new[ip].prev, new[ip].cur) /\ EntropyOK(logger[ip])
  /\ \A ip \in DOMAIN new \ todo[c] :
        Closed(new, ip) \/ (pc[c] \in OnFlow /\ ip = elem[value[c]].key)
  /\ pc[c] \in OnFlow =>
        /\ elem[value[c]].key \in Flows \ todo[c]
        /\ logger[elem[value[c]].key] = value[c]

\* The source the second walk is at, with its counts in new.
AtFlow(c, old) ==
  /\ pc[c] \in {"testFlow", "delete", "copyFlow", "storeFlow"} =>
        elem[value[c]].prev = old.prev /\ elem[value[c]].cur = old.cur
  /\ pc[c] \in {"testFlow", "delete"} => old.prev # 0
  /\ pc[c] = "delete" => old.cur = 0
  /\ pc[c] = "storeFlow" => seen[c] = old.cur
  /\ pc[c] = "zeroFlow" => elem[value[c]].prev = old.cur

\* The invariant of the handling of a packet by c, where p is the log before
\* it and new the log with the packet: how far the maps have come.
Handling(c, p, new) ==
  /\ Idle(c) \/ pc[c] \in {"filter", "total"} =>
        Same(p.flows) /\ Totals(p.total.prev, p.total.cur) /\ timestamp = p.start
  /\ pc[c] \in {"load", "compare", "grow", "flow", "hit", "miss"} =>
        Same(p.flows) /\ Totals(p.total.prev, p.total.cur + 1) /\ timestamp = p.start
  /\ pc[c] = "hit" => logger[key[c]] = value[c]
  /\ pc[c] = "miss" => logger[key[c]] = NoElem
  /\ pc[c] \in {"stamp", "lock", "claim", "setFirst", "setClose"} =>
        Same(new) /\ Totals(p.total.prev, p.total.cur + 1) /\ timestamp = p.start
  /\ pc[c] \in {"lock", "claim", "setFirst", "setClose", "unlockEnd"} \/ Closes(c) =>
        ts[c] > p.start + Interval
  /\ pc[c] \in {"setFirst", "unlockEnd"} => p.start = 0
  /\ pc[c] = "setClose" \/ Closes(c) => p.start # 0
  /\ pc[c] = "unlockEnd" \/ Closes(c) => timestamp = ts[c]
  /\ pc[c] \in {"unlockEnd", "unlockClose", "entropy", "storeEntropy"} => Same(new)
  /\ pc[c] \in {"unlockEnd", "unlockClose", "entropy", "storeEntropy", "detect", "copyTotal", "storeTotal"} \cup OnFlow =>
        Totals(p.total.prev, p.total.cur + 1)
  /\ pc[c] \in {"entropy", "storeEntropy"} => EntropyWalk(c)
  /\ pc[c] \in {"detect"} \cup OnFlow => DetectionWalk(c, new)
  /\ pc[c] \in OnFlow => AtFlow(c, new[elem[value[c]].key])
  /\ pc[c] \in {"copyTotal", "storeTotal", "zeroTotal", "reset"} =>
        Flows \subseteq DOMAIN new /\ \A ip \in DOMAIN new : Closed(new, ip)
  /\ pc[c] = "storeTotal" => seen[c] = p.total.cur + 1
  /\ pc[c] = "zeroTotal" => Totals(p.total.cur + 1, p.total.cur + 1)
  /\ pc[c] = "reset" => Totals(p.total.cur + 1, 0)

\* What the proofs below need of the types.
LEMMA Types ==
  ASSUME TypeOK, NEW c \in CPUs
  PROVE  /\ pc \in [CPUs -> Verdicts \cup Labels]
         /\ key \in [CPUs -> IPs \cup {NoIP}]
         /\ ts \in [CPUs -> Nat]
         /\ value \in [CPUs -> Elems \cup {NoElem}]
         /\ seen \in [CPUs -> Nat]
         /\ todo \in [CPUs -> SUBSET IPs]
         /\ elem \in [Elems -> Element]
         /\ logger \in [IPs -> Elems \cup {NoElem}]
         /\ timestamp \in Nat /\ prev_interval_pkt \in Nat /\ cur_interval_pkt \in Nat
         /\ now \in Nat
         /\ NoElem \notin Elems
BY ConstantsAssumption DEF TypeOK, LocalsOK

\* The logger does not change by itself.
LEMMA SameKept == ASSUME NEW log, Same(log), UNCHANGED maps PROVE Same(log)'
BY DEF Same, Has, Flows, maps

\* The steps up to the count in the flow.
LEMMA HandleCount ==
  ASSUME TypeOK, NEW c \in CPUs, NEW p, NEW new, Handling(c, p, new), ~ Idle(c)',
         Filter(c) \/ CountTotal(c) \/ LoadTotal(c) \/ CompareBits(c) \/ GrowBits(c) \/ LookupFlow(c),
         p.total.prev \in Nat, p.total.cur \in Nat
  PROVE  Handling(c, p, new)'
<1> USE Types DEF Goto, Closes, Closing, OnElem, OnFlow
<1>1. CASE Filter(c)
  <2>1. pc[c] = "filter" /\ pc'[c] = "total" /\ UNCHANGED <<data, loc_ts, maps, key>>
    BY <1>1 DEF Filter, Return, Idle, Verdicts, locals
  <2> QED BY <2>1, SameKept DEF Handling, Totals, data, loc_ts
<1>2. CASE CountTotal(c)
  <2>1. /\ pc[c] = "total" /\ pc'[c] = "load" /\ UNCHANGED <<prev_interval_pkt, loc_ts, maps, key>>
        /\ cur_interval_pkt' = cur_interval_pkt + 1
    BY <1>2 DEF CountTotal, locals
  <2> QED BY <2>1, SameKept DEF Handling, Totals, loc_ts
<1>3. CASE LoadTotal(c) \/ CompareBits(c) \/ GrowBits(c)
  <2>1. /\ pc[c] \in {"load", "compare", "grow"} /\ pc'[c] \in {"compare", "grow", "flow"}
        /\ UNCHANGED <<prev_interval_pkt, cur_interval_pkt, loc_ts, maps, key>>
    BY <1>3 DEF LoadTotal, CompareBits, GrowBits, locals, data
  <2> QED BY <2>1, SameKept DEF Handling, Totals, loc_ts
<1>4. CASE LookupFlow(c)
  <2>1. /\ pc[c] = "flow" /\ pc'[c] = IF logger[key[c]] = NoElem THEN "miss" ELSE "hit"
        /\ value'[c] = logger[key[c]]
        /\ UNCHANGED <<data, loc_ts, maps, key>>
    BY <1>4 DEF LookupFlow
  <2>2. UNCHANGED logger
    BY <2>1 DEF maps
  <2> QED BY <2>1, <2>2, SameKept DEF Handling, Totals, data, loc_ts
<1> QED BY <1>1, <1>2, <1>3, <1>4

\* Different sources have different elements.
LEMMA Unshared ==
  ASSUME MapConsistent, NEW x \in Flows, NEW y \in Flows, logger[x] = logger[y]
  PROVE  x = y
BY DEF MapConsistent

\* The count in the flow makes the logger what FlowLog makes of the log.
LEMMA HandleLog ==
  ASSUME TypeOK, MapConsistent, NEW c \in CPUs, NEW p, NEW new, Handling(c, p, new),
         CountFlow(c) \/ InsertFlow(c),
         IsLog(p.flows), new = LoggedIn(p.flows, key[c])
  PROVE  Handling(c, p, new)'
<1> DEFINE ip == key[c]
           old == p.flows
<1>t. /\ elem \in [Elems -> Element] /\ logger \in [IPs -> Elems \cup {NoElem}]
      /\ NoElem \notin Elems /\ ip \in IPs
  BY Types DEF CountFlow, InsertFlow, TypeOK, LocalsOK, Counting
<1>c. Cardinality(Flows) \in Nat /\ MaxEntries \in Nat
  BY ConstantsAssumption, FS_Subset, FS_CardinalityType DEF Flows
<1>1. /\ pc[c] \in {"hit", "miss"} /\ pc'[c] = "stamp"
      /\ UNCHANGED <<data, loc_ts, key>>
  BY Types DEF CountFlow, InsertFlow, Goto, locals
<1>2. Same(old) /\ Totals(p.total.prev, p.total.cur + 1) /\ timestamp = p.start
  BY <1>1 DEF Handling
<1>3. Same(new)'
  <2>1. CASE CountFlow(c)
    <3>1. logger[ip] = value[c] /\ value[c] \in Elems
      <4>1. pc[c] = "hit" BY <2>1 DEF CountFlow
      <4>2. logger[ip] = value[c] BY <4>1 DEF Handling
      <4>3. value[c] \in Elems BY <4>1 DEF TypeOK, LocalsOK
      <4> QED BY <4>2, <4>3
    <3>2. ip \in Flows /\ ip \in DOMAIN old
      BY <1>2, <1>t, <3>1 DEF Flows, Same
    <3>3. new = [old EXCEPT ![ip].cur = @ + 1]
      BY <3>2 DEF LoggedIn
    <3>4. /\ DOMAIN new = DOMAIN old
          /\ new[ip].prev = old[ip].prev /\ new[ip].cur = old[ip].cur + 1
          /\ \A x \in DOMAIN old \ {ip} : new[x] = old[x]
      BY <3>2, <3>3, SMT DEF IsLog, Counts
    <3>5. /\ UNCHANGED logger
          /\ elem'[logger[ip]].prev = elem[logger[ip]].prev
          /\ elem'[logger[ip]].cur = elem[logger[ip]].cur + 1
          /\ \A e \in Elems \ {logger[ip]} : elem'[e] = elem[e]
      BY <2>1, <1>t, <3>1 DEF CountFlow, Element
    <3>6. \A x \in Flows \ {ip} : logger[x] \in Elems \ {logger[ip]}
      BY <1>t, <3>2, Unshared DEF Flows
    <3>7. Flows' = Flows
      BY <3>5 DEF Flows
    <3>8. ASSUME NEW x \in DOMAIN new PROVE Has(x, new[x].prev, new[x].cur)'
      <4>1. x \in Flows /\ elem[logger[x]].prev = old[x].prev /\ elem[logger[x]].cur = old[x].cur
        BY <1>2, <3>4, <3>8 DEF Same, Has
      <4> QED BY <3>4, <3>5, <3>6, <3>7, <4>1, SMT DEF Has
    <3> QED BY <1>2, <3>4, <3>7, <3>8 DEF Same
  <2>2. CASE InsertFlow(c) /\ Cardinality(Flows) >= MaxEntries
    <3>1. logger[ip] = NoElem /\ UNCHANGED maps
      <4>1. pc[c] = "miss" BY <2>2 DEF InsertFlow
      <4>2. logger[ip] = NoElem BY <4>1 DEF Handling
      <4> QED BY <1>c, <2>2, <4>2, SMT DEF InsertFlow
    <3>2. new = old
      <4>1. ip \notin DOMAIN old /\ DOMAIN old = Flows
        BY <1>2, <3>1 DEF Same, Flows
      <4> QED BY <1>c, <2>2, <4>1, SMT DEF LoggedIn
    <3> QED BY <1>2, <3>1, <3>2, SameKept
  <2>3. CASE InsertFlow(c) /\ ~ Cardinality(Flows) >= MaxEntries
    <3>1. PICK e \in Elems :
             /\ ~ Linked(e)
             /\ logger' = [logger EXCEPT ![ip] = e]
             /\ elem' = [elem EXCEPT ![e] = [key |-> ip, prev |-> 0, cur |-> 1, entropy |-> 0]]
      BY <2>3 DEF InsertFlow
    <3>2. logger[ip] = NoElem
      BY <2>3 DEF InsertFlow, Handling
    <3>3. ip \notin DOMAIN old /\ DOMAIN old = Flows /\ Flows' = Flows \cup {ip}
      BY <1>2, <1>t, <3>1, <3>2 DEF Same, Flows
    <3>4. Cardinality(DOMAIN old) < MaxEntries
      BY <1>c, <2>3, <3>3, SMT
    <3>5. new = [x \in DOMAIN old \cup {ip} |-> IF x = ip THEN [prev |-> 0, cur |-> 1] ELSE old[x]]
      BY <3>3, <3>4 DEF LoggedIn
    <3>6. logger'[ip] = e /\ elem'[e].prev = 0 /\ elem'[e].cur = 1
      BY <1>t, <3>1
    <3>7. ASSUME NEW x \in Flows PROVE x # ip /\ logger'[x] = logger[x] /\ elem'[logger[x]] = elem[logger[x]]
      <4>1. x \in IPs /\ x # ip /\ logger[x] # e /\ logger[x] \in Elems
        BY <1>t, <3>1, <3>2 DEF Flows, Linked
      <4> QED BY <1>t, <3>1, <4>1
    <3>8. ASSUME NEW x \in DOMAIN new PROVE Has(x, new[x].prev, new[x].cur)'
      <4>1. CASE x = ip
        BY <3>3, <3>5, <3>6, <4>1, SMT DEF Has
      <4>2. CASE x # ip
        <5>1. x \in Flows /\ new[x] = old[x]
          BY <3>3, <3>5, <4>2
        <5>2. elem[logger[x]].prev = old[x].prev /\ elem[logger[x]].cur = old[x].cur
          BY <1>2, <3>3, <5>1 DEF Same, Has
        <5> QED BY <3>3, <3>7, <5>1, <5>2 DEF Has
      <4> QED BY <4>1, <4>2
    <3>9. DOMAIN new = Flows'
      BY <3>3, <3>5
    <3> QED BY <3>8, <3>9 DEF Same
  <2> QED BY <2>1, <2>2, <2>3
<1>4. Totals(p.total.prev, p.total.cur + 1)' /\ timestamp' = p.start
  BY <1>1, <1>2 DEF Totals, data, loc_ts
<1> QED
  BY <1>1, <1>3, <1>4 DEF Handling, Idle, Verdicts, Closes, Closing, OnElem, OnFlow

\* The steps on the stamp, up to the end of the locked region.
LEMMA HandleStamp ==
  ASSUME TypeOK, NEW c \in CPUs, NEW p, NEW new, Handling(c, p, new), ~ Idle(c)',
         ReadStamp(c) \/ Lock(c) \/ Claim(c) \/ SetStamp(c) \/ Unlock(c),
         p.start \in Nat
  PROVE  Handling(c, p, new)'
<1>0. Interval \in Nat /\ timestamp \in Nat /\ ts[c] \in Nat
  BY ConstantsAssumption, Types
<1> USE Types DEF Goto, Closes, Closing, OnElem, OnFlow
<1>1. CASE ReadStamp(c) \/ Lock(c)
  <2>1. /\ pc[c] \in {"stamp", "lock"} /\ pc'[c] \in {"lock", "claim"}
        /\ pc[c] = "stamp" => ts[c] > timestamp + Interval
        /\ UNCHANGED <<data, timestamp, maps, locals>>
    BY <1>1 DEF ReadStamp, Lock, Return, Idle, Verdicts, bpf_redirect_map, loc_ts
  <2> QED BY <1>0, <2>1, SameKept DEF Handling, Totals, data, locals
<1>2. CASE Claim(c)
  <2>1. pc[c] = "claim" /\ timestamp = p.start /\ ts[c] > p.start + Interval
    BY <1>2 DEF Claim, Handling
  <2>2. /\ \/ timestamp = 0 /\ pc'[c] = "setFirst"
           \/ timestamp # 0 /\ pc'[c] = "setClose"
        /\ UNCHANGED <<data, loc_ts, maps, locals>>
    BY <1>0, <1>2, <2>1, SMT DEF Claim
  <2> QED BY <2>1, <2>2, SameKept DEF Handling, Totals, data, loc_ts, locals
<1>3. CASE SetStamp(c)
  <2>1. /\ \/ pc[c] = "setFirst" /\ pc'[c] = "unlockEnd"
           \/ pc[c] = "setClose" /\ pc'[c] = "unlockClose"
        /\ timestamp' = ts[c]
        /\ UNCHANGED <<data, maps, locals>>
    BY <1>3 DEF SetStamp
  <2> QED BY <2>1, SameKept DEF Handling, Totals, data, locals
<1>4. CASE Unlock(c)
  <2>1. /\ pc[c] = "unlockClose" /\ pc'[c] = "entropy" /\ todo'[c] = IPs
        /\ UNCHANGED <<data, timestamp, maps, key, ts, value, seen>>
    BY <1>4 DEF Unlock, Return, Idle, Verdicts, bpf_redirect_map
  <2>2. EntropyWalk(c)'
    BY <2>1 DEF EntropyWalk, Flows
  <2> QED BY <2>1, <2>2, SameKept DEF Handling, Totals, data
<1> QED BY <1>1, <1>2, <1>3, <1>4

\* The first walk.
LEMMA HandleEntropy ==
  ASSUME TypeOK, MapConsistent, NEW c \in CPUs, NEW p, NEW new, Handling(c, p, new),
         (\E ip \in IPs : calc_entropy(c, ip)) \/ StoreEntropy(c) \/ Average(c)
  PROVE  Handling(c, p, new)'
<1>1. /\ pc[c] \in {"entropy", "storeEntropy"}
      /\ UNCHANGED <<data, loc_ts, logger, key, ts>>
  BY DEF calc_entropy, StoreEntropy, Average, maps
<1>2. /\ Same(new) /\ Totals(p.total.prev, p.total.cur + 1)
      /\ ts[c] > p.start + Interval /\ p.start # 0 /\ timestamp = ts[c]
      /\ EntropyWalk(c)
  BY <1>1 DEF Handling, Closes, Closing, OnElem
<1>3. Totals(p.total.prev, p.total.cur + 1)' /\ ts'[c] > p.start + Interval /\ timestamp' = ts'[c]
  BY <1>1, <1>2 DEF Totals, data, loc_ts
<1>4. Flows' = Flows
  BY <1>1 DEF Flows
<1>5. ASSUME NEW ip \in IPs, calc_entropy(c, ip)
      PROVE  pc'[c] \in {"entropy", "storeEntropy"} /\ Same(new)' /\ EntropyWalk(c)'
  <2>0. /\ pc[c] = "entropy" /\ todo'[c] = todo[c] \ {ip} /\ value'[c] = logger[ip]
        /\ UNCHANGED <<logger, elem>>
    BY <1>5, Types DEF calc_entropy, Visit, maps
  <2>1. Same(new)'
    BY <1>2, <2>0, SameKept DEF maps
  <2>2. CASE logger[ip] = NoElem
    <3>1. pc'[c] = "entropy" /\ ip \notin Flows
      BY <1>5, <2>0, <2>2 DEF calc_entropy, Flows
    <3> QED BY <1>2, <1>4, <2>0, <2>1, <3>1 DEF EntropyWalk, EntropyOK
  <2>3. CASE logger[ip] # NoElem
    <3>1. pc'[c] = "storeEntropy" /\ ip \in Flows
      BY <1>5, <2>3, Types DEF calc_entropy, Flows, Goto
    <3>2. seen'[c] # 0 => elem[logger[ip]].prev # 0
      BY <1>5, <2>3, Types DEF calc_entropy, Entropies
    <3> QED BY <1>2, <1>4, <2>0, <2>1, <3>1, <3>2 DEF EntropyWalk, EntropyOK
  <2> QED BY <2>2, <2>3
<1>6. CASE StoreEntropy(c)
  <2>1. pc[c] = "storeEntropy" /\ pc'[c] = "entropy" /\ value[c] \in Elems /\ UNCHANGED todo
    BY <1>6, Types DEF StoreEntropy, Goto, TypeOK, LocalsOK, OnElem
  <2>2. /\ elem'[value[c]].entropy = seen[c]
        /\ \A e \in Elems : elem'[e].prev = elem[e].prev /\ elem'[e].cur = elem[e].cur
        /\ \A e \in Elems \ {value[c]} : elem'[e] = elem[e]
    BY <1>6, <2>1, Types DEF StoreEntropy, Element
  <2>3. \A x \in Flows : logger[x] \in Elems
    BY Types DEF Flows
  <2>4. Same(new)'
    BY <1>1, <1>2, <1>4, <2>2, <2>3 DEF Same, Has
  <2>5. ASSUME NEW x \in Flows' \ todo'[c] PROVE EntropyOK(logger[x])'
    <3>1. x \in Flows \ todo[c] /\ logger[x] \in Elems
      BY <1>4, <2>1, <2>3
    <3>2. CASE logger[x] = value[c]
      BY <1>1, <1>2, <2>1, <2>2, <3>1, <3>2 DEF EntropyWalk, EntropyOK
    <3>3. CASE logger[x] # value[c]
      BY <1>1, <1>2, <2>1, <2>2, <3>1, <3>3 DEF EntropyWalk, EntropyOK
    <3> QED BY <3>2, <3>3
  <2>6. EntropyWalk(c)'
    BY <2>1, <2>5 DEF EntropyWalk
  <2> QED
    BY <1>2, <1>3, <2>1, <2>4, <2>6 DEF Handling, Idle, Verdicts, Closes, Closing, OnElem, OnFlow
<1>7. CASE Average(c)
  <2>1. pc[c] = "entropy" /\ pc'[c] = "detect" /\ todo[c] = {} /\ todo'[c] = IPs /\ UNCHANGED <<logger, elem>>
    BY <1>7, Types DEF Average, Goto, maps
  <2>2. Flows \subseteq IPs /\ Flows = DOMAIN new
    BY <1>2 DEF Flows, Same
  <2>3. \A x \in DOMAIN new : Has(x, new[x].prev, new[x].cur)' /\ EntropyOK(logger[x])'
    BY <1>2, <1>4, <2>1, <2>2 DEF Same, Has, EntropyWalk, EntropyOK
  <2>4. DetectionWalk(c, new)'
    BY <1>4, <2>1, <2>2, <2>3 DEF DetectionWalk, OnFlow
  <2> QED
    BY <1>2, <1>3, <2>1, <2>4 DEF Handling, Idle, Verdicts, Closes, Closing, OnElem, OnFlow
<1>8. ASSUME pc'[c] \in {"entropy", "storeEntropy"}, Same(new)', EntropyWalk(c)'
      PROVE  Handling(c, p, new)'
  BY <1>2, <1>3, <1>8 DEF Handling, Idle, Verdicts, Closes, Closing, OnElem, OnFlow
<1> QED BY <1>5, <1>6, <1>7, <1>8

\* While c is on the second walk.
Walking(c, p, new) ==
  /\ pc[c] \in {"detect"} \cup OnFlow
  /\ Totals(p.total.prev, p.total.cur + 1)
  /\ ts[c] > p.start + Interval /\ p.start # 0 /\ timestamp = ts[c]

\* The second walk, from one source to the next: it takes the counts of a
\* source it has not seen.
LEMMA HandleVisit ==
  ASSUME TypeOK, MapConsistent, NEW c \in CPUs, NEW new, NEW ip \in IPs, detection(c, ip),
         DetectionWalk(c, new)
  PROVE  /\ pc'[c] \in {"detect"} \cup OnFlow
         /\ DetectionWalk(c, new)'
         /\ pc'[c] \in OnFlow => AtFlow(c, new[elem[value[c]].key])'
<1>0. /\ pc[c] = "detect" /\ ip \in todo[c] /\ todo'[c] = todo[c] \ {ip} /\ value'[c] = logger[ip]
      /\ UNCHANGED <<logger, elem>>
  BY Types DEF detection, Visit, maps
<1>1. Flows' = Flows
  BY <1>0 DEF Flows
<1>2. \A x \in DOMAIN new \cap todo[c] :
         Has(x, new[x].prev, new[x].cur) /\ Has(x, new[x].prev, new[x].cur)' /\ EntropyOK(logger[x])'
  BY <1>0, <1>1 DEF DetectionWalk, Has, EntropyOK
<1>3. \A x \in DOMAIN new \ todo[c] : Closed(new, x)'
  BY <1>0, <1>1 DEF DetectionWalk, Closed, Has, OnFlow
<1>4. CASE logger[ip] = NoElem
  <2>1. pc'[c] = "detect" /\ ip \notin Flows
    BY <1>0, <1>4 DEF detection, Flows
  <2>2. ip \notin DOMAIN new
    BY <1>0, <1>2, <2>1 DEF Has
  <2> QED BY <1>0, <1>1, <1>2, <1>3, <2>1, <2>2 DEF DetectionWalk, OnFlow
<1>5. CASE logger[ip] # NoElem
  <2>1. ip \in Flows /\ ip \in DOMAIN new /\ elem[logger[ip]].key = ip /\ logger[ip] \in Elems
    BY <1>5, Types DEF Flows, DetectionWalk, MapConsistent
  <2>2. pc'[c] = IF elem[logger[ip]].entropy = 0 THEN "copyFlow" ELSE "testFlow"
    BY <1>5, Types DEF detection, Goto
  <2>3. elem'[value'[c]].key = ip
    BY <1>0, <2>1
  <2>4. DetectionWalk(c, new)'
    BY <1>0, <1>1, <1>2, <1>3, <2>1, <2>2, <2>3 DEF DetectionWalk, OnFlow
  <2>5. Has(ip, new[ip].prev, new[ip].cur) /\ EntropyOK(logger[ip])
    BY <1>0, <2>1 DEF DetectionWalk
  <2>6. AtFlow(c, new[elem[value[c]].key])'
    BY <1>0, <2>2, <2>3, <2>5 DEF AtFlow, Has, EntropyOK
  <2> QED BY <2>2, <2>4, <2>6 DEF OnFlow
<1> QED BY <1>4, <1>5

\* The second walk, at a source.
LEMMA HandleFlow ==
  ASSUME TypeOK, MapConsistent, NEW c \in CPUs, NEW new, DetectionWalk(c, new),
         pc[c] \in OnFlow, AtFlow(c, new[elem[value[c]].key]), IsLog(new),
         TestFlow(c) \/ DeleteFlow(c) \/ LoadFlow(c) \/ StoreFlow(c) \/ ZeroFlow(c)
  PROVE  /\ pc'[c] \in {"detect"} \cup OnFlow
         /\ DetectionWalk(c, new)'
         /\ pc'[c] \in OnFlow => AtFlow(c, new[elem[value[c]].key])'
<1>e. value[c] \in Elems
  BY DEF TypeOK, LocalsOK, OnFlow, OnElem
<1>k. elem[value[c]].key \in Flows \ todo[c] /\ logger[elem[value[c]].key] = value[c]
  BY DEF DetectionWalk
<1>0. PICK e \in Elems, k \in IPs :
         /\ e = value[c] /\ k = elem[e].key
         /\ k \in Flows \ todo[c] /\ logger[k] = e /\ k \in DOMAIN new
         /\ AtFlow(c, new[k])
  BY <1>e, <1>k DEF DetectionWalk, Flows
<1>1. \A x \in Flows \ {k} : logger[x] \in Elems \ {e}
  BY <1>0, Unshared, Types DEF Flows
<1>2. CASE TestFlow(c) \/ LoadFlow(c)
  <2>1. /\ UNCHANGED <<logger, elem, value, todo>>
        /\ pc'[c] \in {"delete", "copyFlow", "storeFlow"}
        /\ pc[c] \in {"testFlow", "copyFlow"}
        /\ pc'[c] = "delete" => pc[c] = "testFlow" /\ elem[e].cur = 0
        /\ pc'[c] = "storeFlow" => seen'[c] = elem[e].cur
    BY <1>0, <1>2, Types DEF TestFlow, LoadFlow, Goto, maps, locals
  <2>2. Flows' = Flows
    BY <2>1 DEF Flows
  <2>3. DetectionWalk(c, new)'
    BY <2>1, <2>2 DEF DetectionWalk, Has, EntropyOK, Closed, OnFlow
  <2>4. AtFlow(c, new[k])'
    BY <1>0, <2>1 DEF AtFlow
  <2>5. elem'[value'[c]].key = k
    BY <1>0, <2>1
  <2> QED BY <2>1, <2>3, <2>4, <2>5 DEF OnFlow
<1>3. CASE StoreFlow(c)
  <2>1. /\ UNCHANGED <<logger, value, todo>>
        /\ pc[c] = "storeFlow" /\ pc'[c] = "zeroFlow"
        /\ elem'[e].key = k /\ elem'[e].prev = seen[c] /\ elem'[e].cur = elem[e].cur
        /\ \A y \in Elems \ {e} : elem'[y] = elem[y]
    BY <1>0, <1>3, Types DEF StoreFlow, Goto, Element
  <2>2. Flows' = Flows
    BY <2>1 DEF Flows
  <2>3. DetectionWalk(c, new)'
    BY <1>0, <1>1, <2>1, <2>2, SMT DEF DetectionWalk, Has, EntropyOK, Closed, OnFlow
  <2>4. AtFlow(c, new[k])'
    BY <1>0, <2>1 DEF AtFlow
  <2>5. elem'[value'[c]].key = k
    BY <1>0, <2>1
  <2> QED BY <2>1, <2>3, <2>4, <2>5 DEF OnFlow
<1>4. CASE ZeroFlow(c)
  <2>1. /\ UNCHANGED <<logger, todo>>
        /\ pc[c] = "zeroFlow" /\ pc'[c] = "detect"
        /\ elem'[e].prev = elem[e].prev /\ elem'[e].cur = 0
        /\ \A y \in Elems \ {e} : elem'[y] = elem[y]
    BY <1>0, <1>4, Types, SMT DEF ZeroFlow, Goto, Element
  <2>2. Flows' = Flows
    BY <2>1 DEF Flows
  <2>3. Closed(new, k)'
    BY <1>0, <2>1, <2>2 DEF Closed, Has, AtFlow
  <2>4. \A x \in DOMAIN new \cap todo'[c] : Has(x, new[x].prev, new[x].cur)' /\ EntropyOK(logger[x])'
    BY <1>0, <1>1, <2>1, <2>2, SMT DEF DetectionWalk, Has, EntropyOK
  <2>5. ASSUME NEW x \in DOMAIN new \ todo'[c] PROVE Closed(new, x)'
    <3>1. CASE x = k
      BY <2>3, <3>1
    <3>2. CASE x # k
      <4>1. Closed(new, x)
        BY <1>0, <2>1, <3>2 DEF DetectionWalk
      <4> QED BY <1>1, <2>1, <2>2, <3>2, <4>1 DEF Closed, Has
    <3> QED BY <3>1, <3>2
  <2> QED BY <2>1, <2>2, <2>4, <2>5 DEF DetectionWalk, OnFlow
<1>5. CASE DeleteFlow(c)
  <2>1. /\ UNCHANGED <<elem, todo>>
        /\ pc[c] = "delete" /\ pc'[c] = "detect"
        /\ logger' = [logger EXCEPT ![k] = NoElem]
    BY <1>0, <1>5, Types DEF DeleteFlow, Goto
  <2>2. Flows' = Flows \ {k} /\ \A x \in Flows \ {k} : logger'[x] = logger[x]
    BY <1>0, <2>1, Types DEF Flows
  <2>3. Closed(new, k)'
    BY <1>0, <2>1, <2>2 DEF Closed, AtFlow
  <2>4. \A x \in DOMAIN new \cap todo'[c] : Has(x, new[x].prev, new[x].cur)' /\ EntropyOK(logger[x])'
    BY <1>0, <2>1, <2>2, SMT DEF DetectionWalk, Has, EntropyOK
  <2>5. ASSUME NEW x \in DOMAIN new \ todo'[c] PROVE Closed(new, x)'
    <3>1. CASE x = k
      BY <2>3, <3>1
    <3>2. CASE x # k
      <4>1. Closed(new, x)
        BY <1>0, <2>1, <3>2 DEF DetectionWalk
      <4> QED BY <2>1, <2>2, <3>2, <4>1 DEF Closed, Has
    <3> QED BY <3>1, <3>2
  <2> QED BY <2>1, <2>2, <2>4, <2>5 DEF DetectionWalk, OnFlow
<1> QED BY <1>2, <1>3, <1>4, <1>5

\* The second walk, and the shift of the totals.
LEMMA HandleClose ==
  ASSUME TypeOK, MapConsistent, NEW c \in CPUs, NEW p, NEW new, Handling(c, p, new),
         ~ Idle(c)', IsLog(new),
         \/ \E ip \in IPs : detection(c, ip)
         \/ TestFlow(c) \/ DeleteFlow(c) \/ LoadFlow(c) \/ StoreFlow(c) \/ ZeroFlow(c)
         \/ EndDetection(c) \/ CopyTotal(c) \/ StoreTotal(c) \/ ZeroTotal(c) \/ ResetBits(c)
  PROVE  Handling(c, p, new)'
<1>1. CASE \/ \E ip \in IPs : detection(c, ip)
           \/ TestFlow(c) \/ DeleteFlow(c) \/ LoadFlow(c) \/ StoreFlow(c) \/ ZeroFlow(c)
  <2>1. pc[c] \in {"detect"} \cup OnFlow /\ UNCHANGED <<data, loc_ts, ts>>
    BY <1>1 DEF detection, TestFlow, DeleteFlow, LoadFlow, StoreFlow, ZeroFlow, OnFlow, locals
  <2>2. Walking(c, p, new) /\ DetectionWalk(c, new)
    BY <2>1 DEF Handling, Walking, OnFlow, Closes, Closing, OnElem
  <2>3. /\ pc'[c] \in {"detect"} \cup OnFlow
        /\ DetectionWalk(c, new)'
        /\ pc'[c] \in OnFlow => AtFlow(c, new[elem[value[c]].key])'
    <3>1. CASE \E ip \in IPs : detection(c, ip)
      BY <2>2, <3>1, HandleVisit
    <3>2. CASE TestFlow(c) \/ DeleteFlow(c) \/ LoadFlow(c) \/ StoreFlow(c) \/ ZeroFlow(c)
      <4>1. pc[c] \in OnFlow
        BY <3>2 DEF TestFlow, DeleteFlow, LoadFlow, StoreFlow, ZeroFlow, OnFlow
      <4>2. AtFlow(c, new[elem[value[c]].key])
        BY <4>1 DEF Handling
      <4> QED BY <2>2, <3>2, <4>1, <4>2, HandleFlow
    <3> QED BY <1>1, <3>1, <3>2
  <2>4. Walking(c, p, new)'
    BY <2>1, <2>2, <2>3 DEF Walking, Totals, data, loc_ts
  <2> QED
    BY <2>3, <2>4 DEF Walking, Handling, Idle, Verdicts, Closes, Closing, OnElem, OnFlow
<1>2. CASE EndDetection(c)
  <2>1. pc[c] = "detect" /\ pc'[c] = "copyTotal" /\ todo[c] = {} /\ UNCHANGED <<data, loc_ts, logger, elem, ts>>
    BY <1>2, Types DEF EndDetection, Goto, maps, locals
  <2>2. Walking(c, p, new) /\ DetectionWalk(c, new)
    BY <2>1 DEF Handling, Walking, OnFlow, Closes, Closing, OnElem
  <2>3. Flows' = Flows
    BY <2>1 DEF Flows
  <2>4. Flows' \subseteq DOMAIN new /\ \A ip \in DOMAIN new : Closed(new, ip)'
    BY <2>1, <2>2, <2>3 DEF DetectionWalk, Closed, Has, OnFlow
  <2> QED
    BY <2>1, <2>2, <2>4 DEF Walking, Handling, Totals, Idle, Verdicts, Closes, Closing, OnElem, OnFlow, data, loc_ts
<1>3. CASE CopyTotal(c) \/ StoreTotal(c) \/ ZeroTotal(c)
  <2>1. /\ UNCHANGED <<loc_ts, logger, elem, ts>>
        /\ \/ /\ pc[c] = "copyTotal" /\ pc'[c] = "storeTotal"
              /\ seen'[c] = cur_interval_pkt /\ UNCHANGED data
           \/ /\ pc[c] = "storeTotal" /\ pc'[c] = "zeroTotal"
              /\ prev_interval_pkt' = seen[c] /\ UNCHANGED cur_interval_pkt
           \/ /\ pc[c] = "zeroTotal" /\ pc'[c] = "reset"
              /\ cur_interval_pkt' = 0 /\ UNCHANGED prev_interval_pkt
    BY <1>3, Types DEF CopyTotal, StoreTotal, ZeroTotal, Goto, maps, locals
  <2>2. /\ Flows \subseteq DOMAIN new /\ \A ip \in DOMAIN new : Closed(new, ip)
        /\ ts[c] > p.start + Interval /\ p.start # 0 /\ timestamp = ts[c]
    BY <2>1 DEF Handling, Closes, Closing
  <2>3. Flows' = Flows
    BY <2>1 DEF Flows
  <2>4. Flows' \subseteq DOMAIN new /\ \A ip \in DOMAIN new : Closed(new, ip)'
    BY <2>1, <2>2, <2>3 DEF Closed, Has
  <2>5. /\ pc'[c] = "storeTotal" => Totals(p.total.prev, p.total.cur + 1)' /\ seen'[c] = p.total.cur + 1
        /\ pc'[c] = "zeroTotal" => Totals(p.total.cur + 1, p.total.cur + 1)'
        /\ pc'[c] = "reset" => Totals(p.total.cur + 1, 0)'
    BY <2>1 DEF Handling, Totals, data
  <2> QED
    BY <2>1, <2>2, <2>4, <2>5 DEF Handling, Idle, Verdicts, Closes, Closing, OnElem, OnFlow, loc_ts
<1>4. CASE ResetBits(c)
  BY <1>4, Types DEF ResetBits, Return, Goto, Idle, Verdicts, bpf_redirect_map
<1> QED BY <1>1, <1>2, <1>3, <1>4

\* The log with one more packet is a log.
LEMMA LoggedIsLog ==
  ASSUME NEW old, IsLog(old), NEW ip \in IPs
  PROVE  IsLog(LoggedIn(old, ip))
<1>1. CASE ip \in DOMAIN old
  BY <1>1, SMT DEF LoggedIn, IsLog, Counts
<1>2. CASE ip \notin DOMAIN old /\ Cardinality(DOMAIN old) < MaxEntries
  BY <1>2 DEF LoggedIn, IsLog, Counts
<1>3. CASE ip \notin DOMAIN old /\ ~ Cardinality(DOMAIN old) < MaxEntries
  BY <1>3 DEF LoggedIn
<1> QED BY <1>1, <1>2, <1>3

\* A log before a packet.
IsPre(p) == IsLog(p.flows) /\ p.total \in Counts /\ p.start \in Nat

\* Every step within the handling of a packet keeps Handling.
LEMMA HandleStep ==
  ASSUME TypeOK, MapConsistent, NEW c \in CPUs, NEW p, NEW new, Handling(c, p, new),
         IsPre(p), key[c] \in IPs, new = LoggedIn(p.flows, key[c]), CpuStep(c), ~ Idle(c)'
  PROVE  Handling(c, p, new)' /\ UNCHANGED <<now, key, ts>>
<1>1. IsLog(p.flows) /\ IsLog(new) /\ p.start \in Nat /\ p.total.prev \in Nat /\ p.total.cur \in Nat
  BY LoggedIsLog DEF IsPre, Counts
<1>2. Handling(c, p, new)'
  <2>1. CASE Filter(c) \/ CountTotal(c) \/ LoadTotal(c) \/ CompareBits(c) \/ GrowBits(c) \/ LookupFlow(c)
    BY <1>1, <2>1, HandleCount
  <2>2. CASE CountFlow(c) \/ InsertFlow(c)
    BY <1>1, <2>2, HandleLog
  <2>3. CASE ReadStamp(c) \/ Lock(c) \/ Claim(c) \/ SetStamp(c) \/ Unlock(c)
    BY <1>1, <2>3, HandleStamp
  <2>4. CASE (\E ip \in IPs : calc_entropy(c, ip)) \/ StoreEntropy(c) \/ Average(c)
    BY <2>4, HandleEntropy
  <2>5. CASE \/ \E ip \in IPs : detection(c, ip)
             \/ TestFlow(c) \/ DeleteFlow(c) \/ LoadFlow(c) \/ StoreFlow(c) \/ ZeroFlow(c)
             \/ EndDetection(c) \/ CopyTotal(c) \/ StoreTotal(c) \/ ZeroTotal(c) \/ ResetBits(c)
    BY <1>1, <2>5, HandleClose
  <2> QED BY <2>1, <2>2, <2>3, <2>4, <2>5 DEF CpuStep, PacketStep, CloseStep
<1>3. CASE PacketStep(c)
  <2>1. UNCHANGED <<now, key, ts>>
    BY <1>3, Types DEF PacketStep, Filter, CountTotal, LoadTotal, CompareBits, GrowBits, LookupFlow,
       CountFlow, InsertFlow, ReadStamp, Lock, Claim, SetStamp, Unlock, Return, Goto, Idle, Verdicts,
       bpf_redirect_map, env, locals
  <2> QED BY <1>2, <2>1
<1>4. CASE CloseStep(c)
  <2>1. UNCHANGED <<now, key, ts>>
    BY <1>4, Types DEF CloseStep, calc_entropy, StoreEntropy, Average, detection, TestFlow, DeleteFlow,
       LoadFlow, StoreFlow, ZeroFlow, EndDetection, CopyTotal, StoreTotal, ZeroTotal, ResetBits,
       Return, Goto, Idle, Verdicts, bpf_redirect_map, env, locals
  <2> QED BY <1>2, <2>1
<1> QED BY <1>3, <1>4 DEF CpuStep

\* How the handling of a counted packet ends: within the interval, as the
\* first packet late enough, or after closing the interval.
LEMMA HandleReturn ==
  ASSUME TypeOK, NEW c \in CPUs, NEW p, NEW new, Handling(c, p, new),
         CpuStep(c), Idle(c)', pc'[c] # "XDP_DROP"
  PROVE  /\ ~ Idle(c) /\ UNCHANGED <<now, maps, prev_interval_pkt, cur_interval_pkt, timestamp>>
         /\ \/ /\ Same(new) /\ Totals(p.total.prev, p.total.cur + 1)
               /\ timestamp = p.start /\ ts[c] <= p.start + Interval
            \/ /\ Same(new) /\ Totals(p.total.prev, p.total.cur + 1)
               /\ timestamp = ts[c] /\ p.start = 0 /\ ts[c] > p.start + Interval
            \/ /\ Flows \subseteq DOMAIN new /\ \A ip \in DOMAIN new : Closed(new, ip)
               /\ Totals(p.total.cur + 1, 0)
               /\ timestamp = ts[c] /\ p.start # 0 /\ ts[c] > p.start + Interval
<1>1. CASE PacketStep(c)
  <2>1. \/ ReadStamp(c) /\ pc[c] = "stamp" /\ ts[c] <= timestamp + Interval
        \/ Unlock(c) /\ pc[c] = "unlockEnd"
    BY <1>1, Types DEF PacketStep, Filter, CountTotal, LoadTotal, CompareBits, GrowBits, LookupFlow,
       CountFlow, InsertFlow, ReadStamp, Lock, Claim, SetStamp, Unlock, Return, Goto, Idle, Verdicts
  <2>2. UNCHANGED <<now, maps, prev_interval_pkt, cur_interval_pkt, timestamp>>
    BY <2>1 DEF ReadStamp, Unlock, env, data, loc_ts
  <2> QED BY <2>1, <2>2 DEF Handling, Idle, Verdicts
<1>2. CASE CloseStep(c)
  <2>1. ResetBits(c) /\ pc[c] = "reset"
    BY <1>2, Types DEF CloseStep, calc_entropy, StoreEntropy, Average, detection, TestFlow, DeleteFlow,
       LoadFlow, StoreFlow, ZeroFlow, EndDetection, CopyTotal, StoreTotal, ZeroTotal, ResetBits, Goto, Idle, Verdicts
  <2>2. UNCHANGED <<now, maps, prev_interval_pkt, cur_interval_pkt, timestamp>>
    BY <2>1 DEF ResetBits, env, loc_ts
  <2> QED BY <2>1, <2>2 DEF Handling, Closes, Closing, Idle, Verdicts
<1> QED BY <1>1, <1>2 DEF CpuStep

\* When the logger holds what log says, the log of the maps is log.
LEMMA SameLog ==
  ASSUME NEW log, IsLog(log), Same(log)
  PROVE  Log.flows = log
<1>1. Log.flows = [ip \in Flows |-> [prev |-> elem[logger[ip]].prev, cur |-> elem[logger[ip]].cur]]
  BY DEF Log
<1>2. \A ip \in DOMAIN log : log[ip] \in Counts
  BY DEF IsLog
<1>3. \A ip \in DOMAIN log : log[ip] = [prev |-> log[ip].prev, cur |-> log[ip].cur]
  BY <1>2 DEF Counts
<1>4. \A ip \in DOMAIN log : Log.flows[ip] = log[ip]
  BY <1>1, <1>3, SMT DEF Same, Has
<1>5. log = [ip \in DOMAIN log |-> log[ip]]
  BY DEF IsLog
<1> QED BY <1>1, <1>4, <1>5 DEF Same

\* After the second walk it is log with the counts shifted, without some of
\* the silent sources.
LEMMA ClosedLog ==
  ASSUME NEW log, IsLog(log), Flows \subseteq DOMAIN log, \A ip \in DOMAIN log : Closed(log, ip)
  PROVE  \E gone \in SUBSET {ip \in DOMAIN log : log[ip].cur = 0 /\ log[ip].prev # 0} :
            Log.flows = [x \in DOMAIN log \ gone |-> [prev |-> log[x].cur, cur |-> 0]]
<1> DEFINE gone == DOMAIN log \ Flows
<1>1. gone \in SUBSET {ip \in DOMAIN log : log[ip].cur = 0 /\ log[ip].prev # 0}
  BY DEF Closed, Has
<1>2. DOMAIN log \ gone = Flows
  OBVIOUS
<1>3. \A ip \in Flows : elem[logger[ip]].prev = log[ip].cur /\ elem[logger[ip]].cur = 0
  BY DEF Closed, Has
<1>4. Log.flows = [ip \in Flows |-> [prev |-> elem[logger[ip]].prev, cur |-> elem[logger[ip]].cur]]
  BY DEF Log
<1>5. Log.flows = [x \in Flows |-> [prev |-> log[x].cur, cur |-> 0]]
  BY <1>3, <1>4
<1> HIDE DEF gone
<1> QED BY <1>1, <1>2, <1>5

\* The invariant of the one CPU.
SeqInv(c) ==
  /\ IsPre(pre.log)
  /\ pre.at \in Nat /\ pre.at <= now /\ now <= MaxNow
  /\ ~ Idle(c) => key[c] \in IPs /\ pre.at <= ts[c] /\ ts[c] <= now
  /\ Handling(c, pre.log, LoggedIn(pre.log.flows, key[c]))

\* A CPU that is idle, or that has just received a packet.
LEMMA HandleIdle ==
  ASSUME NEW c, NEW p, NEW new, NEW next, Handling(c, p, new),
         Idle(c) \/ pc[c] = "filter", UNCHANGED <<maps, prev_interval_pkt, cur_interval_pkt, timestamp>>,
         Idle(c)' \/ pc'[c] = "filter"
  PROVE  Handling(c, p, next)'
<1>1. Same(p.flows) /\ Totals(p.total.prev, p.total.cur) /\ timestamp = p.start
  BY DEF Handling
<1>2. Same(p.flows)' /\ Totals(p.total.prev, p.total.cur)' /\ timestamp' = p.start
  BY <1>1, SameKept DEF Totals
<1> QED BY <1>2 DEF Handling, Idle, Verdicts, Closes, Closing, OnElem, OnFlow

\* The invariant is about the maps and the locals.
LEMMA HandlingKept ==
  ASSUME NEW c, NEW p, NEW new, Handling(c, p, new), UNCHANGED <<data, loc_ts, maps, pc, locals>>
  PROVE  Handling(c, p, new)'
<1>1. UNCHANGED <<prev_interval_pkt, cur_interval_pkt, timestamp, logger, elem, pc, key, ts, value, seen, todo>>
  BY DEF data, loc_ts, maps, locals
<1>2. /\ Flows' = Flows /\ Idle(c)' = Idle(c) /\ Closes(c)' = Closes(c)
      /\ \A log : Same(log)' = Same(log)
      /\ \A m, n : Totals(m, n)' = Totals(m, n)
      /\ \A ip, m, n : Has(ip, m, n)' = Has(ip, m, n)
      /\ \A log, ip : Closed(log, ip)' = Closed(log, ip)
  BY <1>1, Zenon DEF Same, Has, Flows, Totals, Closed, Idle, Closes
<1>3. EntropyWalk(c)' = EntropyWalk(c)
  BY <1>1, Zenon DEF EntropyWalk, EntropyOK, Flows
<1>4. DetectionWalk(c, new)' = DetectionWalk(c, new)
  BY <1>1, Zenon DEF DetectionWalk, EntropyOK, Flows, Has, Closed
<1>5. \A old : AtFlow(c, old)' = AtFlow(c, old)
  BY <1>1, Zenon DEF AtFlow
<1> QED
  BY <1>1, <1>2, <1>3, <1>4, <1>5, SMT DEF Handling

\* The steps of the environment, and the frames that start no invocation or
\* start one, leave the log alone.
LEMMA SeqQuiet ==
  ASSUME TypeOK, NEW c \in CPUs, CPUs = {c}, SeqInv(c), LogNext,
         \/ Tick \/ \E ip \in IPs : AddRule(ip)
         \/ ReceiveMalformed(c) \/ ReceiveOther(c) \/ \E ip \in IPs : Receive(c, ip)
  PROVE  SeqInv(c)' /\ pre' = pre
<1>0. MaxNow \in Nat /\ (AllIdle <=> Idle(c)) /\ (AllIdle' <=> Idle(c)')
  BY ConstantsAssumption DEF AllIdle, Idle
<1>1. CASE Tick \/ \E ip \in IPs : AddRule(ip)
  <2>1. UNCHANGED <<data, loc_ts, maps, pc, locals>>
    BY <1>1 DEF Tick, AddRule
  <2>2. now' \in Nat /\ now <= now' /\ now' <= MaxNow
    BY <1>0, <1>1, Types, SMT DEF Tick, AddRule, SeqInv
  <2>3. pre' = pre
    BY <1>0, <2>1 DEF LogNext, Idle
  <2>4. UNCHANGED <<pc, key, ts>>
    BY <2>1 DEF locals
  <2>5. Handling(c, pre.log, LoggedIn(pre.log.flows, key[c]))'
    <3>1. PICK p, new : p = pre.log /\ new = LoggedIn(p.flows, key[c])
      OBVIOUS
    <3>2. Handling(c, p, new)'
      BY <2>1, <3>1, HandlingKept DEF SeqInv
    <3> QED BY <2>3, <2>4, <3>1, <3>2
  <2> QED BY <2>2, <2>3, <2>4, <2>5, Types, SMT DEF SeqInv, IsPre, Idle
<1>2. CASE ReceiveMalformed(c) \/ ReceiveOther(c) \/ \E ip \in IPs : Receive(c, ip)
  <2>1. /\ Idle(c) /\ UNCHANGED <<now, maps, prev_interval_pkt, cur_interval_pkt, timestamp>>
        /\ \/ Idle(c)'
           \/ pc'[c] = "filter" /\ key'[c] \in IPs /\ ts'[c] = now
    BY <1>2, Types DEF ReceiveMalformed, ReceiveOther, Receive, Return, Goto, Idle, Verdicts,
       bpf_redirect_map, env, data, loc_ts
  <2>2. pre' = pre
    BY <1>0, <2>1 DEF LogNext
  <2>3. PICK p, next : p = pre.log /\ next = LoggedIn(pre'.log.flows, key'[c])
    OBVIOUS
  <2>4. Handling(c, p, next)'
    BY <2>1, <2>3, HandleIdle DEF SeqInv
  <2>5. Handling(c, pre.log, LoggedIn(pre.log.flows, key[c]))'
    BY <2>2, <2>3, <2>4
  <2> QED BY <2>1, <2>2, <2>5, Types, SMT DEF SeqInv, IsPre
<1> QED BY <1>1, <1>2

\* The steps of an invocation, up to its end.
LEMMA SeqHandle ==
  ASSUME TypeOK, MapConsistent, NEW c \in CPUs, CPUs = {c}, SeqInv(c), LogNext,
         CpuStep(c), ~ Idle(c)'
  PROVE  SeqInv(c)' /\ pre' = pre
<1>0. AllIdle' <=> Idle(c)'
  BY DEF AllIdle, Idle
<1>1. pre' = pre
  BY <1>0 DEF LogNext
<1>2. PICK p, new : p = pre.log /\ new = LoggedIn(p.flows, key[c])
  OBVIOUS
<1>3. ~ Idle(c)
  BY Types DEF CpuStep, PacketStep, CloseStep, Filter, CountTotal, LoadTotal, CompareBits, GrowBits, LookupFlow,
     CountFlow, InsertFlow, ReadStamp, Lock, Claim, SetStamp, Unlock, calc_entropy, StoreEntropy, Average,
     detection, TestFlow, DeleteFlow, LoadFlow, StoreFlow, ZeroFlow, EndDetection, CopyTotal, StoreTotal,
     ZeroTotal, ResetBits, Idle, Verdicts
<1>4. Handling(c, p, new)' /\ UNCHANGED <<now, key, ts>>
  BY <1>2, <1>3, HandleStep DEF SeqInv
<1> QED BY <1>1, <1>2, <1>3, <1>4 DEF SeqInv

\* The end of an invocation is a step of the log, unless the packet was dropped.
LEMMA SeqReturn ==
  ASSUME TypeOK, MapConsistent, NEW c \in CPUs, CPUs = {c}, SeqInv(c), LogNext,
         CpuStep(c), Idle(c)', pc'[c] # "XDP_DROP"
  PROVE  SeqInv(c)' /\ Abstract!Next
<1>0. (AllIdle <=> Idle(c)) /\ (AllIdle' <=> Idle(c)') /\ Interval \in Nat /\ MaxNow \in Nat
  BY ConstantsAssumption DEF AllIdle, Idle
<1>1. PICK p, new : p = pre.log /\ new = LoggedIn(p.flows, key[c])
  OBVIOUS
<1>2. /\ ~ Idle(c) /\ UNCHANGED <<now, maps, prev_interval_pkt, cur_interval_pkt, timestamp>>
      /\ \/ /\ Same(new) /\ Totals(p.total.prev, p.total.cur + 1)
            /\ timestamp = p.start /\ ts[c] <= p.start + Interval
         \/ /\ Same(new) /\ Totals(p.total.prev, p.total.cur + 1)
            /\ timestamp = ts[c] /\ p.start = 0 /\ ts[c] > p.start + Interval
         \/ /\ Flows \subseteq DOMAIN new /\ \A ip \in DOMAIN new : Closed(new, ip)
            /\ Totals(p.total.cur + 1, 0)
            /\ timestamp = ts[c] /\ p.start # 0 /\ ts[c] > p.start + Interval
  BY <1>1, HandleReturn, SMT DEF SeqInv
<1>3. /\ key[c] \in IPs /\ ts[c] \in 0 .. MaxNow /\ pre.at <= ts[c] /\ ts[c] <= now
      /\ IsPre(p) /\ p.start \in Nat /\ p.total \in Counts
  BY <1>0, <1>1, <1>2, Types, SMT DEF SeqInv, IsPre
<1>4. IsLog(new)
  BY <1>1, <1>3, LoggedIsLog DEF IsPre
<1>5. Arrival = ts[c]
  <2>1. SumFunctionOnSet(ts, CPUs) = ts[c] + SumFunctionOnSet(ts, CPUs \ {c})
    BY ConstantsAssumption, Types, SumRemove
  <2>2. CPUs \ {c} = {}
    OBVIOUS
  <2>3. SumFunctionOnSet(ts, CPUs \ {c}) = 0
    BY <2>2, SumEmpty
  <2>4. ts[c] \in Nat
    BY Types
  <2> QED BY <2>1, <2>3, <2>4, SMT DEF Arrival
<1>6. Log' = Log
  BY <1>2 DEF Log, Flows, maps
<1>7. pre' = [log |-> Log, at |-> ts[c]]
  BY <1>0, <1>2, <1>5, <1>6 DEF LogNext
<1>8. /\ pre'.log.flows = Log.flows /\ pre'.at = ts[c]
      /\ pre'.log.total = [prev |-> prev_interval_pkt, cur |-> cur_interval_pkt]
      /\ pre'.log.start = timestamp
  BY <1>7 DEF Log
<1>9. new = Abstract!Logged(key[c])
  BY <1>1, Zenon DEF Abstract!Logged, LoggedIn, Abstract!Cardinality, Cardinality
<1>10. Abstract!Counted = [prev |-> p.total.prev, cur |-> p.total.cur + 1]
  BY <1>1, <1>3, SMT DEF Abstract!Counted, Counts
<1>11. Abstract!Count(key[c], ts[c]) \/ Abstract!Start(key[c], ts[c]) \/ Abstract!Close(key[c], ts[c])
  <2>1. CASE /\ Same(new) /\ Totals(p.total.prev, p.total.cur + 1)
             /\ timestamp = p.start /\ ts[c] <= p.start + Interval
    BY <1>1, <1>4, <1>8, <1>9, <1>10, <2>1, SameLog DEF Abstract!Count, Totals
  <2>2. CASE /\ Same(new) /\ Totals(p.total.prev, p.total.cur + 1)
             /\ timestamp = ts[c] /\ p.start = 0 /\ ts[c] > p.start + Interval
    BY <1>0, <1>1, <1>4, <1>8, <1>9, <1>10, <2>2, SameLog, SMT DEF Abstract!Start, Totals
  <2>3. CASE /\ Flows \subseteq DOMAIN new /\ \A ip \in DOMAIN new : Closed(new, ip)
             /\ Totals(p.total.cur + 1, 0)
             /\ timestamp = ts[c] /\ p.start # 0 /\ ts[c] > p.start + Interval
    <3>1. PICK gone \in SUBSET {ip \in DOMAIN new : new[ip].cur = 0 /\ new[ip].prev # 0} :
             Log.flows = [x \in DOMAIN new \ gone |-> [prev |-> new[x].cur, cur |-> 0]]
      BY <1>4, <2>3, ClosedLog
    <3>2. gone \in SUBSET Abstract!Silent(new)
      BY <3>1 DEF Abstract!Silent
    <3>3. pre'.log.flows = [x \in DOMAIN new \ gone |-> Abstract!Shift(new[x])]
      BY <1>8, <3>1 DEF Abstract!Shift
    <3>4. pre'.log.total = Abstract!Shift(Abstract!Counted)
      BY <1>8, <1>10, <2>3 DEF Abstract!Shift, Totals
    <3> QED BY <1>1, <1>8, <1>9, <2>3, <3>2, <3>3, <3>4, SMT DEF Abstract!Close
  <2> QED BY <1>2, <2>1, <2>2, <2>3
<1>12. Abstract!Next
  BY <1>3, <1>8, <1>11, Types DEF Abstract!Next
<1>13. Same(pre.log.flows)' /\ Totals(pre.log.total.prev, pre.log.total.cur)' /\ timestamp' = pre'.log.start
  <2>1. Same(Log.flows)
    BY DEF Same, Has, Log
  <2>2. PICK log : log = Log.flows
    OBVIOUS
  <2>3. Same(log)'
    BY <1>2, <2>1, <2>2, SameKept
  <2> QED BY <1>2, <1>8, <2>2, <2>3, SMT DEF Totals
<1>14. Handling(c, pre.log, LoggedIn(pre.log.flows, key[c]))'
  BY <1>13 DEF Handling, Idle, Verdicts, Closes, Closing, OnElem, OnFlow
<1>15. IsPre(pre'.log)
  <2>1. pre'.log.total \in Counts /\ pre'.log.start \in Nat
    BY <1>8, Types, SMT DEF Counts
  <2>2. Flows \subseteq IPs /\ \A ip \in Flows : elem[logger[ip]] \in Element
    BY Types DEF Flows
  <2>3. \A ip \in Flows : [prev |-> elem[logger[ip]].prev, cur |-> elem[logger[ip]].cur] \in Counts
    BY <2>2 DEF Element, Counts
  <2>4. IsLog(Log.flows)
    BY <2>2, <2>3 DEF Log, IsLog
  <2> QED BY <1>8, <2>1, <2>4 DEF IsPre
<1> QED BY <1>2, <1>3, <1>8, <1>12, <1>14, <1>15, Types DEF SeqInv, IsPre

\* Every step of the one CPU is a step of the log or leaves it alone.
LEMMA SeqStep ==
  ASSUME TypeOK, MapConsistent, NEW c \in CPUs, CPUs = {c}, SeqInv(c), [LogNext]_<<vars, pre>>
  PROVE  SeqInv(c)' /\ [Abstract!Next]_(Abstract!vars)
<1>1. ASSUME pre' = pre PROVE UNCHANGED Abstract!vars
  BY <1>1 DEF Abstract!vars
<1>2. CASE UNCHANGED <<vars, pre>>
  <2>1. UNCHANGED <<now, data, loc_ts, maps, pc, locals>> /\ UNCHANGED <<key, ts>>
    BY <1>2 DEF vars, env, locals
  <2>2. PICK p, new : p = pre.log /\ new = LoggedIn(p.flows, key[c])
    OBVIOUS
  <2>3. Handling(c, p, new)'
    BY <2>1, <2>2, HandlingKept DEF SeqInv
  <2>4. Handling(c, pre.log, LoggedIn(pre.log.flows, key[c]))'
    BY <1>2, <2>1, <2>2, <2>3
  <2> QED BY <1>1, <1>2, <2>1, <2>4 DEF SeqInv, IsPre, Idle
<1>3. CASE LogNext /\ CpuStep(c)
  <2>1. CASE ~ Idle(c)'
    BY <1>1, <1>3, <2>1, SeqHandle
  <2>2. CASE Idle(c)' /\ pc'[c] # "XDP_DROP"
    BY <1>3, <2>2, SeqReturn
  <2>3. CASE pc'[c] = "XDP_DROP"
    <3>1. /\ pc[c] = "filter" /\ Idle(c)'
          /\ UNCHANGED <<now, maps, prev_interval_pkt, cur_interval_pkt, timestamp>>
      BY <1>3, <2>3, Types DEF CpuStep, PacketStep, CloseStep, Filter, CountTotal, LoadTotal, CompareBits,
         GrowBits, LookupFlow, CountFlow, InsertFlow, ReadStamp, Lock, Claim, SetStamp, Unlock, calc_entropy,
         StoreEntropy, Average, detection, TestFlow, DeleteFlow, LoadFlow, StoreFlow, ZeroFlow, EndDetection,
         CopyTotal, StoreTotal, ZeroTotal, ResetBits, Return, Goto, Idle, Verdicts, bpf_redirect_map, env,
         data, loc_ts
    <3>2. pre' = pre
      BY <1>3, <2>3 DEF LogNext
    <3>3. PICK p, next : p = pre.log /\ next = LoggedIn(pre'.log.flows, key'[c])
      OBVIOUS
    <3>4. Handling(c, p, next)'
      BY <3>1, <3>3, HandleIdle DEF SeqInv
    <3>5. Handling(c, pre.log, LoggedIn(pre.log.flows, key[c]))'
      BY <3>2, <3>3, <3>4
    <3> QED BY <1>1, <3>1, <3>2, <3>5 DEF SeqInv, IsPre
  <2> QED BY <2>1, <2>2, <2>3
<1>4. CASE LogNext /\ ~ CpuStep(c)
  BY <1>1, <1>4, SeqQuiet DEF LogNext, Next
<1> QED BY <1>2, <1>3, <1>4

\* Initially both logs are empty.
LEMMA SeqInit ==
  ASSUME NEW c \in CPUs, LogInit
  PROVE  SeqInv(c) /\ Abstract!Init
<1>1. Init /\ Flows = {} /\ Idle(c) /\ timestamp = 0 /\ Totals(0, 0) /\ now = 0 /\ MaxNow \in Nat
  BY ConstantsAssumption DEF LogInit, Init, Flows, Idle, Verdicts, Totals
<1>2. /\ pre.log.flows = [ip \in {} |-> [prev |-> elem[logger[ip]].prev, cur |-> elem[logger[ip]].cur]]
      /\ pre.log.total = [prev |-> 0, cur |-> 0] /\ pre.log.start = 0 /\ pre.at = 0
  BY <1>1 DEF LogInit, Log, Totals
<1>3. DOMAIN pre.log.flows = {} /\ pre.log.flows \in [{} -> Counts]
  BY <1>2
<1>4. IsPre(pre.log)
  BY <1>2, <1>3, SMT DEF IsPre, IsLog, Counts
<1>5. Handling(c, pre.log, LoggedIn(pre.log.flows, key[c]))
  <2>1. PICK p, new : p = pre.log /\ new = LoggedIn(pre.log.flows, key[c])
    OBVIOUS
  <2>2. Same(p.flows) /\ Totals(p.total.prev, p.total.cur) /\ timestamp = p.start
    <3>1. p.total.prev = 0 /\ p.total.cur = 0 /\ p.start = 0
      BY <1>2, <2>1, SMT
    <3>2. Same(p.flows)
      BY <1>1, <1>3, <2>1 DEF Same
    <3> QED BY <1>1, <3>1, <3>2
  <2>3. Handling(c, p, new)
    BY <1>1, <2>2 DEF Handling, Idle, Verdicts, Closes, Closing, OnElem, OnFlow
  <2> QED BY <2>1, <2>3
<1>6. Abstract!Init
  BY <1>2, SMT DEF Abstract!Init
<1> QED BY <1>1, <1>2, <1>4, <1>5, <1>6, SMT DEF SeqInv

\* The invariant of the one CPU holds throughout.
LEMMA SeqInvariant ==
  ASSUME NEW c \in CPUs, CPUs = {c}
  PROVE  LogSpec => [](TypeOK /\ MapConsistent /\ SeqInv(c))
<1>1. LogInit => Init /\ SeqInv(c)
  BY SeqInit DEF LogInit
<1>2. [LogNext]_<<vars, pre>> => [Next]_vars
  BY DEF LogNext
<1>3. TypeOK /\ MapConsistent /\ SeqInv(c) /\ [LogNext]_<<vars, pre>> => SeqInv(c)'
  BY SeqStep
<1> QED BY <1>1, <1>2, <1>3, MapInvariant, PTL DEF LogSpec, Spec

\* On a machine with one CPU the program implements the log: whatever the
\* packets, the rules and the clock, each counted packet changes the counts
\* of its source, the totals and the stamp in the way of one step of FlowLog,
\* though the program takes dozens of accesses for it and the walks visit the
\* logger in any order.
THEOREM Refinement ==
  ASSUME NEW c \in CPUs, CPUs = {c}
  PROVE  LogSpec => ImplementsFlowLog
<1>1. LogInit => Abstract!Init
  BY SeqInit
<1>2. TypeOK /\ MapConsistent /\ SeqInv(c) /\ [LogNext]_<<vars, pre>> => [Abstract!Next]_(Abstract!vars)
  BY SeqStep
<1> QED BY <1>1, <1>2, SeqInvariant, PTL DEF LogSpec, ImplementsFlowLog, Abstract!Spec

\* FlowLog and the theorem about it, for the log of the one CPU.
Proved ==
  INSTANCE FlowLogProofs WITH
    flows <- pre.log.flows,
    total <- pre.log.total,
    start <- pre.log.start,
    at    <- pre.at,
    Times <- 0 .. MaxNow

\* The two instances of FlowLog are the same specification.
LEMMA SameSpec == ImplementsFlowLog => Proved!Spec
<1>1. Abstract!Init => Proved!Init
  BY DEF Abstract!Init, Proved!Init
<1>2. [Abstract!Next]_(Abstract!vars) => [Proved!Next]_(Proved!vars)
  <2>1. ASSUME NEW ip \in IPs, NEW t PROVE
          /\ Abstract!Count(ip, t) => Proved!Count(ip, t)
          /\ Abstract!Start(ip, t) => Proved!Start(ip, t)
          /\ Abstract!Close(ip, t) => Proved!Close(ip, t)
    BY Zenon DEF Abstract!Count, Proved!Count, Abstract!Start, Proved!Start, Abstract!Close, Proved!Close,
       Abstract!Counted, Proved!Counted, Abstract!Shift, Proved!Shift, Abstract!Silent, Proved!Silent,
       Abstract!Logged, Proved!Logged, Abstract!Cardinality, Proved!Cardinality
  <2>2. Abstract!Next => Proved!Next
    BY <2>1, Zenon DEF Abstract!Next, Proved!Next
  <2> QED BY <2>2 DEF Abstract!vars, Proved!vars
<1> QED BY <1>1, <1>2, PTL DEF ImplementsFlowLog, Abstract!Spec, Proved!Spec

\* With one CPU the flows never account for more packets than the interval
\* totals, so the relative frequencies that calc_entropy takes the logarithm of
\* are at most 1.  It is the theorem about FlowLog, carried over by the
\* refinement: between packets the maps hold what the log says.
THEOREM FrequenciesBounded ==
  ASSUME NEW c \in CPUs, CPUs = {c}
  PROVE  LogSpec => []FlowsWithinTotal
<1>1. IsFiniteSet(IPs)
  BY ConstantsAssumption
<1>2. Proved!IsFiniteSet(IPs)
  BY <1>1, Zenon DEF IsFiniteSet, Proved!IsFiniteSet
<1>3. Proved!Spec => []Proved!Within
  BY <1>2, Proved!LogWithinTotals
<1>4. TypeOK /\ SeqInv(c) /\ Proved!Within => FlowsWithinTotal
  <2> SUFFICES ASSUME TypeOK, SeqInv(c), Proved!Within, AllIdle
               PROVE  PrevSum <= prev_interval_pkt /\ CurSum <= cur_interval_pkt
    BY DEF FlowsWithinTotal
  <2> DEFINE log == pre.log.flows
             p == [ip \in Flows |-> elem[logger[ip]].prev]
             q == [ip \in Flows |-> elem[logger[ip]].cur]
             pp == [ip \in DOMAIN log |-> log[ip].prev]
             qq == [ip \in DOMAIN log |-> log[ip].cur]
  <2>1. Same(log) /\ Totals(pre.log.total.prev, pre.log.total.cur)
    BY DEF AllIdle, SeqInv, Handling
  <2>2. Flows = DOMAIN log /\ IsFiniteSet(Flows) /\ \A ip \in Flows : p[ip] = pp[ip] /\ q[ip] = qq[ip]
    BY <1>1, <2>1, FS_Subset DEF Same, Has, Flows
  <2>3. Proved!PrevOf(log) <= pre.log.total.prev /\ Proved!CurOf(log) <= pre.log.total.cur
    BY DEF Proved!Within
  <2>4. Proved!PrevOf(log) = SumFunctionOnSet(pp, DOMAIN log) /\ Proved!CurOf(log) = SumFunctionOnSet(qq, DOMAIN log)
    BY Zenon DEF Proved!PrevOf, Proved!CurOf, SumFunctionOnSet, FoldFunctionOnSet, MapThenFoldSet,
       Proved!SumFunctionOnSet, Proved!FoldFunctionOnSet, Proved!MapThenFoldSet
  <2> HIDE DEF p, q, pp, qq
  <2>5. SumFunctionOnSet(p, Flows) = SumFunctionOnSet(pp, Flows) /\ SumFunctionOnSet(q, Flows) = SumFunctionOnSet(qq, Flows)
    BY <2>2, SumSame
  <2> QED BY <2>1, <2>2, <2>3, <2>4, <2>5 DEF PrevSum, CurSum, p, q, Totals
<1> QED BY <1>3, <1>4, Refinement, SameSpec, SeqInvariant, PTL
=============================================================================
