--------------------------- MODULE InKernelProofs ---------------------------
(***************************************************************************)
(* Theorems about InKernel and its packet counts, for any number of CPUs,  *)
(* sources and elements and any interval.                                  *)
(***************************************************************************)
EXTENDS Accounting, BasicTheorems

\* The prover of every leaf that does not name another one.
USE Zenon

\* A key is linked to an element hashed under it.  The types of later states
\* depend on it, as a walk takes its pointers from the logger.
KeysMatch == \A ip \in Flows : elem[logger[ip]].key = ip

\* What the counts of the flows rest on: no two keys share an element, and
\* the kernel keeps the map within max_entries.
MapConsistent ==
  /\ \A ip \in Flows : elem[logger[ip]].key = ip
  /\ Cardinality(Flows) <= MaxEntries

\* The zeroed maps have the right types, and the empty logger links no key.
LEMMA TypingInit == Init => TypeOK /\ KeysMatch
BY ConstantsAssumption, SMT DEF Init, TypeOK, LocalsOK, KeysMatch, Flows, Element, Verdicts, Labels,
   OnElem, Closing, Counting, Critical

\* Leaving xdp_filter_func with any verdict keeps the locals well typed.
LEMMA ReturnTyping ==
  ASSUME NEW c \in CPUs, NEW verdict \in Verdicts,
         LocalsOK, Return(c, verdict), UNCHANGED elem
  PROVE  LocalsOK'
BY DEF LocalsOK, Return, Goto, Verdicts, Labels, Counting, Critical, Closing, OnElem

\* Every step keeps the types and the keys of the linked elements: an
\* insertion overwrites an element only while no key is linked to it.
LEMMA TypingStep == TypeOK /\ KeysMatch /\ [Next]_vars => TypeOK' /\ KeysMatch'
<1> SUFFICES ASSUME TypeOK, KeysMatch, [Next]_vars
             PROVE  TypeOK' /\ KeysMatch'
    OBVIOUS
<1>0. NoElem \notin Elems /\ NoIP \notin IPs /\ Blockable \subseteq IPs /\ MinBits \in Nat /\ TxPort \in BOOLEAN
  BY ConstantsAssumption
<1> USE <1>0 DEF Goto, Return, env, data, loc_ts, maps, locals, Element, Verdicts, Labels, OnElem,
   Closing, Counting, Critical, Flows, KeysMatch, TypeOK, LocalsOK, bpf_redirect_map
<1>1. CASE Tick
  BY <1>1, SMT DEF Tick
<1>2. ASSUME NEW ip \in IPs, AddRule(ip) PROVE TypeOK' /\ KeysMatch'
  BY <1>2 DEF AddRule
<1>3. ASSUME NEW c \in CPUs, ReceiveMalformed(c) PROVE TypeOK' /\ KeysMatch'
  BY <1>3 DEF ReceiveMalformed
<1>4. ASSUME NEW c \in CPUs, ReceiveOther(c) PROVE TypeOK' /\ KeysMatch'
  BY <1>4 DEF ReceiveOther
<1>5. ASSUME NEW c \in CPUs, NEW ip \in IPs, Receive(c, ip) PROVE TypeOK' /\ KeysMatch'
  BY <1>5, SMT DEF Receive
<1>6. ASSUME NEW c \in CPUs, Filter(c) PROVE TypeOK' /\ KeysMatch'
  <2>1. CASE key[c] \in blacklist
    <3>1. LocalsOK'
      BY <1>6, <2>1, ReturnTyping DEF Filter
    <3> QED
      BY <1>6, <3>1 DEF Filter
  <2>2. CASE key[c] \notin blacklist
    BY <1>6, <2>2, SMT DEF Filter
  <2> QED
    BY <2>1, <2>2
<1>7. ASSUME NEW c \in CPUs, CountTotal(c) PROVE TypeOK' /\ KeysMatch'
  BY <1>7, SMT DEF CountTotal
<1>8. ASSUME NEW c \in CPUs, LoadTotal(c) PROVE TypeOK' /\ KeysMatch'
  BY <1>8 DEF LoadTotal
<1>9. ASSUME NEW c \in CPUs, CompareBits(c) PROVE TypeOK' /\ KeysMatch'
  <2>1. PICK label \in {"grow", "flow"} : pc' = [pc EXCEPT ![c] = label]
    BY <1>9 DEF CompareBits
  <2> QED
    BY <1>9, <2>1 DEF CompareBits
<1>10. ASSUME NEW c \in CPUs, GrowBits(c) PROVE TypeOK' /\ KeysMatch'
  <2>1. int_bits' \in Nat
    BY <1>10, SMT DEF GrowBits
  <2> QED
    BY <1>10, <2>1 DEF GrowBits
<1>11. ASSUME NEW c \in CPUs, LookupFlow(c) PROVE TypeOK' /\ KeysMatch'
  BY <1>11, SMT DEF LookupFlow
<1>12. ASSUME NEW c \in CPUs, CountFlow(c) PROVE TypeOK' /\ KeysMatch'
  <2>1. value[c] \in Elems
    BY <1>12 DEF CountFlow
  <2>2. elem' \in [Elems -> Element] /\ \A x \in Elems : elem'[x].key = elem[x].key
    BY <1>12, <2>1, SMT DEF CountFlow
  <2>3. KeysMatch'
    BY <1>12, <2>2, SMT DEF CountFlow
  <2>4. LocalsOK'
    BY <1>12, <2>2, SMT DEF CountFlow
  <2> QED
    BY <1>12, <2>2, <2>3, <2>4 DEF CountFlow
<1>13. ASSUME NEW c \in CPUs, InsertFlow(c) PROVE TypeOK' /\ KeysMatch'
  <2>1. CASE UNCHANGED maps
    BY <1>13, <2>1 DEF InsertFlow
  <2>2. ASSUME NEW e \in Elems, ~ Linked(e),
               logger' = [logger EXCEPT ![key[c]] = e],
               elem' = [elem EXCEPT ![e] =
                 [key |-> key[c], prev |-> 0, cur |-> 1, entropy |-> 0]]
        PROVE  TypeOK' /\ KeysMatch'
    <3>1. key[c] \in IPs
      BY <1>13 DEF InsertFlow
    <3>2. KeysMatch'
      BY <2>2, <3>1 DEF Linked
    <3>3. elem' \in [Elems -> Element]
      BY <2>2, <3>1
    <3>4. \A x \in Elems : elem[x].key \in IPs => elem'[x].key \in IPs
      BY <2>2, <3>1
    <3> QED
      BY <1>13, <2>2, <3>1, <3>2, <3>3, <3>4, SMT DEF InsertFlow
  <2> QED
    BY <1>13, <2>1, <2>2 DEF InsertFlow
<1>14. ASSUME NEW c \in CPUs, ReadStamp(c) PROVE TypeOK' /\ KeysMatch'
  <2>1. CASE Goto(c, "lock") /\ UNCHANGED locals
    BY <1>14, <2>1 DEF ReadStamp
  <2>2. CASE Return(c, bpf_redirect_map)
    <3>1. LocalsOK'
      BY <1>14, <2>2, ReturnTyping DEF ReadStamp
    <3> QED
      BY <1>14, <2>2, <3>1 DEF ReadStamp
  <2> QED
    BY <1>14, <2>1, <2>2 DEF ReadStamp
<1>15. ASSUME NEW c \in CPUs, Lock(c) PROVE TypeOK' /\ KeysMatch'
  BY <1>15 DEF Lock
<1>16. ASSUME NEW c \in CPUs, Claim(c) PROVE TypeOK' /\ KeysMatch'
  BY <1>16, SMT DEF Claim
<1>17. ASSUME NEW c \in CPUs, SetStamp(c) PROVE TypeOK' /\ KeysMatch'
  BY <1>17, SMT DEF SetStamp
<1>18. ASSUME NEW c \in CPUs, Unlock(c) PROVE TypeOK' /\ KeysMatch'
  <2>1. CASE pc[c] = "unlockEnd"
    <3>1. Return(c, bpf_redirect_map)
      BY <1>18, <2>1 DEF Unlock
    <3>2. LocalsOK'
      BY <1>18, <3>1, ReturnTyping DEF Unlock
    <3> QED
      BY <1>18, <3>1, <3>2 DEF Unlock
  <2>2. CASE pc[c] = "unlockClose"
    BY <1>18, <2>2, SMT DEF Unlock
  <2> QED
    BY <1>18, <2>1, <2>2 DEF Unlock
<1>19. ASSUME NEW c \in CPUs, NEW ip \in IPs, calc_entropy(c, ip) PROVE TypeOK' /\ KeysMatch'
  BY <1>19, SMT DEF calc_entropy, Visit, Entropies
<1>20. ASSUME NEW c \in CPUs, StoreEntropy(c) PROVE TypeOK' /\ KeysMatch'
  BY <1>20, SMT DEF StoreEntropy
<1>21. ASSUME NEW c \in CPUs, Average(c) PROVE TypeOK' /\ KeysMatch'
  BY <1>21 DEF Average
<1>22. ASSUME NEW c \in CPUs, NEW ip \in IPs, detection(c, ip) PROVE TypeOK' /\ KeysMatch'
  BY <1>22, SMT DEF detection, Visit, Entropies
<1>23. ASSUME NEW c \in CPUs, TestFlow(c) PROVE TypeOK' /\ KeysMatch'
  BY <1>23, SMT DEF TestFlow
<1>24. ASSUME NEW c \in CPUs, DeleteFlow(c) PROVE TypeOK' /\ KeysMatch'
  BY <1>24 DEF DeleteFlow
<1>25. ASSUME NEW c \in CPUs, LoadFlow(c) PROVE TypeOK' /\ KeysMatch'
  BY <1>25 DEF LoadFlow
<1>26. ASSUME NEW c \in CPUs, StoreFlow(c) PROVE TypeOK' /\ KeysMatch'
  BY <1>26, SMT DEF StoreFlow
<1>27. ASSUME NEW c \in CPUs, ZeroFlow(c) PROVE TypeOK' /\ KeysMatch'
  BY <1>27, SMT DEF ZeroFlow
<1>28. ASSUME NEW c \in CPUs, EndDetection(c) PROVE TypeOK' /\ KeysMatch'
  BY <1>28 DEF EndDetection
<1>29. ASSUME NEW c \in CPUs, CopyTotal(c) PROVE TypeOK' /\ KeysMatch'
  BY <1>29 DEF CopyTotal
<1>30. ASSUME NEW c \in CPUs, StoreTotal(c) PROVE TypeOK' /\ KeysMatch'
  BY <1>30 DEF StoreTotal
<1>31. ASSUME NEW c \in CPUs, ZeroTotal(c) PROVE TypeOK' /\ KeysMatch'
  BY <1>31 DEF ZeroTotal
<1>32. ASSUME NEW c \in CPUs, ResetBits(c) PROVE TypeOK' /\ KeysMatch'
  BY <1>32 DEF ResetBits
<1>33. CASE UNCHANGED vars
  BY <1>33 DEF vars
<1>q. QED
  BY <1>1, <1>2, <1>3, <1>4, <1>5, <1>6, <1>7, <1>8, <1>9, <1>10, <1>11, <1>12, <1>13, <1>14, <1>15,
     <1>16, <1>17, <1>18, <1>19, <1>20, <1>21, <1>22, <1>23, <1>24, <1>25, <1>26, <1>27, <1>28, <1>29,
     <1>30, <1>31, <1>32, <1>33 DEF Next, CpuStep, PacketStep, CloseStep

----------------------------------------------------------------------------
\* The inductive invariant behind the stamp protocol.  While a CPU is about to
\* store the stamp, nobody else can change it: that is what the lock is for.
\* A CPU that closes an interval stamped it itself, so the stamp is at least
\* its own time, and the next one to claim the stamp is more than Interval
\* later than that.
StampInv ==
  /\ LockHeld
  /\ \A c \in CPUs :
       /\ pc[c] = "setFirst" => timestamp = 0
       /\ pc[c] = "setClose" => ts[c] > timestamp + Interval
       /\ Closes(c) => ts[c] <= timestamp
  /\ SeparatedCloses

\* A step of c that neither uses the lock nor begins to close.
Quiet(c) ==
  /\ UNCHANGED loc_ts
  /\ \A d \in CPUs \ {c} : pc'[d] = pc[d] /\ ts'[d] = ts[d]
  /\ pc[c] \notin Critical
  /\ pc'[c] \notin Critical
  /\ pc'[c] \in Closing => pc[c] \in Closing /\ ts'[c] = ts[c]

\* Steps outside the locked region that do not begin a close keep StampInv.
LEMMA QuietStep ==
  ASSUME NEW c \in CPUs, TypeOK, StampInv, Quiet(c)
  PROVE  StampInv'
<1> USE DEF Quiet, StampInv, Closes, Critical, loc_ts
<1>1. \A d \in CPUs : /\ pc'[d] \in Critical <=> pc[d] \in Critical
                      /\ pc'[d] \in Critical => pc'[d] = pc[d] /\ ts'[d] = ts[d]
                      /\ Closes(d)' => Closes(d) /\ ts'[d] = ts[d]
  OBVIOUS
<1>2. LockHeld'
  BY <1>1 DEF LockHeld
<1>3. SeparatedCloses'
  BY <1>1 DEF SeparatedCloses
<1> QED
  BY <1>1, <1>2, <1>3

\* Every step keeps StampInv; the four steps on the stamp are the real cases.
LEMMA StampStep ==
  ASSUME TypeOK, StampInv, [Next]_vars
  PROVE  StampInv'
<1> USE ConstantsAssumption DEF TypeOK, LocalsOK
<1>1. CASE Tick
  BY <1>1 DEF Tick, StampInv, LockHeld, SeparatedCloses, Closes, loc_ts, locals
<1>2. ASSUME NEW ip \in IPs, AddRule(ip) PROVE StampInv'
  BY <1>2 DEF AddRule, StampInv, LockHeld, SeparatedCloses, Closes, loc_ts, locals
<1>3. ASSUME NEW c \in CPUs,
             \/ ReceiveMalformed(c)
             \/ ReceiveOther(c)
             \/ \E ip \in IPs : Receive(c, ip)
      PROVE  StampInv'
  <2>1. Quiet(c)
    BY <1>3, SMT DEF ReceiveMalformed, ReceiveOther, Receive, Return, Goto, Quiet, Idle, Verdicts,
       bpf_redirect_map, Critical, Closing, OnElem
  <2> QED
    BY <2>1, QuietStep
<1>4. ASSUME NEW c \in CPUs, Filter(c) PROVE Quiet(c)
  BY <1>4, SMT DEF Filter, Return, Goto, Quiet, locals, bpf_redirect_map, Critical, Closing, OnElem
<1>5. ASSUME NEW c \in CPUs, CountTotal(c) PROVE Quiet(c)
  BY <1>5 DEF CountTotal, Return, Goto, Quiet, locals, bpf_redirect_map, Critical, Closing, OnElem
<1>6. ASSUME NEW c \in CPUs, LoadTotal(c) PROVE Quiet(c)
  BY <1>6 DEF LoadTotal, Return, Goto, Quiet, locals, bpf_redirect_map, Critical, Closing, OnElem
<1>7. ASSUME NEW c \in CPUs, CompareBits(c) PROVE Quiet(c)
  BY <1>7, SMT DEF CompareBits, Return, Goto, Quiet, locals, bpf_redirect_map, Critical, Closing, OnElem
<1>8. ASSUME NEW c \in CPUs, GrowBits(c) PROVE Quiet(c)
  BY <1>8 DEF GrowBits, Return, Goto, Quiet, locals, bpf_redirect_map, Critical, Closing, OnElem
<1>9. ASSUME NEW c \in CPUs, LookupFlow(c) PROVE Quiet(c)
  BY <1>9 DEF LookupFlow, Return, Goto, Quiet, locals, bpf_redirect_map, Critical, Closing, OnElem
<1>10. ASSUME NEW c \in CPUs, CountFlow(c) PROVE Quiet(c)
  BY <1>10 DEF CountFlow, Return, Goto, Quiet, locals, bpf_redirect_map, Critical, Closing, OnElem
<1>11. ASSUME NEW c \in CPUs, InsertFlow(c) PROVE Quiet(c)
  BY <1>11 DEF InsertFlow, Return, Goto, Quiet, locals, bpf_redirect_map, Critical, Closing, OnElem
<1>12. ASSUME NEW c \in CPUs, ReadStamp(c) PROVE Quiet(c)
  BY <1>12, SMT DEF ReadStamp, Return, Goto, Quiet, locals, bpf_redirect_map, Critical, Closing, OnElem
<1>13. ASSUME NEW c \in CPUs, NEW ip \in IPs, calc_entropy(c, ip) PROVE Quiet(c)
  BY <1>13 DEF calc_entropy, Visit, Return, Goto, Quiet, locals, bpf_redirect_map, Critical, Closing, OnElem
<1>14. ASSUME NEW c \in CPUs, StoreEntropy(c) PROVE Quiet(c)
  BY <1>14 DEF StoreEntropy, Return, Goto, Quiet, locals, bpf_redirect_map, Critical, Closing, OnElem
<1>15. ASSUME NEW c \in CPUs, Average(c) PROVE Quiet(c)
  BY <1>15 DEF Average, Return, Goto, Quiet, locals, bpf_redirect_map, Critical, Closing, OnElem
<1>16. ASSUME NEW c \in CPUs, NEW ip \in IPs, detection(c, ip) PROVE Quiet(c)
  BY <1>16 DEF detection, Visit, Return, Goto, Quiet, locals, bpf_redirect_map, Critical, Closing, OnElem
<1>17. ASSUME NEW c \in CPUs, TestFlow(c) PROVE Quiet(c)
  BY <1>17 DEF TestFlow, Return, Goto, Quiet, locals, bpf_redirect_map, Critical, Closing, OnElem
<1>18. ASSUME NEW c \in CPUs, DeleteFlow(c) PROVE Quiet(c)
  BY <1>18 DEF DeleteFlow, Return, Goto, Quiet, locals, bpf_redirect_map, Critical, Closing, OnElem
<1>19. ASSUME NEW c \in CPUs, LoadFlow(c) PROVE Quiet(c)
  BY <1>19 DEF LoadFlow, Return, Goto, Quiet, locals, bpf_redirect_map, Critical, Closing, OnElem
<1>20. ASSUME NEW c \in CPUs, StoreFlow(c) PROVE Quiet(c)
  BY <1>20 DEF StoreFlow, Return, Goto, Quiet, locals, bpf_redirect_map, Critical, Closing, OnElem
<1>21. ASSUME NEW c \in CPUs, ZeroFlow(c) PROVE Quiet(c)
  BY <1>21 DEF ZeroFlow, Return, Goto, Quiet, locals, bpf_redirect_map, Critical, Closing, OnElem
<1>22. ASSUME NEW c \in CPUs, EndDetection(c) PROVE Quiet(c)
  BY <1>22 DEF EndDetection, Return, Goto, Quiet, locals, bpf_redirect_map, Critical, Closing, OnElem
<1>23. ASSUME NEW c \in CPUs, CopyTotal(c) PROVE Quiet(c)
  BY <1>23 DEF CopyTotal, Return, Goto, Quiet, locals, bpf_redirect_map, Critical, Closing, OnElem
<1>24. ASSUME NEW c \in CPUs, StoreTotal(c) PROVE Quiet(c)
  BY <1>24 DEF StoreTotal, Return, Goto, Quiet, locals, bpf_redirect_map, Critical, Closing, OnElem
<1>25. ASSUME NEW c \in CPUs, ZeroTotal(c) PROVE Quiet(c)
  BY <1>25 DEF ZeroTotal, Return, Goto, Quiet, locals, bpf_redirect_map, Critical, Closing, OnElem
<1>26. ASSUME NEW c \in CPUs, ResetBits(c) PROVE Quiet(c)
  BY <1>26 DEF ResetBits, Return, Goto, Quiet, locals, bpf_redirect_map, Critical, Closing, OnElem
<1>27. ASSUME NEW c \in CPUs, Lock(c) PROVE StampInv'
  BY <1>27 DEF Lock, Goto, locals, StampInv, LockHeld, SeparatedCloses, Closes, Critical, Closing, OnElem
<1>28. ASSUME NEW c \in CPUs, Claim(c) PROVE StampInv'
  BY <1>28, SMT DEF Claim, Goto, loc_ts, locals, StampInv, LockHeld, SeparatedCloses, Closes, Critical,
     Closing, OnElem
<1>29. ASSUME NEW c \in CPUs, SetStamp(c) PROVE StampInv'
  BY <1>29, SMT DEF SetStamp, Goto, locals, StampInv, LockHeld, SeparatedCloses, Closes, Critical, Closing, OnElem
<1>30. ASSUME NEW c \in CPUs, Unlock(c) PROVE StampInv'
  BY <1>30, SMT DEF Unlock, Return, Goto, bpf_redirect_map, StampInv, LockHeld, SeparatedCloses, Closes,
     Critical, Closing, OnElem
<1>31. CASE UNCHANGED vars
  BY <1>31 DEF vars, StampInv, LockHeld, SeparatedCloses, Closes, loc_ts, locals
<1> QED
  BY <1>1, <1>2, <1>3, <1>4, <1>5, <1>6, <1>7, <1>8, <1>9, <1>10, <1>11, <1>12, <1>13, <1>14, <1>15,
     <1>16, <1>17, <1>18, <1>19, <1>20, <1>21, <1>22, <1>23, <1>24, <1>25, <1>26, <1>27, <1>28, <1>29,
     <1>30, <1>31, QuietStep DEF Next, CpuStep, PacketStep, CloseStep

----------------------------------------------------------------------------
\* Only InsertFlow adds a key, and only below max_entries.
LEMMA CapacityStep ==
  ASSUME TypeOK, Cardinality(Flows) <= MaxEntries, [Next]_vars
  PROVE  Cardinality(Flows') <= MaxEntries
<1> USE ConstantsAssumption DEF TypeOK, LocalsOK
<1>1. IsFiniteSet(Flows) /\ Cardinality(Flows) \in Nat
  BY FS_Subset, FS_CardinalityType DEF Flows
<1>2. CASE Flows' \subseteq Flows
  <2>1. Cardinality(Flows') <= Cardinality(Flows)
    BY <1>1, <1>2, FS_Subset
  <2>2. Cardinality(Flows') \in Nat
    BY <1>1, <1>2, FS_Subset, FS_CardinalityType
  <2> QED
    BY <1>1, <2>1, <2>2, SMT
<1>3. ASSUME NEW c \in CPUs, InsertFlow(c), ~ (Flows' \subseteq Flows)
      PROVE  Cardinality(Flows') <= MaxEntries
  <2>1. key[c] \in IPs
    BY <1>3 DEF InsertFlow, Counting
  <2>2. logger[key[c]] = NoElem /\ Flows' = Flows \cup {key[c]}
    BY <1>3, <2>1, SMT DEF InsertFlow, Flows, maps
  <2>3. Cardinality(Flows) < MaxEntries
    <3>1. logger' # logger
      BY <1>3 DEF Flows
    <3> QED
      BY <1>3, <2>2, <3>1 DEF InsertFlow, maps
  <2>4. Cardinality(Flows') = Cardinality(Flows) + 1
    BY <1>1, <2>2, FS_AddElement DEF Flows
  <2> QED
    BY <1>1, <2>3, <2>4, SMT
<1>4. ASSUME NEW c \in CPUs, DeleteFlow(c) PROVE Flows' \subseteq Flows
  BY <1>4 DEF DeleteFlow, Flows, OnElem
<1>5. ASSUME NEW c \in CPUs, PacketStep(c), ~ InsertFlow(c) PROVE UNCHANGED logger
  BY <1>5 DEF PacketStep, Filter, CountTotal, LoadTotal, CompareBits, GrowBits, LookupFlow,
     CountFlow, ReadStamp, Lock, Claim, SetStamp, Unlock, maps
<1>6. ASSUME NEW c \in CPUs, CloseStep(c), ~ DeleteFlow(c) PROVE UNCHANGED logger
  BY <1>6 DEF CloseStep, calc_entropy, StoreEntropy, Average, detection, TestFlow, LoadFlow,
     StoreFlow, ZeroFlow, EndDetection, CopyTotal, StoreTotal, ZeroTotal, ResetBits, maps
<1>7. CASE \/ Tick
           \/ \E ip \in IPs : AddRule(ip)
           \/ \E c \in CPUs : ReceiveMalformed(c) \/ ReceiveOther(c) \/ \E ip \in IPs : Receive(c, ip)
           \/ UNCHANGED vars
  <2>1. UNCHANGED logger
    BY <1>7 DEF Tick, AddRule, ReceiveMalformed, ReceiveOther, Receive, vars, maps
  <2> QED
    BY <1>2, <2>1 DEF Flows
<1>8. UNCHANGED logger => Flows' \subseteq Flows
  BY DEF Flows
<1> QED
  BY <1>2, <1>3, <1>4, <1>5, <1>6, <1>7, <1>8 DEF Next, CpuStep

----------------------------------------------------------------------------
(***************************************************************************)
(* The theorems.                                                           *)
(***************************************************************************)

\* The types are kept with the help of what the logger links, and what it
\* links with the help of the types.
LEMMA MapInvariant == Spec => [](TypeOK /\ MapConsistent)
<1> DEFINE Inv == TypeOK /\ KeysMatch /\ Cardinality(Flows) <= MaxEntries
<1>1. Init => Inv
  <2>1. ASSUME Init PROVE Flows = {}
    BY <2>1 DEF Init, Flows
  <2> QED
    BY <2>1, TypingInit, FS_EmptySet, ConstantsAssumption, SMT
<1>2. Inv /\ [Next]_vars => Inv'
  BY TypingStep, CapacityStep
<1>3. Inv => TypeOK /\ MapConsistent
  BY DEF MapConsistent, KeysMatch
<1> QED
  BY <1>1, <1>2, <1>3, PTL DEF Spec

\* Every variable keeps its type: in particular no pointer dereferenced by
\* the program is null, also when its element has been unlinked or reused.
THEOREM Typing == Spec => []TypeOK
BY MapInvariant, PTL

\* StampInv holds in every reachable state.
LEMMA StampInvariant == Spec => [](TypeOK /\ StampInv)
<1>1. Init => StampInv
  BY ConstantsAssumption, SMT DEF Init, StampInv, LockHeld, SeparatedCloses, Closes, Critical, Closing, OnElem
<1>2. TypeOK /\ StampInv /\ [Next]_vars => StampInv'
  BY StampStep
<1> QED
  BY <1>1, <1>2, Typing, PTL DEF Spec

\* Exactly the CPU between bpf_spin_lock and bpf_spin_unlock holds the lock
\* of loc_ts, for any number of CPUs.
THEOREM Exclusion == Spec => []LockHeld
<1>1. StampInv => LockHeld
  BY DEF StampInv
<1> QED
  BY <1>1, StampInvariant, PTL

\* No interval is closed twice: any two CPUs that are closing at the same
\* time do so for packets more than Interval apart.
THEOREM Separation == Spec => []SeparatedCloses
<1>1. StampInv => SeparatedCloses
  BY DEF StampInv
<1> QED
  BY <1>1, StampInvariant, PTL

\* After the first packet the stamp only moves forward, by more than
\* Interval at a time.
THEOREM Advance == Spec => StampAdvances
<1>1. ASSUME TypeOK, StampInv, [Next]_vars
      PROVE  [timestamp' # timestamp => timestamp = 0 \/ timestamp' > timestamp + Interval]_vars
  <2>1. ASSUME NEW c \in CPUs, SetStamp(c)
        PROVE  timestamp = 0 \/ timestamp' > timestamp + Interval
    BY <1>1, <2>1 DEF SetStamp, StampInv
  <2>2. ASSUME NEW c \in CPUs, PacketStep(c), ~ SetStamp(c) PROVE UNCHANGED timestamp
    BY <2>2 DEF PacketStep, Filter, CountTotal, LoadTotal, CompareBits, GrowBits, LookupFlow,
       CountFlow, InsertFlow, ReadStamp, Lock, Claim, Unlock, loc_ts
  <2>3. ASSUME NEW c \in CPUs, CloseStep(c) PROVE UNCHANGED timestamp
    BY <2>3 DEF CloseStep, calc_entropy, StoreEntropy, Average, detection, TestFlow, DeleteFlow,
       LoadFlow, StoreFlow, ZeroFlow, EndDetection, CopyTotal, StoreTotal, ZeroTotal, ResetBits, loc_ts
  <2>4. CASE \/ Tick
             \/ \E ip \in IPs : AddRule(ip)
             \/ \E c \in CPUs : ReceiveMalformed(c) \/ ReceiveOther(c) \/ \E ip \in IPs : Receive(c, ip)
             \/ UNCHANGED vars
    BY <2>4 DEF Tick, AddRule, ReceiveMalformed, ReceiveOther, Receive, vars, loc_ts
  <2> QED
    BY <1>1, <2>1, <2>2, <2>3, <2>4 DEF Next, CpuStep
<1> QED
  BY <1>1, StampInvariant, PTL DEF Spec, StampAdvances

----------------------------------------------------------------------------
(***************************************************************************)
(* The packet counts: what one step may touch.                             *)
(***************************************************************************)

\* A step of c touches no local variable of another CPU.
Frame(c) ==
  \A d \in CPUs \ {c} :
    pc'[d] = pc[d] /\ key'[d] = key[d] /\ value'[d] = value[d] /\ seen'[d] = seen[d] /\ todo'[d] = todo[d]

\* Every step of the program is a step of one CPU, in this sense.
LEMMA StepFrame ==
  ASSUME TypeOK, NEW c \in CPUs,
         \/ ReceiveMalformed(c)
         \/ ReceiveOther(c)
         \/ \E ip \in IPs : Receive(c, ip)
         \/ CpuStep(c)
  PROVE  Frame(c)
<1> USE DEF TypeOK, LocalsOK, Frame, Goto, Return, locals
<1>1. CASE ReceiveMalformed(c) \/ ReceiveOther(c) \/ \E ip \in IPs : Receive(c, ip)
  BY <1>1 DEF ReceiveMalformed, ReceiveOther, Receive
<1>2. CASE PacketStep(c)
  BY <1>2 DEF PacketStep, Filter, CountTotal, LoadTotal, CompareBits, GrowBits, LookupFlow,
     CountFlow, InsertFlow, ReadStamp, Lock, Claim, SetStamp, Unlock
<1>3. CASE CloseStep(c)
  BY <1>3, SMTT(20) DEF CloseStep, calc_entropy, Visit, StoreEntropy, Average, detection, TestFlow, DeleteFlow,
     LoadFlow, StoreFlow, ZeroFlow, EndDetection, CopyTotal, StoreTotal, ZeroTotal, ResetBits
<1> QED BY <1>1, <1>2, <1>3 DEF CpuStep

----------------------------------------------------------------------------
(***************************************************************************)
(* The interval totals.                                                    *)
(***************************************************************************)

\* The CPUs whose packet has arrived and is not counted in the total.
Uncounted == {c \in CPUs : pc[c] \in {"filter", "total"}}

\* The inductive invariant.  Every value in play, also one that a CPU has
\* loaded and not yet stored, stands for different packets that have been
\* counted.  The two totals stand for the same packets only while some CPU
\* is about to zero one of them.
TotalInv ==
  /\ cur_interval_pkt + Cardinality(Uncounted) <= arrived
  /\ prev_interval_pkt + Cardinality(Uncounted) <= arrived
  /\ \A c \in CPUs : pc[c] = "storeTotal" => seen[c] + Cardinality(Uncounted) <= arrived
  /\ (\A c \in CPUs : pc[c] # "zeroTotal") =>
        prev_interval_pkt + cur_interval_pkt + Cardinality(Uncounted) <= arrived

TotalLabels == {"filter", "total", "storeTotal", "zeroTotal"}

\* A step of c that has nothing to do with the totals.
TotalQuiet(c) ==
  /\ UNCHANGED <<arrived, prev_interval_pkt, cur_interval_pkt>>
  /\ pc[c] \notin TotalLabels
  /\ pc'[c] \notin TotalLabels

\* The steps on totals are among the six excluded here.
LEMMA TotalQuietSteps ==
  ASSUME TypeOK, NEW c \in CPUs,
         \/ ReceiveMalformed(c) \/ ReceiveOther(c)
         \/ CpuStep(c) /\ ~ Filter(c) /\ ~ CountTotal(c) /\ ~ CopyTotal(c) /\ ~ StoreTotal(c) /\ ~ ZeroTotal(c)
  PROVE  TotalQuiet(c)
<1> USE DEF TypeOK, LocalsOK, TotalQuiet, TotalLabels, Goto, Return, env, data, bpf_redirect_map
<1>1. CASE ReceiveMalformed(c) \/ ReceiveOther(c)
  BY <1>1 DEF ReceiveMalformed, ReceiveOther, Idle, Verdicts
<1>2. CASE PacketStep(c) /\ ~ Filter(c) /\ ~ CountTotal(c)
  BY <1>2 DEF PacketStep, LoadTotal, CompareBits, GrowBits, LookupFlow,
     CountFlow, InsertFlow, ReadStamp, Lock, Claim, SetStamp, Unlock
<1>3. CASE CloseStep(c) /\ ~ CopyTotal(c) /\ ~ StoreTotal(c) /\ ~ ZeroTotal(c)
  BY <1>3, SMTT(20) DEF CloseStep, calc_entropy, Visit, StoreEntropy, Average, detection, TestFlow, DeleteFlow,
     LoadFlow, StoreFlow, ZeroFlow, EndDetection, ResetBits
<1> QED BY <1>1, <1>2, <1>3 DEF CpuStep

\* Every step keeps TotalInv.
LEMMA TotalStep ==
  ASSUME TypeOK, TotalInv, [Next]_vars
  PROVE  TotalInv'
<1> USE DEF TypeOK, LocalsOK
<1>1. IsFiniteSet(Uncounted) /\ Cardinality(Uncounted) \in Nat
  BY ConstantsAssumption, FS_Subset, FS_CardinalityType DEF Uncounted
<1>2. CASE UNCHANGED <<arrived, data, pc, seen>>
  BY <1>2 DEF TotalInv, Uncounted, data
<1>3. ASSUME NEW c \in CPUs, Frame(c), TotalQuiet(c) PROVE TotalInv'
  <2>1. Uncounted' = Uncounted
    BY <1>3 DEF Uncounted, Frame, TotalQuiet, TotalLabels
  <2> QED
    BY <1>3, <2>1 DEF TotalInv, Frame, TotalQuiet, TotalLabels
<1>4. ASSUME NEW c \in CPUs, NEW ip \in IPs, Receive(c, ip), Frame(c) PROVE TotalInv'
  <2>1. Uncounted' = Uncounted \cup {c} /\ c \notin Uncounted
    BY <1>4, SMT DEF Uncounted, Receive, Goto, Frame, Idle, Verdicts
  <2>2. Cardinality(Uncounted') = Cardinality(Uncounted) + 1
    BY <1>1, <2>1, FS_AddElement
  <2> QED
    BY <1>1, <1>4, <2>2, SMT DEF TotalInv, Receive, Goto, Frame, Idle, Verdicts, data
<1>5. ASSUME NEW c \in CPUs, Filter(c), Frame(c) PROVE TotalInv'
  <2>1. Uncounted' \subseteq Uncounted
    BY <1>5 DEF Uncounted, Filter, Goto, Return, Frame
  <2>2. Cardinality(Uncounted') <= Cardinality(Uncounted) /\ Cardinality(Uncounted') \in Nat
    BY <1>1, <2>1, FS_Subset, FS_CardinalityType
  <2>3. pc[c] = "filter" /\ pc'[c] \notin {"storeTotal", "zeroTotal"} /\ UNCHANGED <<env, data>>
    BY <1>5 DEF Filter, Goto, Return
  <2> QED
    BY <1>1, <1>5, <2>2, <2>3, SMT DEF TotalInv, Frame, env, data
<1>6. ASSUME NEW c \in CPUs, CountTotal(c), Frame(c) PROVE TotalInv'
  <2>1. Uncounted' = Uncounted \ {c} /\ c \in Uncounted
    BY <1>6 DEF Uncounted, CountTotal, Goto, Frame
  <2>2. Cardinality(Uncounted') = Cardinality(Uncounted) - 1
    BY <1>1, <2>1, FS_RemoveElement
  <2> QED
    BY <1>1, <1>6, <2>2, SMT DEF TotalInv, CountTotal, Goto, Frame, env
<1>7. ASSUME NEW c \in CPUs, CopyTotal(c) \/ StoreTotal(c) \/ ZeroTotal(c), Frame(c) PROVE TotalInv'
  <2>1. Uncounted' = Uncounted
    BY <1>7 DEF Uncounted, CopyTotal, StoreTotal, ZeroTotal, Goto, Frame
  <2>2. CASE CopyTotal(c)
    BY <1>1, <1>7, <2>1, <2>2 DEF TotalInv, CopyTotal, Goto, Frame, env, data
  <2>3. CASE StoreTotal(c)
    BY <1>1, <1>7, <2>1, <2>3 DEF TotalInv, StoreTotal, Goto, Frame, env, data
  <2>4. CASE ZeroTotal(c)
    BY <1>1, <1>7, <2>1, <2>4, SMT DEF TotalInv, ZeroTotal, Goto, Frame, env, data, locals
  <2> QED
    BY <1>7, <2>2, <2>3, <2>4
<1>8. CASE Tick \/ (\E ip \in IPs : AddRule(ip)) \/ UNCHANGED vars
  BY <1>2, <1>8 DEF Tick, AddRule, vars, env, locals
<1> QED
  BY <1>3, <1>4, <1>5, <1>6, <1>7, <1>8, StepFrame, TotalQuietSteps DEF Next

----------------------------------------------------------------------------
(***************************************************************************)
(* The counts of the flows.                                                *)
(***************************************************************************)

\* The CPUs whose packet has arrived and is not counted in a flow.
Unlogged == {c \in CPUs : pc[c] \in Counting}

\* n[e] is a number of packets that have been counted in the element e, ever,
\* under whatever key: all that is or was copied from e stands for packets
\* among these.  While a CPU is about to zero the current count of e, the two
\* counts may stand for the same packets.
Covers(n) ==
  /\ \A e \in Elems :
       /\ elem[e].cur <= n[e]
       /\ elem[e].prev <= n[e]
       /\ (\A c \in CPUs : ~ (pc[c] = "zeroFlow" /\ value[c] = e)) =>
             elem[e].prev + elem[e].cur <= n[e]
  /\ \A c \in CPUs : pc[c] = "storeFlow" => seen[c] <= n[value[c]]
  /\ SumFunctionOnSet(n, Elems) + Cardinality(Unlogged) <= arrived

\* The inductive invariant: the packets ever counted in the elements are at
\* most those that arrived and are not still on their way.
FlowInv == \E n \in [Elems -> Nat] : Covers(n)

FlowLabels == Counting \cup {"storeFlow", "zeroFlow"}

\* A step of c that has nothing to do with the counts of flows.
FlowQuiet(c) ==
  /\ UNCHANGED arrived
  /\ \A e \in Elems : elem'[e].prev = elem[e].prev /\ elem'[e].cur = elem[e].cur
  /\ \/ pc[c] \in Counting /\ pc'[c] \notin {"storeFlow", "zeroFlow"}
     \/ pc[c] \notin FlowLabels /\ pc'[c] \notin FlowLabels

\* The steps on the counts of flows are among those excluded here.
LEMMA FlowQuietSteps ==
  ASSUME TypeOK, NEW c \in CPUs,
         \/ ReceiveMalformed(c) \/ ReceiveOther(c)
         \/ PacketStep(c) /\ ~ CountFlow(c) /\ ~ InsertFlow(c)
         \/ CloseStep(c) /\ ~ LoadFlow(c) /\ ~ StoreFlow(c) /\ ~ ZeroFlow(c)
  PROVE  FlowQuiet(c)
<1>0. pc \in [CPUs -> Verdicts \cup Labels] /\ elem \in [Elems -> Element]
  BY DEF TypeOK, LocalsOK
<1> USE <1>0 DEF FlowQuiet, FlowLabels, Counting, Goto, Return, env, maps, bpf_redirect_map
<1>1. CASE ReceiveMalformed(c) \/ ReceiveOther(c)
  BY <1>1 DEF ReceiveMalformed, ReceiveOther, Idle, Verdicts
<1>2. CASE PacketStep(c) /\ ~ CountFlow(c) /\ ~ InsertFlow(c)
  <2>1. UNCHANGED <<arrived, elem>>
    BY <1>2 DEF PacketStep, Filter, CountTotal, LoadTotal, CompareBits, GrowBits, LookupFlow,
       ReadStamp, Lock, Claim, SetStamp, Unlock
  <2>2. \/ pc[c] \in Counting /\ pc'[c] \notin {"storeFlow", "zeroFlow"}
        \/ pc[c] \notin FlowLabels /\ pc'[c] \notin FlowLabels
    BY <1>2 DEF PacketStep, Filter, CountTotal, LoadTotal, CompareBits, GrowBits, LookupFlow,
       ReadStamp, Lock, Claim, SetStamp, Unlock
  <2> QED BY <2>1, <2>2
<1>3. CASE StoreEntropy(c)
  <2>1. value[c] \in Elems
    BY <1>3 DEF StoreEntropy, TypeOK, LocalsOK, OnElem
  <2> QED BY <1>3, <2>1 DEF StoreEntropy, Element
<1>4. CASE CloseStep(c) /\ ~ StoreEntropy(c) /\ ~ LoadFlow(c) /\ ~ StoreFlow(c) /\ ~ ZeroFlow(c)
  <2>1. UNCHANGED <<arrived, elem>>
    BY <1>4 DEF CloseStep, calc_entropy, Average, detection, TestFlow, DeleteFlow,
       EndDetection, CopyTotal, StoreTotal, ZeroTotal, ResetBits
  <2>2. pc[c] \notin FlowLabels /\ pc'[c] \notin FlowLabels
    BY <1>4 DEF CloseStep, calc_entropy, Average, detection, TestFlow, DeleteFlow,
       EndDetection, CopyTotal, StoreTotal, ZeroTotal, ResetBits
  <2> QED BY <2>1, <2>2
<1> QED BY <1>1, <1>2, <1>3, <1>4

\* Counting one more packet in e, by a CPU that is done with its packet then.
LEMMA CoverOneMore ==
  ASSUME TypeOK, NEW c \in CPUs, Frame(c), NEW n \in [Elems -> Nat], Covers(n), NEW e \in Elems,
         UNCHANGED arrived, pc[c] \in Counting, pc'[c] = "stamp",
         elem'[e].prev \in Nat, elem'[e].cur \in Nat,
         \/ elem'[e].prev = elem[e].prev /\ elem'[e].cur = elem[e].cur + 1
         \/ elem'[e].prev = 0 /\ elem'[e].cur = 1,
         \A x \in Elems \ {e} : elem'[x] = elem[x]
  PROVE  FlowInv'
<1> USE DEF TypeOK, LocalsOK
<1> DEFINE m == [n EXCEPT ![e] = n[e] + 1]
<1>1. m \in [Elems -> Nat]
  BY SMT
<1>2. \A x \in Elems : elem[x].prev \in Nat /\ elem[x].cur \in Nat
  BY DEF Element
<1>3. SumFunctionOnSet(m, Elems) = SumFunctionOnSet(n, Elems) + 1
  <2>1. SumFunctionOnSet(m, Elems) \in Nat /\ SumFunctionOnSet(n, Elems) \in Nat
    BY <1>1, ElemsAssumption, SumNat
  <2>2. SumFunctionOnSet(m, Elems) - m[e] = SumFunctionOnSet(n, Elems) - n[e]
    <3>1. \A x \in Elems : m[x] \in Nat /\ n[x] \in Nat
      BY <1>1
    <3>2. \A x \in Elems \ {e} : m[x] = n[x]
      OBVIOUS
    <3> HIDE DEF m
    <3> QED BY <3>1, <3>2, ElemsAssumption, SumChange, SMTT(20)
  <2>3. m[e] = n[e] + 1 /\ n[e] \in Nat
    OBVIOUS
  <2> HIDE DEF m
  <2> QED BY <2>1, <2>2, <2>3, SMT
<1>4. IsFiniteSet(Unlogged) /\ Cardinality(Unlogged) \in Nat
  BY ConstantsAssumption, FS_Subset, FS_CardinalityType DEF Unlogged
<1>5. Unlogged' = Unlogged \ {c} /\ c \in Unlogged
  BY DEF Unlogged, Frame, Counting
<1>6. Cardinality(Unlogged') = Cardinality(Unlogged) - 1
  BY <1>4, <1>5, FS_RemoveElement
<1>7. SumFunctionOnSet(m, Elems) + Cardinality(Unlogged') <= arrived'
  <2>1. SumFunctionOnSet(n, Elems) \in Nat
    BY ElemsAssumption, SumNat
  <2>2. SumFunctionOnSet(n, Elems) + Cardinality(Unlogged) <= arrived
    BY DEF Covers
  <2> HIDE DEF m
  <2> QED BY <1>3, <1>4, <1>6, <2>1, <2>2, SMT
<1>8. \A x \in Elems : m[x] \in Nat /\ n[x] <= m[x] /\ (x # e => m[x] = n[x])
  BY SMT
<1>9. m[e] = n[e] + 1
  OBVIOUS
<1>10. ASSUME NEW d \in CPUs, pc'[d] = "storeFlow" PROVE seen'[d] <= m[value'[d]]
  <2>1. d # c /\ pc[d] = "storeFlow" /\ value[d] \in Elems /\ seen[d] \in Nat /\ seen[d] <= n[value[d]]
    BY <1>10 DEF Frame, Covers, OnElem
  <2>2. value'[d] = value[d] /\ seen'[d] = seen[d]
    BY <2>1 DEF Frame
  <2> HIDE DEF m
  <2> QED BY <1>8, <2>1, <2>2, SMT
<1>11. \A d \in CPUs : \A x \in Elems :
          pc[d] = "zeroFlow" /\ value[d] = x => pc'[d] = "zeroFlow" /\ value'[d] = x
  BY DEF Frame, Counting
<1>12. ASSUME NEW x \in Elems
       PROVE  /\ elem'[x].cur <= m[x]
              /\ elem'[x].prev <= m[x]
              /\ (\A d \in CPUs : ~ (pc'[d] = "zeroFlow" /\ value'[d] = x)) =>
                    elem'[x].prev + elem'[x].cur <= m[x]
  <2> HIDE DEF m
  <2>1. CASE x = e
    BY <1>2, <1>9, <1>11, <2>1, SMT DEF Covers
  <2>2. CASE x # e
    BY <1>2, <1>8, <1>11, <2>2 DEF Covers
  <2> QED BY <2>1, <2>2
<1> HIDE DEF m
<1>13. Covers(m)'
  BY <1>7, <1>10, <1>12 DEF Covers
<1> QED BY <1>1, <1>13 DEF FlowInv

\* Every step keeps FlowInv.
LEMMA FlowStep ==
  ASSUME TypeOK, FlowInv, [Next]_vars
  PROVE  FlowInv'
<1> PICK n \in [Elems -> Nat] : Covers(n)
  BY DEF FlowInv
<1>1. IsFiniteSet(Unlogged) /\ Cardinality(Unlogged) \in Nat
  BY ConstantsAssumption, FS_Subset, FS_CardinalityType DEF Unlogged
<1>2. SumFunctionOnSet(n, Elems) \in Nat
  BY ElemsAssumption, SumNat
<1>3. \A e \in Elems : elem[e].prev \in Nat /\ elem[e].cur \in Nat
  BY DEF TypeOK, Element
<1>t. /\ arrived \in Nat
      /\ pc \in [CPUs -> Verdicts \cup Labels]
      /\ value \in [CPUs -> Elems \cup {NoElem}]
      /\ seen \in [CPUs -> Nat]
      /\ elem \in [Elems -> Element]
      /\ \A c \in CPUs : pc[c] \in {"hit", "copyFlow", "storeFlow", "zeroFlow"} => value[c] \in Elems
  BY DEF TypeOK, LocalsOK, OnElem
<1>4. CASE UNCHANGED <<arrived, elem, pc, value, seen>>
  BY <1>4 DEF FlowInv, Covers, Unlogged
<1>5. ASSUME NEW c \in CPUs, Frame(c), FlowQuiet(c) PROVE FlowInv'
  <2>1. Unlogged' \subseteq Unlogged
    BY <1>5 DEF Unlogged, Frame, FlowQuiet, FlowLabels
  <2>2. Cardinality(Unlogged') <= Cardinality(Unlogged) /\ Cardinality(Unlogged') \in Nat
    BY <1>1, <2>1, FS_Subset, FS_CardinalityType
  <2>3. \A d \in CPUs : /\ pc'[d] = "storeFlow" => pc[d] = "storeFlow" /\ seen'[d] = seen[d] /\ value'[d] = value[d]
                        /\ pc[d] = "zeroFlow" => pc'[d] = "zeroFlow" /\ value'[d] = value[d]
    BY <1>5 DEF Frame, FlowQuiet, FlowLabels, Counting
  <2>4. SumFunctionOnSet(n, Elems) + Cardinality(Unlogged') <= arrived'
    BY <1>1, <1>2, <1>5, <1>t, <2>2, SMT DEF Covers, FlowQuiet
  <2>5. \A d \in CPUs : pc'[d] = "storeFlow" => seen'[d] <= n[value'[d]]
    BY <2>3 DEF Covers
  <2>6. ASSUME NEW e \in Elems, \A d \in CPUs : ~ (pc'[d] = "zeroFlow" /\ value'[d] = e)
        PROVE  \A d \in CPUs : ~ (pc[d] = "zeroFlow" /\ value[d] = e)
    BY <2>3, <2>6
  <2>7. Covers(n)'
    BY <1>5, <2>4, <2>5, <2>6 DEF Covers, FlowQuiet
  <2> QED BY <2>7 DEF FlowInv
<1>6. ASSUME NEW c \in CPUs, NEW ip \in IPs, Receive(c, ip), Frame(c) PROVE FlowInv'
  <2>1. Unlogged' = Unlogged \cup {c} /\ c \notin Unlogged
    BY <1>6, <1>t DEF Unlogged, Receive, Goto, Frame, Idle, Verdicts, Counting
  <2>2. Cardinality(Unlogged') = Cardinality(Unlogged) + 1
    BY <1>1, <2>1, FS_AddElement
  <2>3. SumFunctionOnSet(n, Elems) + Cardinality(Unlogged') <= arrived'
    BY <1>1, <1>2, <1>6, <1>t, <2>2, SMT DEF Covers, Receive
  <2>4. Covers(n)'
    BY <1>6, <1>t, <2>3 DEF Covers, Receive, Goto, Frame, Idle, Verdicts, maps
  <2> QED BY <2>4 DEF FlowInv
<1>7. ASSUME NEW c \in CPUs, CountFlow(c), Frame(c) PROVE FlowInv'
  <2>1. pc[c] \in Counting /\ pc'[c] = "stamp" /\ UNCHANGED arrived /\ value[c] \in Elems
    BY <1>7, <1>t DEF CountFlow, Goto, Counting, env
  <2>2. elem' = [elem EXCEPT ![value[c]].cur = @ + 1]
    BY <1>7 DEF CountFlow
  <2>3. elem'[value[c]].prev = elem[value[c]].prev /\ elem'[value[c]].cur = elem[value[c]].cur + 1
    BY <1>t, <2>1, <2>2 DEF Element
  <2>4. \A x \in Elems \ {value[c]} : elem'[x] = elem[x]
    BY <1>t, <2>1, <2>2
  <2>5. elem'[value[c]].prev \in Nat /\ elem'[value[c]].cur \in Nat
    BY <1>3, <2>1, <2>3, SMT
  <2> QED BY <1>7, <2>1, <2>3, <2>4, <2>5, CoverOneMore
<1>8. ASSUME NEW c \in CPUs, InsertFlow(c), Frame(c) PROVE FlowInv'
  <2>1. pc[c] \in Counting /\ pc'[c] = "stamp" /\ UNCHANGED arrived
    BY <1>8, <1>t DEF InsertFlow, Goto, Counting, env
  <2>2. CASE UNCHANGED maps
    <3>1. FlowQuiet(c) BY <2>1, <2>2 DEF FlowQuiet, maps
    <3> QED BY <1>5, <1>8, <3>1
  <2>3. ASSUME NEW e \in Elems,
               elem' = [elem EXCEPT ![e] = [key |-> key[c], prev |-> 0, cur |-> 1, entropy |-> 0]]
        PROVE  FlowInv'
    <3>1. elem'[e].prev = 0 /\ elem'[e].cur = 1
      BY <1>t, <2>3
    <3>2. \A x \in Elems \ {e} : elem'[x] = elem[x]
      BY <1>t, <2>3
    <3>3. elem'[e].prev \in Nat /\ elem'[e].cur \in Nat
      BY <3>1, SMT
    <3> QED BY <1>8, <2>1, <3>1, <3>2, <3>3, CoverOneMore
  <2> QED BY <1>8, <2>2, <2>3 DEF InsertFlow
<1>9. ASSUME NEW c \in CPUs, LoadFlow(c) \/ StoreFlow(c) \/ ZeroFlow(c), Frame(c) PROVE FlowInv'
  <2>1. Unlogged' = Unlogged /\ UNCHANGED arrived
    BY <1>9, <1>t DEF Unlogged, LoadFlow, StoreFlow, ZeroFlow, Goto, Frame, Counting, env
  <2>2. value[c] \in Elems
    BY <1>9, <1>t DEF LoadFlow, StoreFlow, ZeroFlow
  <2>3. SumFunctionOnSet(n, Elems) + Cardinality(Unlogged') <= arrived'
    BY <2>1 DEF Covers
  <2>4. CASE LoadFlow(c)
    <3>1. Covers(n)'
      BY <1>3, <1>9, <1>t, <2>2, <2>3, <2>4 DEF Covers, LoadFlow, Goto, Frame, maps
    <3> QED BY <3>1 DEF FlowInv
  <2>5. CASE StoreFlow(c)
    <3>1. /\ elem'[value[c]].prev = seen[c] /\ elem'[value[c]].cur = elem[value[c]].cur
          /\ \A x \in Elems \ {value[c]} : elem'[x] = elem[x]
      BY <1>t, <2>2, <2>5 DEF StoreFlow, Element
    <3>2. pc[c] = "storeFlow" /\ pc'[c] = "zeroFlow" /\ value'[c] = value[c]
      BY <1>t, <2>5 DEF StoreFlow, Goto
    <3>3. \A d \in CPUs : pc'[d] = "storeFlow" => seen'[d] <= n[value'[d]]
      BY <1>9, <3>2 DEF Covers, Frame
    <3>4. \A x \in Elems : elem'[x].cur <= n[x] /\ elem'[x].prev <= n[x]
      BY <1>3, <2>2, <3>1, <3>2 DEF Covers
    <3>5. ASSUME NEW x \in Elems, \A d \in CPUs : ~ (pc'[d] = "zeroFlow" /\ value'[d] = x)
          PROVE  elem'[x].prev + elem'[x].cur <= n[x]
      <4>1. x # value[c]
        BY <3>2, <3>5
      <4>2. \A d \in CPUs : ~ (pc[d] = "zeroFlow" /\ value[d] = x)
        BY <1>9, <3>2, <3>5 DEF Frame
      <4> QED BY <3>1, <4>1, <4>2 DEF Covers
    <3>6. Covers(n)'
      BY <2>3, <3>3, <3>4, <3>5 DEF Covers
    <3> QED BY <3>6 DEF FlowInv
  <2>6. CASE ZeroFlow(c)
    <3>1. /\ elem'[value[c]].prev = elem[value[c]].prev /\ elem'[value[c]].cur = 0
          /\ \A x \in Elems \ {value[c]} : elem'[x] = elem[x]
      BY <1>t, <2>2, <2>6 DEF ZeroFlow, Element
    <3>2. pc[c] = "zeroFlow" /\ pc'[c] = "detect"
      BY <1>t, <2>6 DEF ZeroFlow, Goto
    <3>3. \A d \in CPUs : pc'[d] = "storeFlow" => seen'[d] <= n[value'[d]]
      BY <1>9, <3>2 DEF Covers, Frame
    <3>4. \A x \in Elems : elem'[x].cur <= n[x] /\ elem'[x].prev <= n[x]
      BY <1>3, <2>2, <3>1, <3>2, SMT DEF Covers
    <3>5. ASSUME NEW x \in Elems, \A d \in CPUs : ~ (pc'[d] = "zeroFlow" /\ value'[d] = x)
          PROVE  elem'[x].prev + elem'[x].cur <= n[x]
      <4>1. CASE x = value[c]
        BY <1>3, <2>2, <3>1, <4>1, SMT DEF Covers
      <4>2. CASE x # value[c]
        <5>1. \A d \in CPUs : ~ (pc[d] = "zeroFlow" /\ value[d] = x)
          BY <1>9, <3>2, <3>5, <4>2 DEF Frame
        <5> QED BY <3>1, <4>2, <5>1 DEF Covers
      <4> QED BY <4>1, <4>2
    <3>6. Covers(n)'
      BY <2>3, <3>3, <3>4, <3>5 DEF Covers
    <3> QED BY <3>6 DEF FlowInv
  <2> QED BY <1>9, <2>4, <2>5, <2>6
<1>10. CASE Tick \/ (\E ip \in IPs : AddRule(ip)) \/ UNCHANGED vars
  BY <1>4, <1>10 DEF Tick, AddRule, vars, env, locals, maps
<1> QED
  BY <1>5, <1>6, <1>7, <1>8, <1>9, <1>10, StepFrame, FlowQuietSteps DEF Next, CpuStep

----------------------------------------------------------------------------
(***************************************************************************)
(* No packet is counted twice.                                                            *)
(***************************************************************************)

\* Nothing is counted before the first packet.
LEMMA CountInit == Init => TotalInv /\ FlowInv
<1> SUFFICES ASSUME Init PROVE TotalInv /\ FlowInv
  OBVIOUS
<1>1. Uncounted = {} /\ Unlogged = {}
  BY DEF Init, Uncounted, Unlogged, Counting
<1>2. TotalInv
  BY <1>1, FS_EmptySet, SMT DEF Init, TotalInv
<1> DEFINE n == [e \in Elems |-> 0]
<1>3. SumFunctionOnSet(n, Elems) = 0
  BY ElemsAssumption, SumZero
<1>4. Covers(n)
  BY <1>1, <1>3, FS_EmptySet, SMT DEF Init, Covers
<1>5. n \in [Elems -> Nat]
  OBVIOUS
<1> QED BY <1>2, <1>4, <1>5 DEF FlowInv

\* Between packets the linked elements hold at most what n counts: different
\* flows have different elements.
LEMMA FlowsCovered ==
  ASSUME TypeOK, MapConsistent, FlowInv, AllIdle
  PROVE  PrevSum + CurSum <= arrived
<1> PICK n \in [Elems -> Nat] : Covers(n)
  BY DEF FlowInv
<1> DEFINE p == [ip \in Flows |-> elem[logger[ip]].prev]
           q == [ip \in Flows |-> elem[logger[ip]].cur]
           b == [ip \in Flows |-> elem[logger[ip]].prev + elem[logger[ip]].cur]
           h == [ip \in Flows |-> logger[ip]]
<1>1. IsFiniteSet(Flows) /\ IsFiniteSet(Elems)
  BY ConstantsAssumption, ElemsAssumption, FS_Subset DEF Flows
<1>2. h \in [Flows -> Elems]
  BY DEF TypeOK, Flows
<1>3. \A ip \in Flows : elem[logger[ip]].prev \in Nat /\ elem[logger[ip]].cur \in Nat
  BY <1>2 DEF TypeOK, Element
<1>4. SumFunctionOnSet(b, Flows) = SumFunctionOnSet(p, Flows) + SumFunctionOnSet(q, Flows)
  <2>1. \A ip \in Flows : p[ip] \in Nat /\ q[ip] \in Nat /\ b[ip] = p[ip] + q[ip]
    BY <1>3
  <2> HIDE DEF p, q, b
  <2> QED BY <1>1, <2>1, SumAdd
<1>5. SumFunctionOnSet(b, Flows) <= SumFunctionOnSet(n, Elems)
  <2>1. \A x, y \in Flows : h[x] = h[y] => x = y
    BY DEF MapConsistent
  <2>2. \A c \in CPUs : pc[c] # "zeroFlow"
    BY DEF AllIdle, Idle, Verdicts
  <2>3. \A ip \in Flows : b[ip] \in Nat /\ b[ip] <= n[h[ip]]
    <3>1. ASSUME NEW ip \in Flows PROVE b[ip] \in Nat /\ b[ip] <= n[h[ip]]
      <4>1. logger[ip] \in Elems BY <1>2
      <4>2. elem[logger[ip]].prev + elem[logger[ip]].cur <= n[logger[ip]]
        BY <2>2, <4>1 DEF Covers
      <4> QED BY <1>3, <4>2, SMT
    <3> QED BY <3>1
  <2>4. \A e \in Elems : n[e] \in Nat
    OBVIOUS
  <2> HIDE DEF b, h
  <2> QED BY <1>1, <1>2, <2>1, <2>3, <2>4, SumCovered
<1>6. SumFunctionOnSet(n, Elems) <= arrived
  <2>1. SumFunctionOnSet(n, Elems) \in Nat
    BY <1>1, SumNat
  <2>2. Cardinality(Unlogged) \in Nat
    BY ConstantsAssumption, FS_Subset, FS_CardinalityType DEF Unlogged
  <2> QED BY <2>1, <2>2, SMT DEF Covers, TypeOK
<1>7. SumFunctionOnSet(b, Flows) \in Nat /\ SumFunctionOnSet(n, Elems) \in Nat
  <2>1. \A ip \in Flows : b[ip] \in Nat BY <1>3, SMT
  <2> HIDE DEF b
  <2> QED BY <1>1, <2>1, SumNat
<1>8. SumFunctionOnSet(b, Flows) = PrevSum + CurSum
  BY <1>4 DEF PrevSum, CurSum
<1> HIDE DEF b
<1> QED BY <1>5, <1>6, <1>7, <1>8, SMT DEF TypeOK

\* However many CPUs count, close intervals and hand elements from one source
\* to another at the same time, no packet is counted twice: neither the
\* totals nor the flows ever hold more packets than arrived.
THEOREM CountedOnce == Spec => []NoDoubleCount
<1> DEFINE Inv == TypeOK /\ MapConsistent /\ TotalInv /\ FlowInv
<1>1. Init => TotalInv /\ FlowInv
  BY CountInit
<1>2. TypeOK /\ TotalInv /\ FlowInv /\ [Next]_vars => TotalInv' /\ FlowInv'
  BY TotalStep, FlowStep
<1>3. Inv => NoDoubleCount
  <2> SUFFICES ASSUME Inv, AllIdle
               PROVE  /\ prev_interval_pkt + cur_interval_pkt <= arrived
                      /\ PrevSum + CurSum <= arrived
    BY DEF NoDoubleCount
  <2>1. prev_interval_pkt + cur_interval_pkt + Cardinality(Uncounted) <= arrived
    BY DEF TotalInv, AllIdle, Idle, Verdicts
  <2>2. Cardinality(Uncounted) \in Nat
    BY ConstantsAssumption, FS_Subset, FS_CardinalityType DEF Uncounted
  <2>3. prev_interval_pkt + cur_interval_pkt <= arrived
    BY <2>1, <2>2, SMT DEF TypeOK
  <2> QED BY <2>3, FlowsCovered
<1> QED
  BY <1>1, <1>2, <1>3, MapInvariant, PTL DEF Spec

----------------------------------------------------------------------------
(***************************************************************************)
(* The overshoot of int_bits.                                              *)
(***************************************************************************)

\* The CPUs that have found int_bits too small and not yet grown it.
Growers == {c \in CPUs : pc[c] = "grow"}

\* A width that nobody had to grow to, or that a total of n packets needed.
Needed(bits, n) == bits > InitBits /\ bits > MinBits => Pow2[bits - 1] <= n

\* int_bits with the growth that is still to come, less one bit per CPU.
Reserved == int_bits + Cardinality(Growers) - Cardinality(CPUs)

\* The inductive invariant.  A CPU that finds int_bits too small adds to the
\* growth to come, but there are then no more such CPUs than there are CPUs,
\* and int_bits as it finds it was exceeded by a total.
OvershootInv ==
  /\ \A c \in CPUs : pc[c] = "compare" => seen[c] <= arrived
  /\ Needed(Reserved, arrived)

OvershootLabels == {"compare", "grow"}

\* A step of c that has nothing to do with int_bits.
OvershootQuiet(c) ==
  /\ UNCHANGED int_bits
  /\ arrived' \in Nat /\ arrived <= arrived'
  /\ pc[c] \notin OvershootLabels
  /\ pc'[c] \notin OvershootLabels

\* The steps on int_bits are among the four excluded here.
LEMMA OvershootQuietSteps ==
  ASSUME TypeOK, NEW c \in CPUs,
         \/ ReceiveMalformed(c) \/ ReceiveOther(c) \/ \E ip \in IPs : Receive(c, ip)
         \/ CpuStep(c) /\ ~ LoadTotal(c) /\ ~ CompareBits(c) /\ ~ GrowBits(c) /\ ~ ResetBits(c)
  PROVE  OvershootQuiet(c)
<1>0. arrived \in Nat /\ arrived <= arrived /\ arrived + 1 \in Nat /\ arrived <= arrived + 1
  BY SMT DEF TypeOK
<1> USE <1>0 DEF TypeOK, LocalsOK, OvershootQuiet, OvershootLabels, Goto, Return, env, data, bpf_redirect_map
<1>1. CASE ReceiveMalformed(c) \/ ReceiveOther(c) \/ \E ip \in IPs : Receive(c, ip)
  BY <1>1 DEF ReceiveMalformed, ReceiveOther, Receive, Idle, Verdicts
<1>2. CASE PacketStep(c) /\ ~ LoadTotal(c) /\ ~ CompareBits(c) /\ ~ GrowBits(c)
  BY <1>2 DEF PacketStep, Filter, CountTotal, LookupFlow, CountFlow, InsertFlow, ReadStamp, Lock, Claim,
     SetStamp, Unlock
<1>3. CASE CloseStep(c) /\ ~ ResetBits(c)
  BY <1>3, SMT DEF CloseStep, calc_entropy, Visit, StoreEntropy, Average, detection, TestFlow, DeleteFlow,
     LoadFlow, StoreFlow, ZeroFlow, EndDetection, CopyTotal, StoreTotal, ZeroTotal
<1> QED BY <1>1, <1>2, <1>3 DEF CpuStep

\* A width below one that n packets needed is needed as well, for as many
\* packets or more.
LEMMA NeededBelow ==
  ASSUME NEW b \in Int, NEW bits \in Int, b <= bits, NEW n \in Nat, NEW m \in Nat, n <= m, Needed(bits, n)
  PROVE  Needed(b, m)
<1> SUFFICES ASSUME b > InitBits, b > MinBits PROVE Pow2[b - 1] <= m
  BY DEF Needed
<1>1. InitBits \in Nat /\ MinBits \in Nat
  BY ConstantsAssumption
<1>2. bits > InitBits /\ bits > MinBits /\ b - 1 \in Nat /\ bits - 1 \in Nat /\ b - 1 <= bits - 1
  BY <1>1, SMT
<1>3. Pow2[b - 1] <= Pow2[bits - 1] /\ Pow2[bits - 1] <= n
  BY <1>2, Pow2Grows DEF Needed
<1>4. Pow2[b - 1] \in Nat /\ Pow2[bits - 1] \in Nat
  BY <1>2, Pow2Step
<1> QED BY <1>3, <1>4, SMT

\* Every step keeps OvershootInv.
LEMMA OvershootStep ==
  ASSUME TypeOK, TotalInv, OvershootInv, [Next]_vars
  PROVE  OvershootInv'
<1>0. /\ pc \in [CPUs -> Verdicts \cup Labels] /\ seen \in [CPUs -> Nat]
      /\ arrived \in Nat /\ cur_interval_pkt \in Nat /\ int_bits \in Nat
      /\ InitBits \in Nat /\ MinBits \in Nat
  BY ConstantsAssumption DEF TypeOK, LocalsOK
<1>1. /\ IsFiniteSet(Growers) /\ Cardinality(Growers) \in Nat
      /\ Cardinality(CPUs) \in Nat /\ Cardinality(Growers) <= Cardinality(CPUs)
  BY ConstantsAssumption, FS_Subset, FS_CardinalityType DEF Growers
<1>2. Reserved \in Int
  BY <1>0, <1>1, SMT DEF Reserved
<1>3. ASSUME NEW c \in CPUs, Frame(c), OvershootQuiet(c) PROVE OvershootInv'
  <2>1. Growers' = Growers
    BY <1>3 DEF Growers, Frame, OvershootQuiet, OvershootLabels
  <2>2. Reserved' = Reserved
    BY <1>3, <2>1 DEF Reserved, OvershootQuiet
  <2>3. Needed(Reserved, arrived')
    <3>1. Reserved <= Reserved
      BY <1>2, SMT
    <3> QED BY <1>0, <1>2, <1>3, <3>1, NeededBelow DEF OvershootInv, OvershootQuiet
  <2>4. ASSUME NEW d \in CPUs, pc'[d] = "compare" PROVE seen'[d] <= arrived'
    <3>1. d # c /\ pc[d] = "compare" /\ seen'[d] = seen[d]
      BY <1>3, <2>4 DEF Frame, OvershootQuiet, OvershootLabels
    <3>2. seen[d] <= arrived /\ seen[d] \in Nat
      BY <1>0, <3>1 DEF OvershootInv
    <3>3. arrived' \in Nat /\ arrived <= arrived'
      BY <1>3 DEF OvershootQuiet
    <3> QED BY <1>0, <3>1, <3>2, <3>3, SMT
  <2> QED BY <2>2, <2>3, <2>4 DEF OvershootInv, Needed
<1>4. ASSUME NEW c \in CPUs, LoadTotal(c), Frame(c) PROVE OvershootInv'
  <2>1. Growers' = Growers /\ UNCHANGED <<int_bits, arrived>> /\ seen'[c] = cur_interval_pkt
    BY <1>0, <1>4 DEF Growers, LoadTotal, Goto, Frame, env, data
  <2>2. cur_interval_pkt <= arrived
    <3>1. Cardinality(Uncounted) \in Nat
      BY ConstantsAssumption, FS_Subset, FS_CardinalityType DEF Uncounted
    <3>2. cur_interval_pkt + Cardinality(Uncounted) <= arrived
      BY DEF TotalInv
    <3> QED BY <1>0, <3>1, <3>2, SMT
  <2>3. Reserved' = Reserved
    BY <2>1 DEF Reserved
  <2> QED BY <1>4, <2>1, <2>2, <2>3 DEF OvershootInv, Needed, Frame
<1>5. ASSUME NEW c \in CPUs, CompareBits(c), Frame(c) PROVE OvershootInv'
  <2>1. pc[c] = "compare" /\ UNCHANGED <<int_bits, arrived>> /\ pc'[c] \in {"grow", "flow"}
    BY <1>0, <1>5 DEF CompareBits, Goto, env, data
  <2>2. \A d \in CPUs : pc'[d] = "compare" => seen'[d] <= arrived'
    BY <1>5, <2>1 DEF OvershootInv, Frame
  <2>3. CASE pc'[c] = "flow"
    <3>1. Growers' = Growers
      BY <1>5, <2>1, <2>3 DEF Growers, Frame
    <3>2. Reserved' = Reserved
      BY <2>1, <3>1 DEF Reserved
    <3> QED BY <2>1, <2>2, <3>2 DEF OvershootInv, Needed
  <2>4. CASE pc'[c] = "grow"
    <3>1. Growers' = Growers \cup {c} /\ c \notin Growers
      BY <1>5, <2>1, <2>4 DEF Growers, Frame
    <3>2. IsFiniteSet(Growers') /\ Cardinality(Growers') = Cardinality(Growers) + 1
      BY <1>1, <3>1, FS_AddElement
    <3>3. Cardinality(Growers') <= Cardinality(CPUs) /\ Cardinality(Growers') \in Nat
      <4>1. Growers' \subseteq CPUs
        BY <3>1 DEF Growers
      <4> QED BY <3>2, <4>1, ConstantsAssumption, FS_Subset, FS_CardinalityType
    <3>4. Reserved' \in Int /\ Reserved' <= int_bits
      BY <1>0, <1>1, <2>1, <3>3, SMT DEF Reserved
    <3>5. Needed(int_bits, arrived)
      <4>1. TRUE \in Exceeds(seen[c], int_bits)
        BY <1>0, <1>5, <2>1, <2>4 DEF CompareBits, Goto
      <4>2. CASE int_bits = 0
        <5>1. ~ (int_bits > InitBits)
          BY <1>0, <4>2, SMT
        <5> QED BY <5>1 DEF Needed
      <4>3. CASE int_bits # 0
        <5>1. seen[c] > Pow2[int_bits - 1] - 1
          BY <4>1, <4>3 DEF Exceeds
        <5>2. int_bits - 1 \in Nat
          BY <1>0, <4>3, SMT
        <5>3. Pow2[int_bits - 1] \in Nat
          BY <5>2, Pow2Step
        <5>4. seen[c] \in Nat /\ seen[c] <= arrived
          BY <1>0, <2>1 DEF OvershootInv
        <5>5. Pow2[int_bits - 1] <= arrived
          BY <1>0, <5>1, <5>3, <5>4, SMT
        <5> QED BY <5>5 DEF Needed
      <4> QED BY <4>2, <4>3
    <3>6. Needed(Reserved', arrived)
      <4>1. arrived <= arrived /\ int_bits \in Int
        BY <1>0, SMT
      <4> QED BY <1>0, <3>4, <3>5, <4>1, NeededBelow
    <3> QED BY <2>1, <2>2, <3>6 DEF OvershootInv, Needed
  <2> QED BY <2>1, <2>3, <2>4
<1>6. ASSUME NEW c \in CPUs, GrowBits(c), Frame(c) PROVE OvershootInv'
  <2>1. /\ pc[c] = "grow" /\ pc'[c] = "flow" /\ int_bits' = int_bits + 1
        /\ UNCHANGED <<arrived, seen>>
    BY <1>0, <1>6 DEF GrowBits, Goto, env, locals
  <2>2. Growers' = Growers \ {c} /\ c \in Growers
    BY <1>6, <2>1 DEF Growers, Frame
  <2>3. Cardinality(Growers') = Cardinality(Growers) - 1
    BY <1>1, <2>2, FS_RemoveElement
  <2>4. Reserved' = Reserved
    BY <1>0, <1>1, <2>1, <2>3, SMT DEF Reserved
  <2> QED BY <1>6, <2>1, <2>4 DEF OvershootInv, Needed, Frame
<1>7. ASSUME NEW c \in CPUs, ResetBits(c), Frame(c) PROVE OvershootInv'
  <2>1. /\ pc[c] = "reset" /\ pc'[c] \notin OvershootLabels /\ int_bits' = MinBits /\ UNCHANGED arrived
    BY <1>0, <1>7 DEF ResetBits, Return, Goto, env, bpf_redirect_map, OvershootLabels
  <2>2. Growers' = Growers
    BY <1>7, <2>1 DEF Growers, Frame, OvershootLabels
  <2>3. ~ (Reserved' > MinBits)
    BY <1>0, <1>1, <2>1, <2>2, SMT DEF Reserved
  <2> QED BY <1>7, <2>1, <2>3 DEF OvershootInv, Needed, Frame, OvershootLabels
<1>8. CASE Tick \/ (\E ip \in IPs : AddRule(ip)) \/ UNCHANGED vars
  <2>1. UNCHANGED <<arrived, int_bits, pc, seen>>
    BY <1>8 DEF Tick, AddRule, vars, env, data, locals
  <2> QED BY <2>1 DEF OvershootInv, Needed, Reserved, Growers
<1> QED
  BY <1>3, <1>4, <1>5, <1>6, <1>7, <1>8, StepFrame, OvershootQuietSteps DEF Next, CpuStep, PacketStep, CloseStep

\* However CPUs race between the test of the total and the growth of
\* int_bits, it exceeds the width that some total of packets received has
\* needed by at most one bit per CPU.
THEOREM Overshoot == Spec => []BitsBounded
<1>1. Init => TotalInv /\ OvershootInv
  <2>1. ASSUME Init PROVE OvershootInv
    <3>1. Growers = {}
      BY <2>1 DEF Init, Growers
    <3>2. Cardinality(Growers) = 0 /\ Cardinality(CPUs) \in Nat /\ InitBits \in Nat
      BY <3>1, ConstantsAssumption, FS_EmptySet, FS_CardinalityType
    <3>3. int_bits = InitBits
      BY <2>1 DEF Init
    <3>4. ~ (Reserved > InitBits)
      BY <3>2, <3>3, SMT DEF Reserved
    <3> QED BY <2>1, <3>4 DEF Init, OvershootInv, Needed
  <2> QED BY <2>1, CountInit
<1>2. TypeOK /\ TotalInv /\ OvershootInv /\ [Next]_vars => TotalInv' /\ OvershootInv'
  BY TotalStep, OvershootStep
<1>3. TypeOK /\ OvershootInv => BitsBounded
  <2> SUFFICES ASSUME TypeOK, OvershootInv PROVE Needed(int_bits - Cardinality(CPUs), arrived)
    BY DEF BitsBounded, Needed
  <2>1. /\ Cardinality(Growers) \in Nat /\ Cardinality(CPUs) \in Nat
        /\ int_bits \in Nat /\ arrived \in Nat /\ arrived <= arrived
    <3>1. Cardinality(Growers) \in Nat /\ Cardinality(CPUs) \in Nat
      BY ConstantsAssumption, FS_Subset, FS_CardinalityType DEF Growers
    <3>2. int_bits \in Nat /\ arrived \in Nat
      BY DEF TypeOK
    <3> QED BY <3>1, <3>2, SMT
  <2>2. /\ Reserved \in Int /\ int_bits - Cardinality(CPUs) \in Int
        /\ int_bits - Cardinality(CPUs) <= Reserved
    BY <2>1, SMT DEF Reserved
  <2> QED BY <2>1, <2>2, NeededBelow DEF OvershootInv
<1> QED
  BY <1>1, <1>2, <1>3, MapInvariant, PTL DEF Spec

----------------------------------------------------------------------------
(***************************************************************************)
(* On one CPU.                                                             *)
(***************************************************************************)

\* The inductive invariant of the copies: what was loaded is still there.
\* With a second CPU it is not, see NothingDropped in kernel_lost_count.cfg.
CopyInv ==
  /\ NothingDropped
  /\ \A c \in CPUs :
       /\ pc[c] = "storeTotal" => seen[c] = cur_interval_pkt
       /\ pc[c] = "storeFlow" => seen[c] = elem[value[c]].cur

CopyLabels == {"storeTotal", "zeroTotal", "storeFlow", "zeroFlow", "delete"}

\* On one CPU nothing comes between the load and the store of a copy.
LEMMA CopyStep ==
  ASSUME \A c, d \in CPUs : c = d, TypeOK, CopyInv, [Next]_vars
  PROVE  CopyInv'
<1>0. /\ pc \in [CPUs -> Verdicts \cup Labels]
      /\ value \in [CPUs -> Elems \cup {NoElem}]
      /\ seen \in [CPUs -> Nat]
      /\ elem \in [Elems -> Element]
      /\ \A c \in CPUs : pc[c] \in OnElem => value[c] \in Elems
  BY DEF TypeOK, LocalsOK
<1>1. CASE UNCHANGED <<data, elem, pc, value, seen>>
  BY <1>1 DEF CopyInv, NothingDropped, data
<1>2. ASSUME NEW c \in CPUs, pc'[c] \notin CopyLabels PROVE CopyInv'
  BY <1>2 DEF CopyInv, NothingDropped, CopyLabels
<1>3. ASSUME NEW c \in CPUs, ReceiveMalformed(c) \/ ReceiveOther(c) \/ \E ip \in IPs : Receive(c, ip)
      PROVE  pc'[c] \notin CopyLabels
  BY <1>0, <1>3 DEF ReceiveMalformed, ReceiveOther, Receive, Return, Goto, bpf_redirect_map, CopyLabels
<1>4. ASSUME NEW c \in CPUs, PacketStep(c) PROVE pc'[c] \notin CopyLabels
  BY <1>0, <1>4 DEF PacketStep, Filter, CountTotal, LoadTotal, CompareBits, GrowBits, LookupFlow,
     CountFlow, InsertFlow, ReadStamp, Lock, Claim, SetStamp, Unlock, Return, Goto, bpf_redirect_map, CopyLabels
<1>5. ASSUME NEW c \in CPUs, CloseStep(c),
             ~ TestFlow(c), ~ LoadFlow(c), ~ StoreFlow(c), ~ CopyTotal(c), ~ StoreTotal(c)
      PROVE  pc'[c] \notin CopyLabels
  BY <1>0, <1>5 DEF CloseStep, calc_entropy, StoreEntropy, Average, detection, DeleteFlow, ZeroFlow,
     EndDetection, ZeroTotal, ResetBits, Return, Goto, bpf_redirect_map, CopyLabels
<1>6. ASSUME NEW c \in CPUs, TestFlow(c) PROVE CopyInv'
  BY <1>0, <1>6 DEF TestFlow, Goto, CopyInv, NothingDropped, OnElem, maps, locals
<1>7. ASSUME NEW c \in CPUs, LoadFlow(c) PROVE CopyInv'
  BY <1>0, <1>7 DEF LoadFlow, Goto, CopyInv, NothingDropped, OnElem, maps
<1>8. ASSUME NEW c \in CPUs, StoreFlow(c) PROVE CopyInv'
  <2>1. pc'[c] = "zeroFlow" /\ value'[c] = value[c]
    BY <1>0, <1>8 DEF StoreFlow, Goto
  <2>2. elem'[value[c]].prev = seen[c] /\ elem'[value[c]].cur = elem[value[c]].cur
    BY <1>0, <1>8 DEF StoreFlow, Element, OnElem
  <2>3. seen[c] = elem[value[c]].cur
    BY <1>8 DEF StoreFlow, CopyInv
  <2> QED BY <2>1, <2>2, <2>3 DEF CopyInv, NothingDropped
<1>9. ASSUME NEW c \in CPUs, CopyTotal(c) PROVE CopyInv'
  BY <1>0, <1>9 DEF CopyTotal, Goto, CopyInv, NothingDropped, data
<1>10. ASSUME NEW c \in CPUs, StoreTotal(c) PROVE CopyInv'
  BY <1>0, <1>10 DEF StoreTotal, Goto, CopyInv, NothingDropped
<1>11. CASE Tick \/ (\E ip \in IPs : AddRule(ip)) \/ UNCHANGED vars
  BY <1>1, <1>11 DEF Tick, AddRule, vars, maps, locals
<1> QED
  BY <1>2, <1>3, <1>4, <1>5, <1>6, <1>7, <1>8, <1>9, <1>10, <1>11 DEF Next, CpuStep

\* On a machine with one CPU no packet is lost by closing an interval: a
\* count is zeroed only when it has just been copied, and a flow is deleted
\* only without packets.
THEOREM NothingLost ==
  ASSUME \A c, d \in CPUs : c = d
  PROVE  Spec => []NothingDropped
<1>1. Init => CopyInv
  BY DEF Init, CopyInv, NothingDropped
<1>2. TypeOK /\ CopyInv /\ [Next]_vars => CopyInv'
  BY CopyStep
<1>3. CopyInv => NothingDropped
  BY DEF CopyInv
<1> QED
  BY <1>1, <1>2, <1>3, Typing, PTL DEF Spec

----------------------------------------------------------------------------
(***************************************************************************)
(* The width of the interval total.                                        *)
(***************************************************************************)

\* int_bits is wide enough for n packets.
Wide(n) == int_bits # 0 /\ n <= Pow2[int_bits - 1] - 1

\* The inductive invariant of the width on one CPU: before the program has
\* grown int_bits for a packet, it is wide enough for the packets before.
WidthInv(c) ==
  /\ pc[c] = "reset" => cur_interval_pkt = 0
  /\ pc[c] = "compare" => seen[c] = cur_interval_pkt
  /\ prev_interval_pkt > 0 =>
       \/ pc[c] \in {"zeroTotal", "reset"}
       \/ pc[c] \in {"load", "compare", "grow"} /\ Wide(cur_interval_pkt - 1)
       \/ pc[c] \notin {"load", "compare", "grow"} /\ Wide(cur_interval_pkt)

\* One more bit is enough for one more packet.
LEMMA Wider ==
  ASSUME NEW b \in Nat, NEW n \in Nat, b # 0, n - 1 <= Pow2[b - 1] - 1
  PROVE  n <= Pow2[(b + 1) - 1] - 1
<1>1. b - 1 \in Nat /\ (b - 1) + 1 = b /\ (b + 1) - 1 = b
  BY SMT
<1>2. Pow2[b] = 2 * Pow2[b - 1] /\ Pow2[b - 1] \in Nat \ {0}
  BY <1>1, Pow2Step
<1>3. n <= 2 * Pow2[b - 1] - 1
  BY <1>2, SMT
<1> QED BY <1>1, <1>2, <1>3

\* Every step of the one CPU keeps the width.
LEMMA WidthStep ==
  ASSUME NEW c \in CPUs, CPUs = {c}, TypeOK, WidthInv(c), [Next]_vars
  PROVE  WidthInv(c)'
<1>0. /\ pc \in [CPUs -> Verdicts \cup Labels]
      /\ seen \in [CPUs -> Nat]
      /\ prev_interval_pkt \in Nat /\ cur_interval_pkt \in Nat /\ int_bits \in Nat
      /\ MinBits \in Nat \ {0}
  BY ConstantsAssumption DEF TypeOK, LocalsOK
<1> DEFINE Growing == {"load", "compare", "grow", "zeroTotal", "reset"}
<1>1. CASE UNCHANGED <<data, pc, seen>>
  BY <1>1 DEF WidthInv, Wide, data
<1>2. CASE UNCHANGED data /\ pc[c] \notin Growing /\ pc'[c] \notin Growing
  BY <1>2 DEF WidthInv, Wide, data
<1>3. CASE ReceiveMalformed(c) \/ ReceiveOther(c) \/ \E ip \in IPs : Receive(c, ip)
  <2>1. UNCHANGED data /\ pc[c] \notin Growing /\ pc'[c] \notin Growing
    BY <1>0, <1>3 DEF ReceiveMalformed, ReceiveOther, Receive, Return, Goto, Idle, Verdicts, bpf_redirect_map
  <2> QED BY <1>2, <2>1
<1>4. CASE PacketStep(c) /\ ~ CountTotal(c) /\ ~ LoadTotal(c) /\ ~ CompareBits(c) /\ ~ GrowBits(c)
  <2>1. UNCHANGED data /\ pc[c] \notin Growing /\ pc'[c] \notin Growing
    BY <1>0, <1>4 DEF PacketStep, Filter, LookupFlow, CountFlow, InsertFlow, ReadStamp, Lock, Claim,
       SetStamp, Unlock, Return, Goto, bpf_redirect_map
  <2> QED BY <1>2, <2>1
<1>5. CASE CloseStep(c) /\ ~ StoreTotal(c) /\ ~ ZeroTotal(c) /\ ~ ResetBits(c)
  <2>1. UNCHANGED data /\ pc[c] \notin Growing /\ pc'[c] \notin Growing
    BY <1>0, <1>5 DEF CloseStep, calc_entropy, StoreEntropy, Average, detection, TestFlow, DeleteFlow,
       LoadFlow, StoreFlow, ZeroFlow, EndDetection, CopyTotal, Goto
  <2> QED BY <1>2, <2>1
<1>6. CASE CountTotal(c)
  <2>1. /\ pc[c] = "total" /\ pc'[c] = "load" /\ UNCHANGED <<prev_interval_pkt, int_bits>>
        /\ cur_interval_pkt' = cur_interval_pkt + 1 /\ cur_interval_pkt' - 1 = cur_interval_pkt
    BY <1>0, <1>6, SMT DEF CountTotal, Goto
  <2> QED BY <2>1 DEF WidthInv, Wide
<1>7. CASE LoadTotal(c)
  <2>1. pc[c] = "load" /\ pc'[c] = "compare" /\ seen'[c] = cur_interval_pkt /\ UNCHANGED data
    BY <1>0, <1>7 DEF LoadTotal, Goto
  <2> QED BY <2>1 DEF WidthInv, Wide, data
<1>8. CASE CompareBits(c)
  <2> DEFINE Short == seen[c] > Pow2[int_bits - 1] - 1
  <2>1. /\ pc[c] = "compare" /\ UNCHANGED data
        /\ \/ pc'[c] = "grow"
           \/ pc'[c] = "flow" /\ (int_bits # 0 => ~ Short)
    <3>1. PICK short \in Exceeds(seen[c], int_bits) : pc' = [pc EXCEPT ![c] = IF short THEN "grow" ELSE "flow"]
      BY <1>8, Zenon DEF CompareBits, Goto
    <3>2. pc'[c] = IF short THEN "grow" ELSE "flow"
      BY <1>0, <3>1
    <3>3. pc[c] = "compare" /\ UNCHANGED data
      BY <1>8 DEF CompareBits
    <3>4. CASE int_bits = 0
      BY <3>2, <3>3, <3>4, Zenon
    <3>5. CASE int_bits # 0
      <4>1. short = Short
        BY <3>5, Zenon DEF Exceeds
      <4> QED BY <3>2, <3>3, <4>1, Zenon
    <3> QED BY <3>4, <3>5
  <2>2. CASE pc'[c] = "grow"
    BY <2>1, <2>2 DEF WidthInv, Wide, data
  <2>3. CASE pc'[c] = "flow" /\ (int_bits # 0 => ~ Short)
    <3>1. int_bits # 0 => seen[c] <= Pow2[int_bits - 1] - 1
      <4> SUFFICES ASSUME int_bits # 0 PROVE seen[c] <= Pow2[int_bits - 1] - 1
        OBVIOUS
      <4>1. int_bits - 1 \in Nat
        BY <1>0, SMT
      <4>2. Pow2[int_bits - 1] \in Nat
        BY <4>1, Pow2Step
      <4> QED BY <1>0, <2>3, <4>2, SMT
    <3> QED BY <2>1, <2>3, <3>1 DEF WidthInv, Wide, data
  <2> QED BY <2>1, <2>2, <2>3
<1>9. CASE GrowBits(c)
  <2>1. /\ pc[c] = "grow" /\ pc'[c] = "flow" /\ int_bits' = int_bits + 1
        /\ UNCHANGED <<prev_interval_pkt, cur_interval_pkt>>
    BY <1>0, <1>9 DEF GrowBits, Goto
  <2>2. CASE prev_interval_pkt > 0
    <3>1. Wide(cur_interval_pkt - 1)
      BY <2>1, <2>2 DEF WidthInv
    <3>2. cur_interval_pkt <= Pow2[(int_bits + 1) - 1] - 1
      BY <1>0, <3>1, Wider DEF Wide
    <3> QED BY <1>0, <2>1, <3>2, SMT DEF WidthInv, Wide
  <2> QED BY <2>1, <2>2 DEF WidthInv
<1>10. CASE StoreTotal(c) \/ ZeroTotal(c)
  BY <1>0, <1>10 DEF StoreTotal, ZeroTotal, Goto, WidthInv
<1>11. CASE ResetBits(c)
  <2>1. /\ pc[c] = "reset" /\ pc'[c] \in Verdicts /\ int_bits' = MinBits
        /\ UNCHANGED <<prev_interval_pkt, cur_interval_pkt>>
    BY <1>0, <1>11 DEF ResetBits, Return, Goto, bpf_redirect_map, Verdicts
  <2>2. cur_interval_pkt = 0 /\ MinBits - 1 \in Nat
    BY <1>0, <2>1, SMT DEF WidthInv
  <2>3. 0 <= Pow2[MinBits - 1] - 1
    BY <2>2, Pow2Step, SMT
  <2> QED BY <1>0, <2>1, <2>2, <2>3 DEF WidthInv, Wide, Verdicts
<1>12. CASE Tick \/ (\E ip \in IPs : AddRule(ip)) \/ UNCHANGED vars
  BY <1>1, <1>12 DEF Tick, AddRule, vars, locals
<1> QED
  BY <1>3, <1>4, <1>5, <1>6, <1>7, <1>8, <1>9, <1>10, <1>11, <1>12 DEF Next, CpuStep, PacketStep, CloseStep

\* On a machine with one CPU int_bits covers the interval total from the first
\* close on, between any two packets: it grows by at most one bit per packet,
\* and one bit is always enough.
THEOREM WideEnough ==
  ASSUME NEW c \in CPUs, CPUs = {c}
  PROVE  Spec => []BitsCoverTotal
<1>1. Init => WidthInv(c)
  BY SMT DEF Init, WidthInv
<1>2. TypeOK /\ WidthInv(c) /\ [Next]_vars => WidthInv(c)'
  BY WidthStep
<1>3. WidthInv(c) => BitsCoverTotal
  BY DEF WidthInv, Wide, BitsCoverTotal, AllIdle, Idle, Verdicts
<1> QED
  BY <1>1, <1>2, <1>3, Typing, PTL DEF Spec
=============================================================================
