---------------------------- MODULE FlowLogProofs ----------------------------
(***************************************************************************)
(* A theorem about FlowLog: the sources never account for more packets     *)
(* than the totals.                                                        *)
(***************************************************************************)
EXTENDS FlowLog, BasicTheorems

PrevOf(log) == SumFunctionOnSet([ip \in DOMAIN log |-> log[ip].prev], DOMAIN log)
CurOf(log)  == SumFunctionOnSet([ip \in DOMAIN log |-> log[ip].cur], DOMAIN log)

\* A log of some of the sources.
IsLog(log) ==
  /\ DOMAIN log \subseteq IPs
  /\ \A ip \in DOMAIN log : log[ip] \in Counts

\* The packets of all logged sources are among all packets, in both intervals.
Within ==
  /\ IsLog(flows)
  /\ total \in Counts
  /\ PrevOf(flows) <= total.prev
  /\ CurOf(flows) <= total.cur

\* The sums of a log are natural numbers.
LEMMA LogSums ==
  ASSUME IsFiniteSet(IPs), NEW log, IsLog(log)
  PROVE  IsFiniteSet(DOMAIN log) /\ PrevOf(log) \in Nat /\ CurOf(log) \in Nat
<1>1. IsFiniteSet(DOMAIN log)
  BY FS_Subset DEF IsLog
<1>2. \A ip \in DOMAIN log : log[ip].prev \in Nat /\ log[ip].cur \in Nat
  BY DEF IsLog, Counts
<1> DEFINE p == [ip \in DOMAIN log |-> log[ip].prev]
           q == [ip \in DOMAIN log |-> log[ip].cur]
<1>3. \A ip \in DOMAIN log : p[ip] \in Nat /\ q[ip] \in Nat
  BY <1>2
<1> HIDE DEF p, q
<1>4. SumFunctionOnSet(p, DOMAIN log) \in Nat /\ SumFunctionOnSet(q, DOMAIN log) \in Nat
  BY <1>1, <1>3, SumNat
<1> QED BY <1>1, <1>4 DEF p, q, PrevOf, CurOf

\* Logging a packet adds at most one to the current counts.
LEMMA LoggedSums ==
  ASSUME IsFiniteSet(IPs), IsLog(flows), NEW ip \in IPs
  PROVE  /\ IsLog(Logged(ip))
         /\ PrevOf(Logged(ip)) = PrevOf(flows)
         /\ CurOf(Logged(ip)) <= CurOf(flows) + 1
<1> DEFINE D == DOMAIN flows
           L == Logged(ip)
           p == [x \in D |-> flows[x].prev]
           q == [x \in D |-> flows[x].cur]
           pp == [x \in DOMAIN L |-> L[x].prev]
           qq == [x \in DOMAIN L |-> L[x].cur]
<1>1. IsFiniteSet(D) /\ PrevOf(flows) \in Nat /\ CurOf(flows) \in Nat
  BY LogSums
<1>2. \A x \in D : flows[x] \in Counts /\ p[x] \in Nat /\ q[x] \in Nat
  BY DEF IsLog, Counts
<1>3. CASE ip \in D
  <2>1. L = [flows EXCEPT ![ip].cur = @ + 1] /\ DOMAIN L = D
    BY <1>3 DEF Logged
  <2>2. /\ L[ip].prev = flows[ip].prev /\ L[ip].cur = flows[ip].cur + 1 /\ L[ip] \in Counts
        /\ \A x \in D \ {ip} : L[x] = flows[x]
    BY <1>2, <1>3, <2>1 DEF Counts
  <2>3. IsLog(L)
    <3>1. D \subseteq IPs BY DEF IsLog
    <3>2. \A x \in D : L[x] \in Counts BY <1>2, <2>2
    <3> HIDE DEF L
    <3> QED BY <2>1, <3>1, <3>2 DEF IsLog
  <2> HIDE DEF L
  <2>4. \A x \in D : pp[x] = p[x] /\ (x # ip => qq[x] = q[x]) /\ pp[x] \in Nat /\ qq[x] \in Nat
    BY <1>2, <2>1, <2>2
  <2>5. qq[ip] = q[ip] + 1 /\ q[ip] \in Nat
    BY <1>2, <1>3, <2>1, <2>2
  <2> HIDE DEF p, q, pp, qq
  <2>6. SumFunctionOnSet(pp, D) = SumFunctionOnSet(p, D)
    BY <1>1, <2>4, SumSame
  <2>7. SumFunctionOnSet(qq, D) - qq[ip] = SumFunctionOnSet(q, D) - q[ip]
    BY <1>1, <1>2, <1>3, <2>4, SumChange
  <2>8. SumFunctionOnSet(q, D) \in Nat /\ SumFunctionOnSet(qq, D) \in Nat
    BY <1>1, <1>2, <2>4, SumNat
  <2>9. SumFunctionOnSet(qq, D) <= SumFunctionOnSet(q, D) + 1
    BY <2>5, <2>7, <2>8
  <2>10. SumFunctionOnSet(pp, DOMAIN L) = SumFunctionOnSet(p, D)
         /\ SumFunctionOnSet(qq, DOMAIN L) <= SumFunctionOnSet(q, D) + 1
    BY <2>1, <2>6, <2>9
  <2> QED BY <2>3, <2>10 DEF PrevOf, CurOf, p, q, pp, qq, L
<1>4. CASE ip \notin D /\ Cardinality(D) < MaxEntries
  <2>1. DOMAIN L = D \cup {ip} /\ L[ip] = [prev |-> 0, cur |-> 1] /\ \A x \in D : L[x] = flows[x]
    BY <1>4 DEF Logged
  <2>2. IsLog(L)
    <3>1. D \subseteq IPs BY DEF IsLog
    <3>2. \A x \in D \cup {ip} : L[x] \in Counts BY <1>2, <2>1 DEF Counts
    <3> HIDE DEF L
    <3> QED BY <2>1, <3>1, <3>2 DEF IsLog
  <2> HIDE DEF L
  <2>3. /\ \A x \in D : pp[x] = p[x] /\ qq[x] = q[x]
        /\ pp[ip] = 0 /\ qq[ip] = 1
    BY <2>1
  <2>4. \A x \in DOMAIN L : pp[x] \in Nat /\ qq[x] \in Nat
    BY <1>2, <2>1, <2>3
  <2>5. IsFiniteSet(DOMAIN L) /\ ip \in DOMAIN L /\ DOMAIN L \ {ip} = D
    BY <1>1, <1>4, <2>1, FS_AddElement
  <2> HIDE DEF p, q, pp, qq
  <2>6. SumFunctionOnSet(pp, D) = SumFunctionOnSet(p, D) /\ SumFunctionOnSet(qq, D) = SumFunctionOnSet(q, D)
    BY <1>1, <2>3, SumSame
  <2>7. SumFunctionOnSet(p, D) \in Nat /\ SumFunctionOnSet(q, D) \in Nat
    BY <1>1, <1>2, SumNat
  <2>8. /\ SumFunctionOnSet(pp, DOMAIN L) = pp[ip] + SumFunctionOnSet(pp, D)
        /\ SumFunctionOnSet(qq, DOMAIN L) = qq[ip] + SumFunctionOnSet(qq, D)
    BY <2>4, <2>5, SumRemove
  <2>9. SumFunctionOnSet(pp, DOMAIN L) = SumFunctionOnSet(p, D)
        /\ SumFunctionOnSet(qq, DOMAIN L) <= SumFunctionOnSet(q, D) + 1
    BY <2>3, <2>6, <2>7, <2>8
  <2> QED BY <2>2, <2>9 DEF PrevOf, CurOf, p, q, pp, qq, L
<1>5. CASE ip \notin D /\ ~ Cardinality(D) < MaxEntries
  BY <1>1, <1>5 DEF Logged
<1> QED BY <1>3, <1>4, <1>5

\* Closing an interval makes the current counts previous ones.
LEMMA ShiftedSums ==
  ASSUME IsFiniteSet(IPs), NEW log, IsLog(log), NEW gone, NEW new,
         new = [x \in DOMAIN log \ gone |-> Shift(log[x])]
  PROVE  IsLog(new) /\ PrevOf(new) <= CurOf(log) /\ CurOf(new) = 0
<1> DEFINE D == DOMAIN log \ gone
           q == [x \in DOMAIN log |-> log[x].cur]
           pp == [x \in D |-> new[x].prev]
           qq == [x \in D |-> new[x].cur]
           h == [x \in D |-> x]
<1>1. IsFiniteSet(DOMAIN log) /\ IsFiniteSet(D)
  BY LogSums, FS_Difference
<1>2. DOMAIN new = D /\ D \subseteq IPs /\ D \subseteq DOMAIN log
  BY DEF IsLog
<1>3. \A x \in D : new[x] = Shift(log[x]) /\ log[x] \in Counts
  BY DEF IsLog
<1>4. \A x \in D : new[x] \in Counts /\ new[x].prev = log[x].cur /\ new[x].cur = 0
  BY <1>3 DEF Shift, Counts
<1>5. IsLog(new)
  BY <1>2, <1>4 DEF IsLog
<1>6. SumFunctionOnSet(qq, D) = 0
  <2>1. \A x \in D : qq[x] = 0 BY <1>4
  <2> HIDE DEF qq
  <2> QED BY <1>1, <2>1, SumZero
<1>7. SumFunctionOnSet(pp, D) <= SumFunctionOnSet(q, DOMAIN log)
  <2>1. \A x \in DOMAIN log : q[x] \in Nat BY DEF IsLog, Counts
  <2>2. h \in [D -> DOMAIN log] /\ \A x, y \in D : h[x] = h[y] => x = y BY <1>2
  <2>3. \A x \in D : pp[x] \in Nat /\ pp[x] <= q[h[x]]
    <3>1. ASSUME NEW x \in D PROVE pp[x] = q[x] /\ h[x] = x /\ x \in DOMAIN log
      BY <1>2, <1>4
    <3> HIDE DEF pp, q, h
    <3> QED BY <2>1, <3>1
  <2> HIDE DEF pp, q, h, D
  <2> QED BY <1>1, <2>1, <2>2, <2>3, SumCovered
<1> QED BY <1>2, <1>5, <1>6, <1>7 DEF PrevOf, CurOf

\* Every step keeps the sums within the totals.
LEMMA WithinStep ==
  ASSUME IsFiniteSet(IPs), Within, [Next]_vars
  PROVE  Within'
<1>1. CASE UNCHANGED vars
  BY <1>1 DEF vars, Within, IsLog, PrevOf, CurOf
<1>2. /\ IsLog(flows) /\ total.prev \in Nat /\ total.cur \in Nat
      /\ PrevOf(flows) \in Nat /\ CurOf(flows) \in Nat
      /\ PrevOf(flows) <= total.prev /\ CurOf(flows) <= total.cur
  BY LogSums DEF Within, Counts
<1>3. ASSUME NEW ip \in IPs, NEW t \in Times, Count(ip, t) \/ Start(ip, t) \/ Close(ip, t)
      PROVE  Within'
  <2>1. /\ IsLog(Logged(ip))
        /\ PrevOf(Logged(ip)) = PrevOf(flows)
        /\ CurOf(Logged(ip)) <= CurOf(flows) + 1
    BY <1>2, LoggedSums
  <2>2. CurOf(Logged(ip)) \in Nat
    BY <2>1, LogSums
  <2>3. Counted.prev = total.prev /\ Counted.cur = total.cur + 1 /\ Counted \in Counts
    BY DEF Counted, Within, Counts
  <2>4. CASE Count(ip, t) \/ Start(ip, t)
    <3>1. flows' = Logged(ip) /\ total' = Counted
      BY <2>4 DEF Count, Start
    <3>2. PrevOf(Logged(ip)) <= Counted.prev /\ CurOf(Logged(ip)) <= Counted.cur
      BY <1>2, <2>1, <2>2, <2>3
    <3> QED BY <2>1, <2>3, <3>1, <3>2 DEF Within, IsLog, PrevOf, CurOf
  <2>5. CASE Close(ip, t)
    <3>1. PICK gone : flows' = [x \in DOMAIN Logged(ip) \ gone |-> Shift(Logged(ip)[x])]
      BY <2>5 DEF Close
    <3>2. IsLog(flows') /\ PrevOf(flows') <= CurOf(Logged(ip)) /\ CurOf(flows') = 0
      BY <2>1, <3>1, ShiftedSums
    <3>3. total' = Shift(Counted)
      BY <2>5 DEF Close
    <3>4. total' \in Counts /\ total'.prev = total.cur + 1 /\ total'.cur = 0
      BY <2>3, <3>3 DEF Shift, Counts
    <3>5. PrevOf(flows') \in Nat
      BY <3>2, LogSums
    <3>6. PrevOf(flows') <= total'.prev /\ CurOf(flows') <= total'.cur
      BY <1>2, <2>1, <2>2, <3>2, <3>4, <3>5
    <3> QED BY <3>2, <3>4, <3>6 DEF Within, IsLog, PrevOf, CurOf
  <2> QED BY <1>3, <2>4, <2>5
<1> QED BY <1>1, <1>3 DEF Next

\* In every reachable log the packets of the logged sources are among the
\* packets of all, in the current and in the previous interval, though
\* sources that find the log full are counted in the totals only.
THEOREM LogWithinTotals ==
  ASSUME IsFiniteSet(IPs)
  PROVE  Spec => []Within
<1>1. Init => Within
  <2> SUFFICES ASSUME Init PROVE Within
    OBVIOUS
  <2>1. DOMAIN flows = {}
    BY DEF Init
  <2>2. PrevOf(flows) = 0 /\ CurOf(flows) = 0
    BY <2>1, SumEmpty DEF PrevOf, CurOf
  <2> QED BY <2>1, <2>2 DEF Init, Within, IsLog, Counts
<1>2. Within /\ [Next]_vars => Within'
  BY WithinStep
<1> QED BY <1>1, <1>2, PTL DEF Spec
=============================================================================
