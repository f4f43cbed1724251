------------------------------ MODULE Analysis ------------------------------
(***************************************************************************)
(* The traffic analysis of the fully in-kernel version with its exact      *)
(* arithmetic: what calc_entropy and detection compute when one CPU closes *)
(* an interval, on the fixed-point operators of fixed-point.h.             *)
(*                                                                         *)
(* The walks over the logger visit the flows in the order of their hash    *)
(* buckets, which is any order.  Time is left out: a close follows any     *)
(* counted packet.  Packets of one source that arrive in a row are one     *)
(* step, so that small models reach counts at which the numbers wrap.      *)
(***************************************************************************)
EXTENDS FixedPoint, FiniteSets

S == INSTANCE SequencesExt

CONSTANTS
  IPs,          \* the sources
  MaxEntries,   \* LOGGER_MAP_SIZE
  InitBits,     \* int_bits before the first interval is closed
  Bursts,       \* how many packets of one source may arrive in a row
  MaxBursts     \* bound: bursts counted

VARIABLES
  arrived,            \* bursts counted so far (bounds the model)
  flows,              \* map "logger": the logged sources and their values
  prev_interval_pkt,  \* map "data"
  cur_interval_pkt,   \* map "data"
  int_bits,           \* map "data"
  entropy_all,        \* the global of that name
  avg                 \* the global of that name

vars == <<arrived, flows, prev_interval_pkt, cur_interval_pkt, int_bits,
          entropy_all, avg>>

Init ==
  /\ arrived = 0
  /\ flows = << >>
  /\ prev_interval_pkt = 0 /\ cur_interval_pkt = 0 /\ int_bits = InitBits
  /\ entropy_all = FP(0, 0) /\ avg = FP(0, 0)

----------------------------------------------------------------------------
(***************************************************************************)
(* The computations.  check_bit changes operands in place, so an operand   *)
(* that is used again is used with the q it was raised to.                 *)
(***************************************************************************)

\* Mutation: a count of 0 is taken as it is.
Unsmoothed(n, bits) == to_fixed_point(n, bits)

\* A count in fixed point; a count of 0 is replaced by 1/10.
Smoothed(n, bits) ==
  IF n = 0
  THEN divide(to_fixed_point(1, bits), to_fixed_point(10, bits))
  ELSE to_fixed_point(n, bits)

\* Mutation: the logarithm of the frequency keeps its sign.
SignKept(a) == a

Negated(a) == [a EXCEPT !.number = - @]

\* How much a count has changed: the logarithm of the smaller one over the
\* larger one, without its sign.
Change(prev, cur) ==
  abs_val(calc_log(IF prev.number >= cur.number
                   THEN divide(cur, prev) ELSE divide(prev, cur)))

\* The information of the flow's share of the previous interval, plus how
\* much its count has changed; dividing has raised the q of prev.
Information(prev, cur, prev_invl) ==
  add(Negated(calc_log(divide(prev, prev_invl))),
      Change(check_bit(prev, prev_invl), cur))

\* The entropy of a flow.
Entropy(flow, total, bits) ==
  Information(Smoothed(flow.prev, bits), Smoothed(flow.cur, bits), to_fixed_point(total, bits))

Recorded(s, ip, entropy) ==
  [flows |-> [s.flows EXCEPT ![ip].entropy = entropy],
   all   |-> add(s.all, entropy),
   count |-> s.count + 1]

\* calc_entropy on the flow of ip: s holds the flows, entropy_all and count.
calc_entropy(s, ip) ==
  Recorded(s, ip, Entropy(s.flows[ip], prev_interval_pkt, int_bits))

\* Mutation: a flow that is analysed is deleted whatever its current count.
DetectAndDelete(s, ip) ==
  LET flow == s.flows[ip]
  IN  IF flow.entropy.number = 0
      THEN [s EXCEPT !.flows[ip].prev = flow.cur, !.flows[ip].cur = 0]
      ELSE [s EXCEPT !.flows = [x \in DOMAIN @ \ {ip} |-> @[x]],
                     !.avg = check_bit(@, flow.entropy)]

\* detection on the flow of ip: s holds the flows and avg.  The subtraction
\* aligns both operands; comparing its result with the threshold has no
\* effect, as adding the source to the blacklist is commented out.
detection(s, ip) ==
  LET flow == s.flows[ip]
      aligned == check_bit(flow.entropy, s.avg)
      shifted == [prev |-> flow.cur, cur |-> 0, entropy |-> aligned]
  IN  IF flow.entropy.number = 0
      THEN [s EXCEPT !.flows[ip].prev = flow.cur, !.flows[ip].cur = 0]
      ELSE [flows |-> IF flow.cur = 0
                      THEN [x \in DOMAIN s.flows \ {ip} |-> s.flows[x]]
                      ELSE [s.flows EXCEPT ![ip] = shifted],
            avg   |-> check_bit(s.avg, flow.entropy)]

\* The average between the two walks.
Average(walked) == divide(walked.all, to_fixed_point(walked.count, int_bits))

----------------------------------------------------------------------------
\* The growth of int_bits; for int_bits = 0 the shift is undefined and the
\* test may go either way.
Grown(n, bits) ==
  IF bits = 0 THEN {0, 1}
  ELSE {IF n > Pow2[bits - 1] - 1 THEN bits + 1 ELSE bits}

\* n packets of ip are counted, one after the other.
Packets(ip, n) ==
  LET grown[i \in Nat] ==
        IF i = 0 THEN {int_bits}
        ELSE UNION {Grown(cur_interval_pkt + i, bits) : bits \in grown[i - 1]}
  IN  /\ arrived < MaxBursts
      /\ arrived' = arrived + 1
      /\ cur_interval_pkt' = cur_interval_pkt + n
      /\ int_bits' \in grown[n]
      /\ flows' =
           IF ip \in DOMAIN flows
           THEN [flows EXCEPT ![ip].cur = @ + n]
           ELSE IF Cardinality(DOMAIN flows) < MaxEntries
                THEN [x \in DOMAIN flows \cup {ip} |->
                        IF x = ip THEN [prev |-> 0, cur |-> n, entropy |-> FP(0, 16)]
                        ELSE flows[x]]
                ELSE flows
      /\ UNCHANGED <<prev_interval_pkt, entropy_all, avg>>

\* Bound: the counts that are converted stay below the 32 bits of a number,
\* as to_fixed_point shifts by them.
MaxShift == 31

Shiftable ==
  /\ prev_interval_pkt <= MaxShift
  /\ \A ip \in DOMAIN flows : flows[ip].cur <= MaxShift

\* The interval is closed: both walks, the average between them, the shift
\* of the totals.  The packet that causes it has just been counted.
Close ==
  /\ cur_interval_pkt > 0 /\ Shiftable
  /\ \E first, second \in S!SetToSeqs(DOMAIN flows) :
     \E walked \in {S!FoldLeft(calc_entropy,
                      [flows |-> flows, all |-> entropy_all, count |-> 0], first)} :
     \E detected \in {S!FoldLeft(detection,
                        [flows |-> walked.flows, avg |-> Average(walked)], second)} :
        flows' = detected.flows /\ avg' = detected.avg
  /\ prev_interval_pkt' = cur_interval_pkt
  /\ cur_interval_pkt' = 0
  /\ int_bits' = 4
  /\ entropy_all' = FP(0, 16)
  /\ UNCHANGED arrived

Next == Close \/ \E ip \in IPs, n \in Bursts : Packets(ip, n)

Spec == Init /\ [][Next]_vars

----------------------------------------------------------------------------
(***************************************************************************)
(* Properties                                                              *)
(***************************************************************************)

\* What InKernel assumes of the arithmetic, and FlowLog of a close: a source
\* without packets in the previous interval gets entropy 0 and is not
\* deleted, whatever its current count and the total.
NewFlowsStay ==
  [][Close => \A ip \in DOMAIN flows :
       flows[ip].prev = 0 =>
         ip \in DOMAIN flows' /\ flows'[ip].entropy.number = 0]_vars

\* Closing shifts the count of every flow it keeps and deletes no flow that
\* had packets in the interval.
CountsShift ==
  [][Close => \A ip \in DOMAIN flows :
       IF ip \in DOMAIN flows'
       THEN flows'[ip].prev = flows[ip].cur /\ flows'[ip].cur = 0
       ELSE flows[ip].cur = 0]_vars

\* to_fixed_point(n, int_bits), the number int_bits << n, does not wrap.
Fits(n) == n < MaxShift /\ int_bits <= MaxInt \div Pow2[n]

\* What calc_entropy computes for a flow is not negative as long as the
\* previous total and the flow's count do not wrap when they are converted
\* with the current int_bits: the flow's share of the previous interval is
\* then at most 1.  Where they wrap, it may be negative.
EntropyNotNegative ==
  \A ip \in DOMAIN flows :
    Fits(prev_interval_pkt) /\ Fits(flows[ip].cur) =>
      Entropy(flows[ip], prev_interval_pkt, int_bits).number >= 0

\* A flow without packets in the interval being closed is deleted, so every
\* logged flow has packets in the previous or in the current interval.
SilentForgotten ==
  \A ip \in DOMAIN flows : flows[ip].prev > 0 \/ flows[ip].cur > 0
=============================================================================
