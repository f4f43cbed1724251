----------------------------- MODULE Accounting -----------------------------
(***************************************************************************)
(* What the counters of the in-kernel program mean: the properties of      *)
(* InKernel that add up packets over the flows of the logger.              *)
(***************************************************************************)
EXTENDS InKernel, Functions

AllIdle == \A c \in CPUs : Idle(c)

PrevSum == SumFunctionOnSet([ip \in Flows |-> elem[logger[ip]].prev], Flows)
CurSum  == SumFunctionOnSet([ip \in Flows |-> elem[logger[ip]].cur], Flows)

\* However CPUs interleave, no packet is counted twice: what the interval
\* totals, or the flows, hold for the two intervals together never exceeds
\* the packets received (the shift of cur into prev always zeroes cur after
\* the load, also when two closes overlap).
NoDoubleCount ==
  AllIdle =>
    /\ prev_interval_pkt + cur_interval_pkt <= arrived
    /\ PrevSum + CurSum <= arrived

\* No packet is lost by closing an interval: a counter that is about to be
\* zeroed has been copied to its previous value, and a flow that is about to
\* be deleted has no packets.
NothingDropped ==
  \A c \in CPUs :
    /\ pc[c] = "zeroTotal" => cur_interval_pkt = prev_interval_pkt
    /\ pc[c] = "zeroFlow" => elem[value[c]].cur = elem[value[c]].prev
    /\ pc[c] = "delete" => elem[value[c]].cur = 0

\* The flows never account for more packets than the interval totals, so
\* the relative frequencies prev / prev_interval_pkt that calc_entropy takes
\* the logarithm of are at most 1.
FlowsWithinTotal ==
  AllIdle => PrevSum <= prev_interval_pkt /\ CurSum <= cur_interval_pkt

\* From the first close on (a close leaves prev_interval_pkt positive, its
\* own packet is counted) int_bits is wide enough for the interval total,
\* though it grows by at most one bit per packet and is reset by each close.
BitsCoverTotal ==
  AllIdle /\ prev_interval_pkt > 0 => cur_interval_pkt <= Pow2[int_bits - 1] - 1

\* A packet is counted in the element of its own source.
CountedUnderSource ==
  \A c \in CPUs : pc[c] = "hit" => elem[value[c]].key = key[c]
=============================================================================
