----------------------------- MODULE SingleCpu ------------------------------
(***************************************************************************)
(* On one CPU the in-kernel program implements FlowLog: although the       *)
(* handling of a packet takes many accesses to the maps, what the maps     *)
(* hold after each packet is what one step of the log gives.               *)
(***************************************************************************)
EXTENDS Accounting

\* A history variable: the log after the last packet that was counted.
VARIABLE pre

\* The contents of the maps as a log.
Log ==
  [flows |-> [ip \in Flows |->
                [prev |-> elem[logger[ip]].prev, cur |-> elem[logger[ip]].cur]],
   total |-> [prev |-> prev_interval_pkt, cur |-> cur_interval_pkt],
   start |-> timestamp]

\* The time stamp of the packet being handled.
Arrival == SumFunctionOnSet(ts, CPUs)

LogInit ==
  /\ Init
  /\ pre = [log |-> Log, at |-> 0]

LogNext ==
  /\ Next
  /\ pre' = IF AllIdle' /\ ~ AllIdle /\ \A c \in CPUs : pc'[c] # "XDP_DROP"
            THEN [log |-> Log', at |-> Arrival]
            ELSE pre

LogSpec == LogInit /\ [][LogNext]_<<vars, pre>>

Abstract ==
  INSTANCE FlowLog WITH
    flows <- pre.log.flows,
    total <- pre.log.total,
    start <- pre.log.start,
    at    <- pre.at,
    Times <- 0 .. MaxNow

\* The one-CPU program implements the log: each counted packet changes the
\* counts, the totals and the stamp as one step of FlowLog, an interval is
\* closed exactly when it is due, and only silent sources are forgotten.
ImplementsFlowLog == Abstract!Spec
=============================================================================
