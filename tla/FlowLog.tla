------------------------------ MODULE FlowLog -------------------------------
(***************************************************************************)
(* What the in-kernel program promises: a log of the packets of each       *)
(* source in the current and in the previous interval, brought up to date  *)
(* by each counted packet in one step.  A packet that arrives more than    *)
(* Interval after the interval began is the last one of it: the counts are *)
(* shifted, and sources without packets may be forgotten.                  *)
(***************************************************************************)
EXTENDS Integers, FiniteSets

CONSTANTS
  IPs,          \* the sources
  MaxEntries,   \* how many of them the log holds
  Interval,     \* the minimal length of an interval
  Times         \* the instants at which packets arrive

VARIABLES
  flows,        \* the logged sources and their counts
  total,        \* the counts of all packets
  start,        \* when the current interval began; 0 before the first one
  at            \* when the last counted packet arrived

vars == <<flows, total, start, at>>

\* A log is a function from the sources it holds to their counts.
Counts == [prev : Nat, cur : Nat]

Init ==
  /\ flows = << >>
  /\ total = [prev |-> 0, cur |-> 0]
  /\ start = 0
  /\ at = 0

\* The log with one more packet of ip; a new source needs a free entry.
Logged(ip) ==
  IF ip \in DOMAIN flows
  THEN [flows EXCEPT ![ip].cur = @ + 1]
  ELSE IF Cardinality(DOMAIN flows) < MaxEntries
       THEN [x \in DOMAIN flows \cup {ip} |->
               IF x = ip THEN [prev |-> 0, cur |-> 1] ELSE flows[x]]
       ELSE flows

Shift(counts) == [prev |-> counts.cur, cur |-> 0]

\* Sources that may be forgotten when the interval is closed.
Silent(log) == {ip \in DOMAIN log : log[ip].cur = 0 /\ log[ip].prev # 0}

Counted == [total EXCEPT !.cur = @ + 1]

\* A packet within the current interval.
Count(ip, t) ==
  /\ t <= start + Interval
  /\ flows' = Logged(ip)
  /\ total' = Counted
  /\ UNCHANGED start

\* The first packet late enough starts the first interval.
Start(ip, t) ==
  /\ start = 0
  /\ t > Interval
  /\ flows' = Logged(ip)
  /\ total' = Counted
  /\ start' = t

\* A packet that closes the interval.
Close(ip, t) ==
  /\ start # 0
  /\ t > start + Interval
  /\ LET log == Logged(ip)
     IN  \E gone \in SUBSET Silent(log) :
            flows' = [x \in DOMAIN log \ gone |-> Shift(log[x])]
  /\ total' = Shift(Counted)
  /\ start' = t

Next ==
  \E ip \in IPs, t \in Times :
    /\ t >= at
    /\ at' = t
    /\ Count(ip, t) \/ Start(ip, t) \/ Close(ip, t)

Spec == Init /\ [][Next]_vars
=============================================================================
