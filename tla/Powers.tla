------------------------------- MODULE Powers -------------------------------
(***************************************************************************)
(* Powers of 2, for what the program computes with shifts.                 *)
(***************************************************************************)
EXTENDS Integers

\* 1 << n
Pow2[n \in Nat] == IF n = 0 THEN 1 ELSE 2 * Pow2[n - 1]
=============================================================================
