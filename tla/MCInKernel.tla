----------------------------- MODULE MCInKernel -----------------------------
(***************************************************************************)
(* Instances of InKernel for TLC.                                          *)
(***************************************************************************)
EXTENDS Accounting, TLC

\* CPUs, sources and elements are interchangeable.
Symmetry == Permutations(CPUs) \cup Permutations(IPs \ Blockable) \cup Permutations(Elems)
=============================================================================
