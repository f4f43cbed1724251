---------------------------- MODULE MCSingleCpu -----------------------------
(***************************************************************************)
(* Instances of SingleCpu for TLC.                                         *)
(***************************************************************************)
EXTENDS SingleCpu, TLC

\* Sources and elements are interchangeable.
Symmetry == Permutations(IPs \ Blockable) \cup Permutations(Elems)
=============================================================================
