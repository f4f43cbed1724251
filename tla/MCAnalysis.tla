----------------------------- MODULE MCAnalysis -----------------------------
(***************************************************************************)
(* Instances of Analysis for TLC.                                          *)
(***************************************************************************)
EXTENDS Analysis, TLC

\* Sources are interchangeable.
Symmetry == Permutations(IPs)
=============================================================================
