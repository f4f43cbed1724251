---------------------------- MODULE MCUserSpace -----------------------------
(***************************************************************************)
(* Instances of UserSpace for TLC.                                         *)
(***************************************************************************)
EXTENDS UserSpace, TLC

\* The elements are interchangeable, and so are the sources but for 0.0.0.0.
Symmetry == Permutations(Elems) \cup Permutations(Sources \ {Zero})
=============================================================================
