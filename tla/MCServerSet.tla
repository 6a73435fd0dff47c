--------------------------- MODULE MCServerSet ---------------------------
(* Finite instances of ServerSet for TLC.                                   *)
EXTENDS ServerSetInv, TLC

\* Images, sizes and core counts are only ever compared for equality.
Symmetry == Permutations(Images) \cup Permutations(Sizes) \cup Permutations(Cores)
=============================================================================
