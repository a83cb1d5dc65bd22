--------------------------- MODULE MCSealedSplit ---------------------------
(* Model-checking instances of SealedSplit: the contents of a file are      *)
(* interchangeable.                                                         *)
EXTENDS SealedSplit, TLC

CONSTANTS k1, k2, p1, p2, x1, x2

Symmetric == Permutations({k1, k2}) \cup Permutations({p1, p2}) \cup Permutations({x1, x2})
=============================================================================
