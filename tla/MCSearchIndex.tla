--------------------------- MODULE MCSearchIndex ---------------------------
(* Small instances of SearchIndex. *)
EXTENDS SearchIndex, TLC

CONSTANTS p1, p2, p3

TwoProcs == {p1, p2}
ThreeProcs == {p1, p2, p3}
Sym2 == Permutations(TwoProcs)
Sym3 == Permutations(ThreeProcs)
=============================================================================
