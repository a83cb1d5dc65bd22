----------------------------- MODULE MCEventLog -----------------------------
(* Small instances of EventLog. *)
EXTENDS LogVerifier, TLC

CONSTANTS w1, w2, i1, i2, i3, i4

TwoWriters == {w1, w2}
ThreeIds == {i1, i2, i3}
FourIds == {i1, i2, i3, i4}
SplitCut == {"split"}
AsciiCut == {"part", "whole"}

Sym24 == Permutations(TwoWriters) \cup Permutations(FourIds)
=============================================================================
