-------------------------- MODULE MCRetentionGate --------------------------
(* Small instances of RetentionGate. *)
EXTENDS RetentionGate, TLC

CONSTANTS o1, o2, o3, a

ThreeIds == {o1, o2, o3}
OneToken == {a}
EveryPolicy == PolicyKinds

Sym == Permutations(ThreeIds)
=============================================================================
