--------------------------- MODULE MCMemoryKernel ---------------------------
(* Small instances of MemoryKernel. *)
EXTENDS MemoryKernel, TLC

CONSTANTS k1, k2, k3, w

ThreeIds == {k1, k2, k3}
OneStem == {w}

(* Every item of two instants; of what comes later and of what has no date, *)
(* only that it is there tells.                                             *)
EveryItem ==
  {it \in [id : ThreeIds, key : {1, 2}, origin : {"account", "fiction"}, stems : SUBSET OneStem,
           names : SUBSET OneStem, supersedes : ThreeIds \cup {None}] : it.names \subseteq it.stems}
  \cup [id : ThreeIds, key : {3, NoDate}, origin : {"account"}, stems : {OneStem}, names : {{}}, supersedes : {None}]

Sym == Permutations(ThreeIds)
=============================================================================
