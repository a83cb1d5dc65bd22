----------------------------- MODULE MCFileLock -----------------------------
(* Small instances of FileLock: two processes on one host, and one on a     *)
(* second host that shares the directory.                                   *)
EXTENDS FileLock

CONSTANTS p1, p2, p3

ThreeProcs == {p1, p2, p3}
TwoHosts == [p \in ThreeProcs |-> IF p = p3 THEN "b" ELSE "a"]

AllFaults == FaultKinds
=============================================================================
