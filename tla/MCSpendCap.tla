----------------------------- MODULE MCSpendCap -----------------------------
(* Small instances of SpendCap. *)
EXTENDS SpendCap, TLC

CONSTANTS proxy, client, w1, w2, w3

OneProc == {proxy}
TwoProcs == {proxy, client}
TwoWorkers == {w1, w2}
ThreeWorkers == {w1, w2, w3}

BothInProxy == [w \in TwoWorkers |-> proxy]
TwoAndOne == [w \in ThreeWorkers |-> IF w = w3 THEN client ELSE proxy]

SteadyCosts == {2, 3}
OneCost == {2}

NoFaults == {}
AnyFault == FaultKinds
=============================================================================
