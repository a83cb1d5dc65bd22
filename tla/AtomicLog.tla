----------------------------- MODULE AtomicLog -----------------------------
(***************************************************************************)
(* What memory/events.jsonl promises: a log that only grows at its end, by *)
(* one whole event that is not in it yet, or by one unreadable line.       *)
(* memory/SCHEMA.md states it ("The canonical log may never be rewritten");*)
(* EventLog shows that MemoryStore keeps it.                               *)
(***************************************************************************)
EXTENDS Naturals, Sequences

CONSTANTS Ids, NoId, Malformed, Undecodable

VARIABLES log

Logged == {log[i] : i \in DOMAIN log} \ {Malformed, Undecodable}

Init == log = <<>>

AppendEvent(id, target) ==
  /\ \A e \in Logged : e.id # id
  /\ log' = Append(log, [id |-> id, supersedes |-> target])

AppendUnreadable == \E line \in {Malformed, Undecodable} : log' = Append(log, line)

Next ==
  \/ \E id \in Ids, target \in Ids \cup {NoId} : AppendEvent(id, target)
  \/ AppendUnreadable

Spec == Init /\ [][Next]_log
=============================================================================
