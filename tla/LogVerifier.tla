---------------------------- MODULE LogVerifier ----------------------------
(***************************************************************************)
(* What the verifier of the log reports of a log that EventLog can reach    *)
(* (src/scripts/verify_memory_integrity.py verify), by five of its rules:   *)
(* invalid-json, duplicate-id, dangling-supersedes, forward-supersedes and  *)
(* self-supersedes.  The verifier takes no lock.                            *)
(*                                                                          *)
(* Three rules that are not here report logs without a torn write, too:     *)
(* dangling-related-id (add stores related_ids as they are given),          *)
(* missing-provenance (add takes a finding or a failure without a source)   *)
(* and non-monotonic-time (an event is dated before it waits for the lock). *)
(* The others are about the fields of one event.                            *)
(***************************************************************************)
EXTENDS EventLog

(* Unlike load_events it also reports what is after the last newline.       *)
VerifiedLines ==
  IF tail = <<>> THEN lines
  ELSE IF TailEvents # <<>> THEN lines \o TailEvents
  ELSE Append(lines, Malformed)

IsEvent(k) == VerifiedLines[k] # Malformed

(* seen_ids: an id is where it was used first.                              *)
UsedBefore(id, k) == \E i \in 1 .. (k - 1) : IsEvent(i) /\ VerifiedLines[i].id = id
Used(id) == UsedBefore(id, Len(VerifiedLines) + 1)

(* The lines that break one of the five rules.                              *)
Blamed(rule) ==
  {k \in DOMAIN VerifiedLines :
     LET e == VerifiedLines[k] IN
     CASE rule = "invalid-json" -> ~IsEvent(k)
       [] rule = "duplicate-id" -> IsEvent(k) /\ UsedBefore(e.id, k)
       [] rule = "dangling-supersedes" -> IsEvent(k) /\ e.supersedes # NoId /\ ~Used(e.supersedes)
       [] rule = "forward-supersedes" ->
            IsEvent(k) /\ e.supersedes # NoId /\ Used(e.supersedes) /\ ~UsedBefore(e.supersedes, k)
       [] rule = "self-supersedes" ->
            IsEvent(k) /\ UsedBefore(e.supersedes, k) /\ e.supersedes = e.id}

(* Whatever writers do, stopped and failed writes included, what these five *)
(* rules report comes of torn writes: no id is used twice, no supersedes    *)
(* points forward or to its own event, and there are no more unreadable     *)
(* lines between writes, nor targets that are missing, than writes that     *)
(* stopped part way.                                                        *)
VerifierBlamesTears ==
  Legible =>
    /\ \A rule \in {"duplicate-id", "forward-supersedes", "self-supersedes"} : Blamed(rule) = {}
    /\ LockIsFree => Cardinality(Blamed("invalid-json")) <= tears
    /\ Cardinality({VerifiedLines[k].supersedes : k \in Blamed("dangling-supersedes")}) <= tears
=============================================================================
