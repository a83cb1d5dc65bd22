------------------------------ MODULE EventLog ------------------------------
(***************************************************************************)
(* memory/events.jsonl and the writers that append to it                   *)
(* (src/tools/project_memory/memory_store.py: add, supersede, _append,     *)
(* load_events, current_records, get).                                     *)
(*                                                                         *)
(* The file is a sequence of terminated lines and an unterminated tail.    *)
(* A write puts bytes at the end of the file and may stop part way: killed *)
(* or out of space.  Nobody repairs the tail, so what is written next lands*)
(* on the same line.  The events lock is taken as exclusive here and as    *)
(* recovered from dead holders: FileLock says when that is so.             *)
(***************************************************************************)
EXTENDS Naturals, Sequences, FiniteSets

CONSTANTS
  Writers,    \* calls of add / supersede that may be in progress at once
  Ids,        \* the ids _new_id can draw; never the same twice
  NoId,       \* "supersedes": null
  Malformed,  \* a line load_events rejects and passes over
  Undecodable,\* a line that is not UTF-8: iterating over the file raises
  Cuts        \* how far a write may be when it is seen or stopped; see CutKinds

(* "part": some bytes are in the file, not yet valid JSON;                  *)
(* "split": the same, and the last of them is part of a character (events   *)
(* are written with ensure_ascii=False);                                    *)
(* "whole": all but the newline, which load_events accepts at the end.      *)
CutKinds == {"part", "split", "whole"}

Event == [id : Ids, supersedes : Ids \cup {NoId}]

ASSUME LogAssumption ==
  /\ NoId \notin Ids
  /\ {Malformed, Undecodable} \cap Event = {} /\ Malformed # Undecodable
  /\ Cuts \subseteq CutKinds

VARIABLES
  lines,   \* the terminated lines of events.jsonl
  tail,    \* the pieces written after the last newline
  pc,      \* where each writer is
  draft,   \* the event each writer is about to append
  issued,  \* history: ids drawn so far
  acked,   \* history: ids whose add or supersede returned to the caller
  tears    \* history: how many writes stopped part way

vars == <<lines, tail, pc, draft, issued, acked, tears>>

Labels == {"idle", "lock", "write", "finish", "index", "dead"}
Critical == {"write", "finish"}

NoDraft == [id |-> NoId, supersedes |-> NoId]

TypeOK ==
  /\ lines \in Seq(Event \cup {Malformed, Undecodable})
  /\ tail \in Seq([event : Event, cut : CutKinds])
  /\ pc \in [Writers -> Labels]
  /\ draft \in [Writers -> Event \cup {NoDraft}]
  /\ issued \subseteq Ids
  /\ acked \subseteq Ids
  /\ tears \in Nat

Init ==
  /\ lines = <<>>
  /\ tail = <<>>
  /\ pc = [w \in Writers |-> "idle"]
  /\ draft = [w \in Writers |-> NoDraft]
  /\ issued = {}
  /\ acked = {}
  /\ tears = 0

Goto(w, label) == pc' = [pc EXCEPT ![w] = label]

-----------------------------------------------------------------------------
(* load_events, current_records *)

(* The last line may be unterminated; it is an event when it is one whole   *)
(* JSON object.                                                             *)
TailEvents == IF Len(tail) = 1 /\ tail[1].cut = "whole" THEN <<tail[1].event>> ELSE <<>>

(* What a reader sees, unreadable lines in their places.                    *)
Log == lines \o TailEvents

Events(log) == {log[i] : i \in DOMAIN log} \ {Malformed, Undecodable}

(* load_events decodes as it iterates, outside its try: one half character  *)
(* anywhere and every reader raises UnicodeDecodeError.                     *)
Legible ==
  /\ \A i \in DOMAIN lines : lines[i] # Undecodable
  /\ \A i \in DOMAIN tail : tail[i].cut # "split"

Readable == IF Legible THEN Events(Log) ELSE {}
Records == {e.id : e \in Readable}
Superseded == {e.supersedes : e \in Readable} \ {NoId}

(* Mutants: a superseded target passes; an unknown target passes.           *)
IsActiveKnown(id) == id \in Records
IsActiveUnknown(id) == id \notin Superseded

IsActive(id) == id \in Records /\ id \notin Superseded

-----------------------------------------------------------------------------
(* add and supersede up to the lock: _new_id is called here.                *)
Prepare(w, id, target) ==
  /\ pc[w] = "idle"
  /\ id \notin issued
  /\ draft' = [draft EXCEPT ![w] = [id |-> id, supersedes |-> target]]
  /\ issued' = issued \cup {id}
  /\ Goto(w, "lock")
  /\ UNCHANGED <<lines, tail, acked, tears>>

Add(w, id) == Prepare(w, id, NoId)

(* The target is looked up before the lock is taken: an unknown or already  *)
(* superseded id raises MemoryError, and nothing has happened.              *)
Supersede(w, id, target) ==
  /\ IsActive(target)
  /\ Prepare(w, id, target)

(* _exclusive_lock *)
LockIsFree == \A v \in Writers : pc[v] \notin Critical

Acquire(w) ==
  /\ pc[w] = "lock"
  /\ LockIsFree
  /\ Goto(w, "write")
  /\ UNCHANGED <<lines, tail, draft, issued, acked, tears>>

(* Mutant: a busy lock is reported as success.                              *)
LockBusySilent(w) ==
  /\ pc[w] = "lock"
  /\ acked' = acked \cup {draft[w].id}
  /\ Goto(w, "idle")
  /\ UNCHANGED <<lines, tail, draft, issued, tears>>

(* "memory lock is busy", behind another writer or an orphan that may not be*)
(* broken yet: the call raises with nothing written.                        *)
LockBusy(w) ==
  /\ pc[w] = "lock"
  /\ Goto(w, "idle")
  /\ UNCHANGED <<lines, tail, draft, issued, acked, tears>>

(* handle.write + flush, up to the cut ...                                  *)
WriteBegins(w) ==
  /\ pc[w] = "write"
  /\ \E cut \in Cuts : tail' = Append(tail, [event |-> draft[w], cut |-> cut])
  /\ Goto(w, "finish")
  /\ UNCHANGED <<lines, draft, issued, acked, tears>>

(* The line is an event only if this write alone filled it.                 *)
Line(w) ==
  IF Len(tail) = 1 THEN draft[w]
  ELSE IF \E i \in 1 .. (Len(tail) - 1) : tail[i].cut = "split" THEN Undecodable
  ELSE Malformed

(* Mutant: the log is opened with "w" instead of "a".                       *)
WriteEndsTruncating(w) ==
  /\ pc[w] = "finish"
  /\ lines' = <<Line(w)>>
  /\ tail' = <<>>
  /\ Goto(w, "index")
  /\ UNCHANGED <<draft, issued, acked, tears>>

(* ... and from there through the newline, fsync and the unlink of the lock.*)
WriteEnds(w) ==
  /\ pc[w] = "finish"
  /\ lines' = Append(lines, Line(w))
  /\ tail' = <<>>
  /\ Goto(w, "index")
  /\ UNCHANGED <<draft, issued, acked, tears>>

(* write or flush raises: the lock is released, the bytes stay.             *)
WriteRaises(w) ==
  /\ pc[w] \in Critical
  /\ tears' = tears + (IF pc[w] = "finish" THEN 1 ELSE 0)
  /\ Goto(w, "idle")
  /\ UNCHANGED <<lines, tail, draft, issued, acked>>

(* Mutant: the whole event is recorded in place of its id.                  *)
ReturnEvent(w) ==
  /\ pc[w] = "index"
  /\ acked' = acked \cup {draft[w]}
  /\ Goto(w, "idle")
  /\ UNCHANGED <<lines, tail, draft, issued, tears>>

(* rebuild_index reads the log after the lock is released; only then does   *)
(* the call return.                                                         *)
Return(w) ==
  /\ pc[w] = "index"
  /\ Legible
  /\ acked' = acked \cup {draft[w].id}
  /\ Goto(w, "idle")
  /\ UNCHANGED <<lines, tail, draft, issued, tears>>

(* fsync raises, or the index lock is busy, or SQLite or a document raises, *)
(* or the log cannot be read: the call fails although its event is in it.   *)
IndexRaises(w) ==
  /\ pc[w] = "index"
  /\ Goto(w, "idle")
  /\ UNCHANGED <<lines, tail, draft, issued, acked, tears>>

Crash(w) ==
  /\ pc[w] \notin {"idle", "dead"}
  /\ tears' = tears + (IF pc[w] = "finish" THEN 1 ELSE 0)
  /\ Goto(w, "dead")
  /\ UNCHANGED <<lines, tail, draft, issued, acked>>

Next ==
  \E w \in Writers :
    \/ \E id \in Ids : Add(w, id) \/ \E target \in Ids : Supersede(w, id, target)
    \/ Acquire(w) \/ LockBusy(w) \/ WriteBegins(w) \/ WriteEnds(w)
    \/ WriteRaises(w) \/ Return(w) \/ IndexRaises(w) \/ Crash(w)

Spec == Init /\ [][Next]_vars

-----------------------------------------------------------------------------
(* Properties *)

(* An event whose call returned is missing from the log only because a torn *)
(* write swallowed it, and a torn write swallows one event at most.         *)
LossBoundedByTears == Cardinality(acked \ Records) <= tears

(* "malformed event is reported without losing valid events"                *)
(* (tests/test_project_memory.py): the same when nobody is writing, wherever*)
(* in its bytes the torn write stopped.                                     *)
ValidEventsSurvive == LockIsFree => Cardinality(acked \ Records) <= tears

(* "memory is already superseded" (supersede) is said of what was read      *)
(* before the lock: two checks of one target may both pass before either    *)
(* appends, but an event has at most as many successors as there are        *)
(* writers.                                                                 *)
Successors(id) == {e \in Readable : e.supersedes = id}
SuccessorsBounded == \A id \in Ids : Cardinality(Successors(id)) <= Cardinality(Writers)

(* Whatever tears, stops or dies, the terminated lines are the promised log.*)
Promise == INSTANCE AtomicLog WITH log <- lines
ImplementsAtomicLog == Promise!Spec
=============================================================================
