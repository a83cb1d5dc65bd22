---------------------------- MODULE SearchIndex ----------------------------
(***************************************************************************)
(* The SQLite cache of the project memory engine                           *)
(* (src/tools/project_memory/memory_store.py: rebuild_index,               *)
(* _manifest_signature, _ensure_index, search, status, and the rebuild at  *)
(* the end of _append).                                                    *)
(*                                                                         *)
(* A rebuild reads the log, then the documents, then takes the signature   *)
(* of whatever is on disk by then, and publishes the file with os.replace. *)
(* A search trusts any index whose signature is the present one.  The log  *)
(* is a sequence of whole events here (see EventLog), the documents are one*)
(* document with a version, and the index lock excludes (see FileLock).    *)
(***************************************************************************)
EXTENDS Naturals, Sequences

CONSTANTS
  Procs,     \* processes that write, search, or rebuild
  MaxEvents, \* bound: events in the log
  MaxEdits   \* bound: edits of the document

ASSUME IndexAssumption == MaxEvents \in Nat /\ MaxEdits \in Nat

VARIABLES
  log,     \* log[k] is the position event k supersedes, or 0
  doc,     \* version of the document on disk
  index,   \* the file at index_path
  pc,      \* where each process is
  job,     \* what the rebuild in progress was called for, and what it has read
  acked,   \* history: position of the last event whose call returned
  asked    \* history: when the search in progress began; see NotAsked

vars == <<log, doc, index, pc, job, acked, asked>>

Positions == 0 .. MaxEvents
Labels == {"idle", "lock", "records", "documents", "sign", "publish", "query", "dead"}
Rebuilding == {"records", "documents", "sign", "publish"}

(* The cache may be absent, an empty database that sqlite3.connect made, or *)
(* a published index: the events and the document version it was built from,*)
(* and the pair its signature stands for.                                   *)
NoIndex == [kind |-> "absent", upto |-> 0, doc |-> 0, signature |-> <<0, 0>>]
BlankIndex == [NoIndex EXCEPT !.kind = "blank"]

(* wrote: the event the rebuild follows, or 0 (a search, or a call of       *)
(* memory_rebuild_index or memory_status); query: a search waits for it.    *)
NoJob == [wrote |-> 0, query |-> FALSE, upto |-> 0, doc |-> 0, signature |-> <<0, 0>>]

(* since: the acknowledged events when the search began; alone: no other    *)
(* process was inside an operation at any time since.                       *)
NotAsked == [since |-> 0, alone |-> FALSE]

Signatures == Positions \X (0 .. MaxEdits)

TypeOK ==
  /\ log \in Seq(Positions) /\ Len(log) <= MaxEvents
  /\ doc \in 0 .. MaxEdits
  /\ index \in [kind : {"absent", "blank", "built"}, upto : Positions,
                doc : 0 .. MaxEdits, signature : Signatures]
  /\ pc \in [Procs -> Labels]
  /\ job \in [Procs -> [wrote : Positions, query : BOOLEAN, upto : Positions,
                        doc : 0 .. MaxEdits, signature : Signatures]]
  /\ acked \in Positions
  /\ asked \in [Procs -> [since : Positions, alone : BOOLEAN]]

Init ==
  /\ log = <<>>
  /\ doc = 0
  /\ index = NoIndex
  /\ pc = [p \in Procs |-> "idle"]
  /\ job = [p \in Procs |-> NoJob]
  /\ acked = 0
  /\ asked = [p \in Procs |-> NotAsked]

Goto(p, label) == pc' = [pc EXCEPT ![p] = label]

(* The records a rebuild inserts from a log of n events: those nothing      *)
(* supersedes.                                                              *)
Active(n) == {k \in 1 .. n : \A j \in 1 .. n : log[j] # k}

CurrentSignature == <<Len(log), doc>>

NobodyElse(p) == \A q \in Procs \ {p} : pc[q] \in {"idle", "dead"}

(* A search under way stops being alone when another process moves.         *)
Disturb(p) ==
  asked' = [q \in Procs |-> IF q = p THEN NotAsked ELSE [asked[q] EXCEPT !.alone = FALSE]]

-----------------------------------------------------------------------------
(* Mutant: the write returns as soon as its event is in the log.            *)
AppendEventOnly(p, target) ==
  /\ pc[p] = "idle"
  /\ Len(log) < MaxEvents
  /\ target = 0 \/ target \in Active(Len(log))
  /\ log' = Append(log, target)
  /\ acked' = Len(log) + 1
  /\ Disturb(p)
  /\ UNCHANGED <<doc, index, pc, job>>

(* _append: the event is in the log when the events lock is released; then  *)
(* the writer rebuilds the index.  supersede's check of its target and the  *)
(* append are one step here; EventLog is about what comes between them.     *)
AppendEvent(p, target) ==
  /\ pc[p] = "idle"
  /\ Len(log) < MaxEvents
  /\ target = 0 \/ target \in Active(Len(log))
  /\ log' = Append(log, target)
  /\ job' = [job EXCEPT ![p] = [NoJob EXCEPT !.wrote = Len(log) + 1]]
  /\ Goto(p, "lock")
  /\ Disturb(p)
  /\ UNCHANGED <<doc, index, acked>>

(* memory_rebuild_index, memory_status                                      *)
Rebuild(p) ==
  /\ pc[p] = "idle"
  /\ Goto(p, "lock")
  /\ Disturb(p)
  /\ UNCHANGED <<log, doc, index, job, acked>>

(* _ensure_index: rebuild unless there is an index with today's signature.  *)
UpToDate == index.kind = "built" /\ index.signature = CurrentSignature

Search(p) ==
  /\ pc[p] = "idle"
  /\ asked' = [q \in Procs |->
       IF q = p THEN [since |-> acked, alone |-> NobodyElse(p)]
       ELSE [asked[q] EXCEPT !.alone = FALSE]]
  /\ IF UpToDate
     THEN Goto(p, "query") /\ UNCHANGED job
     ELSE Goto(p, "lock") /\ job' = [job EXCEPT ![p].query = TRUE]
  /\ UNCHANGED <<log, doc, index, acked>>

-----------------------------------------------------------------------------
(* rebuild_index *)

(* Mutant: rebuilds do not exclude each other.                              *)
LockIndexShared(p) ==
  /\ pc[p] = "lock"
  /\ Goto(p, "records")
  /\ UNCHANGED <<log, doc, index, job, acked, asked>>

LockIndex(p) ==
  /\ pc[p] = "lock"
  /\ \A q \in Procs : pc[q] \notin Rebuilding
  /\ Goto(p, "records")
  /\ UNCHANGED <<log, doc, index, job, acked, asked>>

ReadRecords(p) ==
  /\ pc[p] = "records"
  /\ job' = [job EXCEPT ![p].upto = Len(log)]
  /\ Goto(p, "documents")
  /\ UNCHANGED <<log, doc, index, acked, asked>>

ReadDocuments(p) ==
  /\ pc[p] = "documents"
  /\ job' = [job EXCEPT ![p].doc = doc]
  /\ Goto(p, "sign")
  /\ UNCHANGED <<log, doc, index, acked, asked>>

(* Mutant: the signature covers the log alone.                              *)
TakeSignatureOfLog(p) ==
  /\ pc[p] = "sign"
  /\ job' = [job EXCEPT ![p].signature = <<Len(log)>>]
  /\ Goto(p, "publish")
  /\ UNCHANGED <<log, doc, index, acked, asked>>

TakeSignature(p) ==
  /\ pc[p] = "sign"
  /\ job' = [job EXCEPT ![p].signature = CurrentSignature]
  /\ Goto(p, "publish")
  /\ UNCHANGED <<log, doc, index, acked, asked>>

(* os.replace, the unlink of the index lock, and the return: a write is     *)
(* acknowledged, a search goes on to its query.                             *)
Publish(p) ==
  /\ pc[p] = "publish"
  /\ index' = [kind |-> "built", upto |-> job[p].upto, doc |-> job[p].doc,
               signature |-> job[p].signature]
  /\ Goto(p, IF job[p].query THEN "query" ELSE "idle")
  /\ acked' = IF job[p].wrote > acked THEN job[p].wrote ELSE acked
  /\ job' = [job EXCEPT ![p] = NoJob]
  /\ UNCHANGED <<log, doc, asked>>

(* The lock is busy past its timeout, or reading or SQLite raises: the call *)
(* fails with the old index in place.                                       *)
RebuildRaises(p) ==
  /\ pc[p] \in {"lock"} \cup Rebuilding
  /\ Goto(p, "idle")
  /\ job' = [job EXCEPT ![p] = NoJob]
  /\ asked' = [asked EXCEPT ![p] = NotAsked]
  /\ UNCHANGED <<log, doc, index, acked>>

(* sqlite3.connect and SELECT on whatever index_path names by now.          *)
Query(p) ==
  /\ pc[p] = "query"
  /\ Goto(p, "idle")
  /\ asked' = [asked EXCEPT ![p] = NotAsked]
  /\ index' = IF index.kind = "built" THEN index ELSE BlankIndex
  /\ UNCHANGED <<log, doc, job, acked>>

-----------------------------------------------------------------------------
(* The environment *)

(* "SQLite is only a cache and may be deleted or rebuilt at any time."      *)
DeleteIndex ==
  /\ index.kind # "absent"
  /\ index' = NoIndex
  /\ UNCHANGED <<log, doc, pc, job, acked, asked>>

EditDocument ==
  /\ doc < MaxEdits
  /\ doc' = doc + 1
  /\ asked' = [q \in Procs |-> [asked[q] EXCEPT !.alone = FALSE]]
  /\ UNCHANGED <<log, index, pc, job, acked>>

Crash(p) ==
  /\ pc[p] \notin {"idle", "dead"}
  /\ Goto(p, "dead")
  /\ job' = [job EXCEPT ![p] = NoJob]
  /\ asked' = [asked EXCEPT ![p] = NotAsked]
  /\ UNCHANGED <<log, doc, index, acked>>

Next ==
  \/ \E p \in Procs :
       \/ \E target \in Positions : AppendEvent(p, target)
       \/ Rebuild(p) \/ Search(p) \/ LockIndex(p) \/ ReadRecords(p)
       \/ ReadDocuments(p) \/ TakeSignature(p) \/ Publish(p) \/ RebuildRaises(p)
       \/ Query(p) \/ Crash(p)
  \/ DeleteIndex \/ EditDocument

Spec == Init /\ [][Next]_vars

-----------------------------------------------------------------------------
(* Properties *)

(* A query of p reads a published index in this step.                       *)
Answers(p) == pc[p] = "query" /\ pc'[p] = "idle" /\ index.kind = "built"

(* A search finds every event whose call had returned when the search began *)
(* and nothing such an event superseded: even a rebuild that overtook the   *)
(* append and signed stale content cannot hide it, because the writer's own *)
(* rebuild follows.                                                         *)
SearchSeesAcknowledged ==
  [][\A p \in Procs : Answers(p) => index.upto >= asked[p].since]_vars

(* The published index never goes back to an older log or document.         *)
IndexNeverGoesBack ==
  [][index.kind = "built" /\ index'.kind = "built" =>
       index'.upto >= index.upto /\ index'.doc >= index.doc]_vars

(* "A superseded memory must never be searchable"                           *)
(* (tests/test_project_memory.py): a search with no other operation in      *)
(* progress returns no superseded event.                                    *)
LoneSearchHidesSuperseded ==
  [][\A p \in Procs : Answers(p) /\ asked[p].alone =>
       Active(index.upto) \subseteq Active(Len(log))]_vars
=============================================================================
