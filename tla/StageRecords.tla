---------------------------- MODULE StageRecords ----------------------------
(***************************************************************************)
(* A stage of model calls of the memory benchmark: threads ask a model     *)
(* about items and record the results, circuit breakers stop the stage,    *)
(* and a later run of the command asks what is missing                     *)
(* (src/scripts/wmb/retrieval_bench.py record_results, call_choice,        *)
(* choice_info, run_judge, StageGuard, workdir_lock; contract.py).         *)
(*                                                                         *)
(* An item is asked outside the lock of the stage; a result is counted,    *)
(* held or recorded under it.  A result without any reply is held until a  *)
(* later one shows that the model answers.                                 *)
(***************************************************************************)
EXTENDS RecordFile, FiniteSets

CONSTANTS
  N,              \* the planned items are 1 .. N, in the order of the plan
  KeepModes,      \* the values of keep_errors: TRUE for the judge
  Workers,        \* threads of the pool
  Chunk,          \* items between two looks at the budget
  ErrorBreaker,   \* ERROR_BREAKER
  NoneBreaker,    \* NONE_BREAKER
  FormatWindow,   \* FORMAT_WINDOW
  FormatMaxShare, \* FORMAT_MAX_SHARE, in per cent
  MaxPasses,      \* bound: runs of the command
  MaxCuts         \* bound: appends that stop part way

Items == 1 .. N

(* The classes of results: a label, a reply without a usable answer, no     *)
(* reply at all (every attempt raised).                                     *)
Kinds == {"label", "none", "error"}
Record == [item : Items, kind : Kinds]
Unanswered == [item : Items, kind : {"error"}]

ASSUME StageAssumption ==
  /\ N \in Nat
  /\ KeepModes \subseteq BOOLEAN /\ KeepModes # {}
  /\ Workers \in Nat \ {0} /\ Chunk \in Nat \ {0}
  /\ ErrorBreaker \in Nat \ {0} /\ NoneBreaker \in Nat \ {0} /\ FormatWindow \in Nat \ {0}
  /\ FormatMaxShare \in Nat /\ MaxPasses \in Nat /\ MaxCuts \in Nat

VARIABLES
  keep,     \* keep_errors of this stage
  file,     \* the record file
  lockFile, \* whether the lock file of the command exists
  pass,     \* "none", "running", "completed", "failed", "crashed"
  todo,     \* the items of this pass
  given,    \* those of them that were given to the pool
  at,       \* per item: "no", "asking", "holding", "done", "raised"
  row,      \* per item: the kind of the result in hand
  pending,  \* rows held until a reply
  stop,     \* what set the stop event: "no", "refused", "aborted"
  tally,    \* the counts of the pass
  passes,   \* history: runs of the command so far
  cuts,     \* history: appends that stopped part way
  outage,   \* history: the items of the current run of errors
  exposed,  \* history: the items held while an append raised
  late      \* history: appends of this pass since the stop event was set

memory == <<todo, given, at, row, pending, stop, tally>>
vars == <<keep, file, lockFile, pass, memory, passes, cuts, outage, exposed, late>>

Tallies == [calls : Nat, failed : Nat, streak : Nat, errorRun : Nat,
            dropped : Nat, checked : BOOLEAN]
NoTally == [calls |-> 0, failed |-> 0, streak |-> 0, errorRun |-> 0,
            dropped |-> 0, checked |-> FALSE]

TypeOK ==
  /\ keep \in KeepModes
  /\ file \in Files(Record)
  /\ lockFile \in BOOLEAN
  /\ pass \in {"none", "running", "completed", "failed", "crashed"}
  /\ todo \subseteq Items /\ given \subseteq todo
  /\ at \in [Items -> {"no", "asking", "holding", "done", "raised"}]
  /\ row \in [Items -> Kinds]
  /\ pending \in Seq(Unanswered)
  /\ stop \in {"no", "refused", "aborted"}
  /\ tally \in Tallies
  /\ passes \in 0 .. MaxPasses /\ cuts \in 0 .. MaxCuts /\ late \in Nat
  /\ outage \subseteq Items /\ exposed \subseteq Items

Init ==
  /\ keep \in KeepModes
  /\ file = Empty
  /\ lockFile = FALSE
  /\ pass = "none"
  /\ todo = {} /\ given = {}
  /\ at = [i \in Items |-> "no"]
  /\ row = [i \in Items |-> "label"]
  /\ pending = <<>>
  /\ stop = "no"
  /\ tally = NoTally
  /\ passes = 0 /\ cuts = 0 /\ late = 0
  /\ outage = {} /\ exposed = {}

-----------------------------------------------------------------------------
(* What a reader finds *)

Recorded(i) == \E k \in DOMAIN file.records : file.records[k].item = i

(* Mutant: a last record without its newline is taken for a torn one.       *)
MissingAfterTerminated ==
  LET n == Len(file.records) - (IF file.end = "bare" THEN 1 ELSE 0)
  IN  {i \in Items : \A k \in 1 .. n : file.records[k].item # i}

(* run_judge: the planned items that have no record.                        *)
Missing == {i \in Items : ~Recorded(i)}

-----------------------------------------------------------------------------
(* The main thread *)

Over(i) == at[i] \in {"done", "raised"}
AtRest == \A i \in given : Over(i)
Raised == \E i \in given : at[i] = "raised"

(* workdir_lock: the file is created with O_EXCL.                           *)
TakeLock == ~lockFile /\ lockFile' = TRUE

(* The lock is taken, the record file read and a stage begun.  A file that  *)
(* cannot be read raises, and the lock is let go again.                     *)
Start ==
  /\ pass # "running"
  /\ passes < MaxPasses
  /\ TakeLock
  /\ Readable(file)
  /\ pass' = "running"
  /\ todo' = Missing
  /\ given' = {}
  /\ at' = [i \in Items |-> "no"]
  /\ row' = [i \in Items |-> "label"]
  /\ pending' = <<>>
  /\ stop' = "no"
  /\ tally' = NoTally
  /\ passes' = passes + 1
  /\ outage' = {}
  /\ late' = 0
  /\ UNCHANGED <<keep, file, cuts, exposed>>

(* After a crash the lock file is left; the author deletes it.              *)
DeleteStaleLock ==
  /\ lockFile
  /\ pass = "crashed"
  /\ lockFile' = FALSE
  /\ UNCHANGED <<keep, file, pass, memory, passes, cuts, outage, exposed, late>>

(* The next items of a list, at most Chunk of them.                         *)
Slices(list) ==
  {S \in SUBSET list : /\ S # {} /\ Cardinality(S) <= Chunk
                       /\ S = list \/ Cardinality(S) = Chunk
                       /\ \A i \in S, j \in list \ S : i < j}

(* Mutant: the chunks are taken from the plan, not from what is missing.    *)
NextChunkOfPlan ==
  /\ pass = "running" /\ AtRest /\ ~Raised
  /\ \E S \in Slices(Items \ given) : given' = given \cup S
  /\ UNCHANGED <<keep, file, lockFile, pass, todo, at, row, pending, stop, tally,
                 passes, cuts, outage, exposed, late>>

(* All items of the chunk are over: the next chunk goes to the pool.        *)
NextChunk ==
  /\ pass = "running" /\ AtRest /\ ~Raised
  /\ \E S \in Slices(todo \ given) : given' = given \cup S
  /\ UNCHANGED <<keep, file, lockFile, pass, todo, at, row, pending, stop, tally,
                 passes, cuts, outage, exposed, late>>

(* The pass ends, by an exception or not: the lock is let go.               *)
EndPass(how) ==
  /\ pass' = how
  /\ lockFile' = FALSE
  /\ UNCHANGED <<keep, memory, passes, outage, exposed, late>>

(* before_chunk or after_chunk refuses to go on (the budget is spent, or    *)
(* the ledger did not grow): what is held is not written.                   *)
GuardStops ==
  /\ pass = "running" /\ AtRest /\ ~Raised
  /\ EndPass("failed")
  /\ UNCHANGED <<file, cuts>>

(* The exception of an item reaches the main thread once the items before   *)
(* it are over; it cancels what no thread has taken yet.                    *)
Cancel ==
  /\ pass = "running"
  /\ \E i \in given : at[i] = "raised" /\ \A j \in given : j < i => Over(j)
  /\ given' = {i \in given : at[i] # "no"}
  /\ given' # given
  /\ UNCHANGED <<keep, file, lockFile, pass, todo, at, row, pending, stop, tally,
                 passes, cuts, outage, exposed, late>>

PassFails ==
  /\ pass = "running" /\ AtRest /\ Raised
  /\ EndPass("failed")
  /\ UNCHANGED <<file, cuts>>

(* Mutant: what got no reply is forgotten.                                  *)
FinishQuietly ==
  /\ pass = "running" /\ AtRest /\ ~Raised /\ given = todo
  /\ file' = IF pending = <<>> THEN file ELSE Appended(file, pending)
  /\ EndPass("completed")
  /\ UNCHANGED cuts

(* All chunks are done: what is still held is recorded; what was dropped    *)
(* makes the pass fail.                                                     *)
Finish ==
  /\ pass = "running" /\ AtRest /\ ~Raised /\ given = todo
  /\ file' = IF pending = <<>> THEN file ELSE Appended(file, pending)
  /\ EndPass(IF tally.dropped > 0 THEN "failed" ELSE "completed")
  /\ UNCHANGED cuts

FinishFails ==
  /\ pass = "running" /\ AtRest /\ ~Raised /\ given = todo
  /\ pending # <<>>
  /\ cuts < MaxCuts
  /\ cuts' = cuts + 1
  /\ file' \in CutShort(file, pending)
  /\ EndPass("failed")

-----------------------------------------------------------------------------
(* The threads of the pool: record_results, one *)

Goto(i, label) == at' = [at EXCEPT ![i] = label]

(* A free thread takes the next item, and returns at once when the stop     *)
(* event is set.                                                            *)
Take(i) ==
  /\ pass = "running"
  /\ Cardinality({j \in Items : at[j] \in {"asking", "holding"}}) < Workers
  /\ i \in given /\ at[i] = "no"
  /\ \A j \in given : j < i => at[j] # "no"
  /\ Goto(i, IF stop = "no" THEN "asking" ELSE "done")
  /\ UNCHANGED <<keep, file, lockFile, pass, todo, given, row, pending, stop, tally,
                 passes, cuts, outage, exposed, late>>

Free == \A j \in Items : at[j] # "holding"

(* The spend cap refuses the request: the event is set without the lock.    *)
Refuse(i) ==
  /\ pass = "running" /\ at[i] = "asking"
  /\ stop' = IF stop = "no" THEN "refused" ELSE stop
  /\ Goto(i, "raised")
  /\ UNCHANGED <<keep, file, lockFile, pass, todo, given, row, pending, tally,
                 passes, cuts, outage, exposed, late>>

(* Stopped while this call was in flight: its result is thrown away.        *)
Discard(i) ==
  /\ pass = "running" /\ at[i] = "asking" /\ Free
  /\ stop # "no"
  /\ Goto(i, "done")
  /\ UNCHANGED <<keep, file, lockFile, pass, todo, given, row, pending, stop, tally,
                 passes, cuts, outage, exposed, late>>

(* call_choice, choice_info: a label after at most one failed attempt, or   *)
(* two failed attempts.  call_text, text_info: the same; a reply that is    *)
(* not empty ends the attempts and has a line, which is the question.       *)
Results == [kind : {"label"}, failed : {0, 1}] \cup [kind : {"none", "error"}, failed : {2}]

Counted(t, result) ==
  [calls    |-> t.calls + (IF result.kind = "label" THEN result.failed + 1 ELSE 2),
   failed   |-> t.failed + result.failed,
   streak   |-> IF result.kind = "label" THEN 0 ELSE t.streak + 1,
   errorRun |-> IF result.kind = "error" THEN t.errorRun + 1 ELSE 0,
   dropped  |-> t.dropped,
   checked  |-> t.checked]

WindowDue(t) == ~t.checked /\ t.calls >= FormatWindow

(* The breakers, in the order of the code: only the last sets a flag.       *)
Breaks(t) ==
  \/ t.errorRun >= ErrorBreaker
  \/ t.streak >= NoneBreaker
  \/ WindowDue(t) /\ 100 * t.failed > FormatMaxShare * t.calls

Abort(i, t, held) ==
  /\ stop' = IF stop = "no" THEN "aborted" ELSE stop
  /\ tally' = [t EXCEPT !.dropped = @ + Len(held)]
  /\ pending' = <<>>
  /\ Goto(i, "raised")

Settle(i, t, held) ==
  IF Breaks(t) THEN Abort(i, t, held)
  ELSE /\ tally' = [t EXCEPT !.checked = @ \/ WindowDue(t)]
       /\ pending' = held
       /\ Goto(i, "done")
       /\ UNCHANGED stop

(* Mutant: a result without a reply is recorded like the others.            *)
ReceiveAndRecord(i) ==
  /\ pass = "running" /\ at[i] = "asking" /\ Free
  /\ stop = "no"
  /\ file' = Appended(file, <<[item |-> i, kind |-> "error"]>>)
  /\ outage' = outage \cup {i}
  /\ Settle(i, Counted(tally, [kind |-> "error", failed |-> 2]), <<>>)
  /\ UNCHANGED <<keep, lockFile, pass, todo, given, row, passes, cuts, exposed, late>>

(* No attempt got a reply: the row is held, or dropped in the stages that   *)
(* never ask twice.                                                         *)
ReceiveError(i) ==
  /\ pass = "running" /\ at[i] = "asking" /\ Free
  /\ stop = "no"
  /\ outage' = outage \cup {i}
  /\ LET t == Counted(tally, [kind |-> "error", failed |-> 2])
     IN  IF keep THEN Settle(i, t, Append(pending, [item |-> i, kind |-> "error"]))
         ELSE Settle(i, [t EXCEPT !.dropped = @ + 1], pending)
  /\ UNCHANGED <<keep, file, lockFile, pass, todo, given, row, passes, cuts, exposed, late>>

(* Mutant: the stop event is not looked at again under the lock.            *)
ReceiveAnyway(i) ==
  /\ pass = "running" /\ at[i] = "asking" /\ Free
  /\ \E result \in Results \ [kind : {"error"}, failed : {2}] :
       /\ tally' = Counted(tally, result)
       /\ row' = [row EXCEPT ![i] = result.kind]
  /\ outage' = {}
  /\ Goto(i, "holding")
  /\ UNCHANGED <<keep, file, lockFile, pass, todo, given, pending, stop,
                 passes, cuts, exposed, late>>

(* A reply came: the lock is held and the counts are taken.                 *)
Receive(i) ==
  /\ pass = "running" /\ at[i] = "asking" /\ Free
  /\ stop = "no"
  /\ \E result \in Results \ [kind : {"error"}, failed : {2}] :
       /\ tally' = Counted(tally, result)
       /\ row' = [row EXCEPT ![i] = result.kind]
  /\ outage' = {}
  /\ Goto(i, "holding")
  /\ UNCHANGED <<keep, file, lockFile, pass, todo, given, pending, stop,
                 passes, cuts, exposed, late>>

Rows(i) == Append(pending, [item |-> i, kind |-> row[i]])

(* Mutant: what was held is not cleared.                                    *)
WriteAndKeep(i) ==
  /\ pass = "running" /\ at[i] = "holding"
  /\ file' = Appended(file, Rows(i))
  /\ Settle(i, tally, pending)
  /\ late' = IF stop = "no" THEN late ELSE late + 1
  /\ UNCHANGED <<keep, lockFile, pass, todo, given, row, passes, cuts, outage, exposed>>

(* What was held and the row are appended; then the breakers.               *)
Write(i) ==
  /\ pass = "running" /\ at[i] = "holding"
  /\ file' = Appended(file, Rows(i))
  /\ Settle(i, tally, <<>>)
  /\ late' = IF stop = "no" THEN late ELSE late + 1
  /\ UNCHANGED <<keep, lockFile, pass, todo, given, row, passes, cuts, outage, exposed>>

(* The append raises (a full disk): nothing sets the stop event, and what   *)
(* was held stays held, written or not.                                     *)
WriteFails(i) ==
  /\ pass = "running" /\ at[i] = "holding"
  /\ cuts < MaxCuts
  /\ cuts' = cuts + 1
  /\ file' \in CutShort(file, Rows(i))
  /\ Goto(i, "raised")
  /\ exposed' = exposed \cup {pending[k].item : k \in DOMAIN pending}
  /\ late' = IF stop = "no" THEN late ELSE late + 1
  /\ UNCHANGED <<keep, lockFile, pass, todo, given, row, pending, stop, tally,
                 passes, outage>>

-----------------------------------------------------------------------------
(* The process dies: between two appends, or inside one *)

Crash ==
  /\ pass = "running"
  /\ pass' = "crashed"
  /\ \/ UNCHANGED <<file, cuts>>
     \/ /\ cuts < MaxCuts
        /\ cuts' = cuts + 1
        /\ \/ \E i \in Items : at[i] = "holding" /\ file' \in CutShort(file, Rows(i))
           \/ /\ AtRest /\ ~Raised /\ given = todo /\ pending # <<>>
              /\ file' \in CutShort(file, pending)
  /\ UNCHANGED <<keep, lockFile, memory, passes, outage, exposed, late>>

Next ==
  \/ Start \/ DeleteStaleLock \/ NextChunk \/ GuardStops \/ Cancel \/ PassFails
  \/ Finish \/ FinishFails \/ Crash
  \/ \E i \in Items : \/ Take(i) \/ Refuse(i) \/ Discard(i) \/ ReceiveError(i)
                      \/ Receive(i) \/ Write(i) \/ WriteFails(i)

Spec == Init /\ [][Next]_vars

-----------------------------------------------------------------------------
(* Properties *)

(* "One JSONL record each" (run_judge), across runs, crashes and resumes:   *)
(* only what was held while an append raised can be recorded twice.         *)
OneRecordEach ==
  \A a, b \in DOMAIN file.records :
    file.records[a].item = file.records[b].item => a = b \/ file.records[a].item \in exposed

(* "After an abort or a spend-cap refusal nothing more is written, not even *)
(* the result of a call that was already in flight" (record_results): after *)
(* an abort that is so; after a refusal the thread that has the lock still  *)
(* writes, and no other.                                                    *)
StoppedIsQuiet == late <= (IF stop = "refused" THEN 1 ELSE 0)

(* A pass that ends without an exception leaves a record of every item, so  *)
(* a stage that dropped results is never taken for a complete one.          *)
CompletedIsComplete == pass = "completed" => \A i \in Items : Recorded(i)

(* When the stage is aborted, the results of the outage it was in have no   *)
(* record, so that a resume asks them again; where a record is never asked  *)
(* again, nothing that got no reply is ever recorded.                       *)
OutageLeavesNoRecord ==
  /\ stop = "aborted" => \A i \in outage : ~Recorded(i)
  /\ ~keep => \A k \in DOMAIN file.records : file.records[k].kind # "error"

(* No item that has a record is asked, and paid for, once more.             *)
NeverAskedAgain == \A i \in Items : at[i] = "asking" /\ pass = "running" => ~Recorded(i)

(* A record that a reader can find is never lost to a later append or to    *)
(* the repair of the tail, whatever was cut before.                         *)
RecordsAreKept == [][IsPrefix(file.records, file'.records)]_file
=============================================================================
