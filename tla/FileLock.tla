------------------------------ MODULE FileLock ------------------------------
(***************************************************************************)
(* The lock file of the project memory engine                              *)
(* (src/tools/project_memory/memory_store.py, MemoryStore._exclusive_lock, *)
(* _breakable_reason, _unlink_lock, _process_is_alive).                    *)
(*                                                                         *)
(* The lock is a path in the file system.  A process owns it by creating   *)
(* the file (O_CREAT|O_EXCL) and writing its pid and host into it in a     *)
(* second system call; it gives it up by unlinking the path.  A process    *)
(* that finds the path taken examines the file in three steps (stat, read, *)
(* probe of the owner's pid) and may then unlink it: nothing ties these    *)
(* steps, or any unlink, to one and the same file.                         *)
(***************************************************************************)
EXTENDS Naturals

CONSTANTS
  Procs,   \* the processes that may ever use the lock; one pid each, never reused
  Host,    \* the machine each process runs on
  NoProc,  \* "no process"
  Faults   \* what the environment may do; see FaultKinds

(* What can go wrong around the lock: a process is killed, a process ends   *)
(* normally between two uses, writing the owner record raises (disk full),  *)
(* a holder keeps the lock for longer than LOCK_ABANDONED_SECONDS.          *)
FaultKinds == {"crash", "exit", "signfails", "slow"}

ASSUME LockAssumption ==
  /\ NoProc \notin Procs
  /\ Faults \subseteq FaultKinds
  /\ DOMAIN Host = Procs

VARIABLES
  lock,    \* the file at lock_path; creator = NoProc when there is none
  pc,      \* where each process is in _exclusive_lock
  seen,    \* what _breakable_reason has read so far, per process
  stolen   \* history: a lock file in use was unlinked by another process

vars == <<lock, pc, seen, stolen>>

Labels == {"idle", "open", "sign", "held", "stat", "read", "probe", "break", "dead"}

NoFile  == [creator |-> NoProc, signed |-> FALSE, old |-> FALSE]
Nothing == [owner |-> NoProc, old |-> FALSE]

Exists == lock.creator # NoProc

(* A process is using the lock from its successful os.open to its unlink.   *)
Using(p) == pc[p] \in {"sign", "held"}

TypeOK ==
  /\ lock \in [creator : Procs \cup {NoProc}, signed : BOOLEAN, old : BOOLEAN]
  /\ pc \in [Procs -> Labels]
  /\ seen \in [Procs -> [owner : Procs \cup {NoProc}, old : BOOLEAN]]
  /\ stolen \in BOOLEAN

Init ==
  /\ lock = NoFile
  /\ pc = [p \in Procs |-> "idle"]
  /\ seen = [p \in Procs |-> Nothing]
  /\ stolen = FALSE

Goto(p, label) == pc' = [pc EXCEPT ![p] = label]

(* What was read lives in local variables of one call of _breakable_reason. *)
Forget(p) == seen' = [seen EXCEPT ![p] = Nothing]

-----------------------------------------------------------------------------
(* Acquiring *)

Start(p) ==
  /\ pc[p] = "idle"
  /\ Goto(p, "open")
  /\ UNCHANGED <<lock, seen, stolen>>

(* Mutant: os.open without O_EXCL.                                          *)
CreateShared(p) ==
  /\ pc[p] = "open"
  /\ lock' = [creator |-> p, signed |-> FALSE, old |-> FALSE]
  /\ Goto(p, "sign")
  /\ UNCHANGED <<seen, stolen>>

(* os.open(..., O_CREAT | O_EXCL) succeeds only when the path is free.      *)
Create(p) ==
  /\ pc[p] = "open"
  /\ ~Exists
  /\ lock' = [creator |-> p, signed |-> FALSE, old |-> FALSE]
  /\ Goto(p, "sign")
  /\ UNCHANGED <<seen, stolen>>

(* Mutant: the owner record is never written.                               *)
SignNothing(p) ==
  /\ pc[p] = "sign"
  /\ Goto(p, "held")
  /\ UNCHANGED <<lock, seen, stolen>>

(* os.write of the owner record goes to the file that was opened, whatever  *)
(* the path names by now; it also renews that file's mtime.                 *)
Sign(p) ==
  /\ pc[p] = "sign"
  /\ lock' = IF lock.creator = p
             THEN [lock EXCEPT !.signed = TRUE, !.old = FALSE] ELSE lock
  /\ Goto(p, "held")
  /\ UNCHANGED <<seen, stolen>>

(* The owner record is written outside the try/finally: when it raises, the *)
(* call fails and the empty lock file stays.                                *)
SignFails(p) ==
  /\ "signfails" \in Faults
  /\ pc[p] = "sign"
  /\ Goto(p, "idle")
  /\ UNCHANGED <<lock, seen, stolen>>

Contend(p) ==
  /\ pc[p] = "open"
  /\ Exists
  /\ Goto(p, "stat")
  /\ UNCHANGED <<lock, seen, stolen>>

-----------------------------------------------------------------------------
(* _breakable_reason *)

(* Mutant: the signature is taken along with the age.                       *)
StatWholeFile(p) ==
  /\ pc[p] = "stat"
  /\ seen' = [seen EXCEPT ![p] = lock]
  /\ Goto(p, "read")
  /\ UNCHANGED <<lock, stolen>>

(* lock_path.stat(): no file means FileNotFoundError, and back to os.open.  *)
Stat(p) ==
  /\ pc[p] = "stat"
  /\ IF Exists
     THEN /\ seen' = [seen EXCEPT ![p] = [owner |-> NoProc, old |-> lock.old]]
          /\ Goto(p, "read")
     ELSE /\ Goto(p, "open")
          /\ UNCHANGED seen
  /\ UNCHANGED <<lock, stolen>>

(* read_text and json.loads: a missing, empty or torn record is caught and  *)
(* leaves the owner unknown.                                                *)
ReadOwner(p) ==
  /\ pc[p] = "read"
  /\ seen' = [seen EXCEPT ![p].owner = IF lock.signed THEN lock.creator ELSE NoProc]
  /\ Goto(p, "probe")
  /\ UNCHANGED <<lock, stolen>>

(* The pid of a process that ended names no process: no pid is used again.  *)
ProcessIsAlive(q) == pc[q] # "dead"

ProvablyGone(p, q) == q # NoProc /\ Host[q] = Host[p] /\ ~ProcessIsAlive(q)

(* Mutants: no ceiling; the owner's process is not probed (ownership        *)
(* inferred, not verified).                                                 *)
BreakableNoCeiling(p) == ProvablyGone(p, seen[p].owner)
BreakableUnverified(p) == TRUE

Breakable(p) == ProvablyGone(p, seen[p].owner) \/ seen[p].old

Decide(p) ==
  /\ pc[p] = "probe"
  /\ Breakable(p)
  /\ Goto(p, "break")
  /\ UNCHANGED <<lock, seen, stolen>>

(* Not breakable: raise "memory lock is busy" past the deadline, or sleep   *)
(* and try again.  The wall clock is not modelled, so either may happen.    *)
WaitOrGiveUp(p) ==
  /\ pc[p] = "probe"
  /\ ~Breakable(p)
  /\ \E next \in {"open", "idle"} : Goto(p, next)
  /\ Forget(p)
  /\ UNCHANGED <<lock, stolen>>

-----------------------------------------------------------------------------
(* _unlink_lock: whatever file is at the path is removed.                   *)
Unlink(p) ==
  /\ lock' = NoFile
  /\ stolen' = (stolen \/ (Exists /\ lock.creator # p /\ Using(lock.creator)))

Break(p) ==
  /\ pc[p] = "break"
  /\ Unlink(p)
  /\ Goto(p, "open")
  /\ Forget(p)

(* The finally clause, after a normal end or an exception of the body.      *)
Release(p) ==
  /\ pc[p] = "held"
  /\ Unlink(p)
  /\ Goto(p, "idle")
  /\ UNCHANGED seen

-----------------------------------------------------------------------------
(* The environment *)

Crash(p) ==
  /\ "crash" \in Faults
  /\ pc[p] \notin {"idle", "dead"}
  /\ Goto(p, "dead")
  /\ Forget(p)
  /\ UNCHANGED <<lock, stolen>>

Exit(p) ==
  /\ "exit" \in Faults
  /\ pc[p] = "idle"
  /\ Goto(p, "dead")
  /\ UNCHANGED <<lock, seen, stolen>>

(* An hour passes over the present lock file.                               *)
Age ==
  /\ Exists
  /\ ~lock.old
  /\ Using(lock.creator) => "slow" \in Faults
  /\ lock' = [lock EXCEPT !.old = TRUE]
  /\ UNCHANGED <<pc, seen, stolen>>

(* A step of the code of p that is not a new call.                          *)
Step(p) ==
  \/ Create(p) \/ Sign(p) \/ Contend(p) \/ Stat(p) \/ ReadOwner(p)
  \/ Decide(p) \/ WaitOrGiveUp(p) \/ Break(p) \/ Release(p)

Next ==
  \/ \E p \in Procs : Start(p) \/ Step(p) \/ SignFails(p) \/ Crash(p) \/ Exit(p)
  \/ Age

Spec == Init /\ [][Next]_vars

(* Processes keep running and keep calling, and time passes.                *)
FairSpec ==
  /\ Spec
  /\ \A p \in Procs : WF_vars(Step(p)) /\ WF_vars(Start(p))
  /\ WF_vars(Age)

-----------------------------------------------------------------------------
(* Properties *)

MutualExclusion == \A p, q \in Procs : pc[p] = "held" /\ pc[q] = "held" => p = q

(* As long as no lock in use was unlinked by another process, at most one   *)
(* process is between os.open and its own unlink.                           *)
ExclusiveUnlessStolen ==
  ~stolen => \A p, q \in Procs : Using(p) /\ Using(q) => p = q

(* As long as nothing was stolen, a process that uses the lock finds its    *)
(* own file at the path, and so unlinks its own file at the end.            *)
HolderOwnsTheFile ==
  ~stolen => \A p \in Procs : Using(p) => /\ lock.creator = p
                                          /\ lock.signed = (pc[p] = "held")

(* A process is about to break a lock only with a reason: what it saw was   *)
(* over the ceiling, or the owner it read is a dead process of its host.    *)
BreakHasReason ==
  \A p \in Procs : pc[p] = "break" => Breakable(p)

(* The first theft is always a Break, never the finally clause, and by a    *)
(* process that saw a file over the ceiling or another owner's record: a    *)
(* lock whose own record was read while fresh is never stolen.              *)
FirstTheft ==
  [][~stolen /\ stolen' =>
       \E p \in Procs : /\ pc[p] = "break" /\ pc'[p] = "open"
                        /\ seen[p].old \/ seen[p].owner # lock.creator]_vars

(* With no crash, no exit, no failed write and no slow holder nothing is    *)
(* ever broken, and the lock is a lock.                                     *)
CalmIsExclusive == Faults = {} => ~stolen /\ MutualExclusion

(* A lock file left by a dead process, or by a failed write of the owner    *)
(* record, does not stay for ever while some process keeps calling.         *)
Orphaned == Exists /\ ~Using(lock.creator)
SomeoneAlive == \E p \in Procs : pc[p] # "dead"
OrphanIsRemoved == Orphaned ~> (~Orphaned \/ ~SomeoneAlive)
=============================================================================
