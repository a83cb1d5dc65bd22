--------------------------- MODULE FileLockProofs ---------------------------
(***************************************************************************)
(* Proofs about FileLock, for any set of processes and hosts and any set   *)
(* of faults.  The inductive invariant adds to the properties of FileLock  *)
(* the reason a breaker acts on, and what cannot happen without faults.    *)
(***************************************************************************)
EXTENDS FileLock, TLAPS

(* Without faults nobody dies, every lock file is in use by its creator, no *)
(* file grows old, and so nobody finds a reason to break a lock.            *)
Calm ==
  Faults = {} =>
    /\ ~stolen
    /\ Exists => Using(lock.creator)
    /\ ~lock.old
    /\ \A p \in Procs : pc[p] # "dead" /\ pc[p] # "break" /\ ~seen[p].old

IInv == TypeOK /\ HolderOwnsTheFile /\ BreakHasReason /\ Calm

USE LockAssumption DEF LockAssumption, FaultKinds

(* The initial state satisfies the inductive invariant.                     *)
LEMMA InitIInv == Init => IInv
<1> SUFFICES ASSUME Init PROVE IInv
  OBVIOUS
<1> USE DEF Init, NoFile, Nothing
<1>1. TypeOK
  BY DEF TypeOK, Labels
<1>2. HolderOwnsTheFile /\ BreakHasReason
  BY DEF HolderOwnsTheFile, BreakHasReason, Using
<1>3. Calm
  BY DEF Calm, Exists
<1> QED
  BY <1>1, <1>2, <1>3 DEF IInv

(* Every step of the lock protocol keeps the variables in their types.      *)
LEMMA TypeStep == TypeOK /\ [Next]_vars => TypeOK'
<1> SUFFICES ASSUME TypeOK, [Next]_vars PROVE TypeOK'
  OBVIOUS
<1> USE DEF TypeOK, Labels, NoFile, Nothing, Goto, Forget
<1>1. ASSUME NEW p \in Procs, Start(p) PROVE TypeOK'
  BY <1>1 DEF Start
<1>2. ASSUME NEW p \in Procs, Create(p) PROVE TypeOK'
  BY <1>2 DEF Create
<1>3. ASSUME NEW p \in Procs, Sign(p) PROVE TypeOK'
  BY <1>3 DEF Sign
<1>4. ASSUME NEW p \in Procs, SignFails(p) PROVE TypeOK'
  BY <1>4 DEF SignFails
<1>5. ASSUME NEW p \in Procs, Contend(p) PROVE TypeOK'
  BY <1>5 DEF Contend
<1>6. ASSUME NEW p \in Procs, Stat(p) PROVE TypeOK'
  BY <1>6 DEF Stat
<1>7. ASSUME NEW p \in Procs, ReadOwner(p) PROVE TypeOK'
  BY <1>7 DEF ReadOwner
<1>8. ASSUME NEW p \in Procs, Decide(p) PROVE TypeOK'
  BY <1>8 DEF Decide
<1>9. ASSUME NEW p \in Procs, WaitOrGiveUp(p) PROVE TypeOK'
  BY <1>9 DEF WaitOrGiveUp
<1>10. ASSUME NEW p \in Procs, Break(p) PROVE TypeOK'
  BY <1>10 DEF Break, Unlink
<1>11. ASSUME NEW p \in Procs, Release(p) PROVE TypeOK'
  BY <1>11 DEF Release, Unlink
<1>12. ASSUME NEW p \in Procs, Crash(p) PROVE TypeOK'
  BY <1>12 DEF Crash
<1>13. ASSUME NEW p \in Procs, Exit(p) PROVE TypeOK'
  BY <1>13 DEF Exit
<1>14. CASE Age
  BY <1>14 DEF Age
<1>15. CASE UNCHANGED vars
  BY <1>15 DEF vars
<1> QED
  BY <1>1, <1>2, <1>3, <1>4, <1>5, <1>6, <1>7, <1>8, <1>9, <1>10, <1>11,
     <1>12, <1>13, <1>14, <1>15 DEF Next, Step

(* Every step keeps the three invariants a lock user relies on.             *)
LEMMA IInvStep == IInv /\ [Next]_vars => IInv'
<1> SUFFICES ASSUME IInv, [Next]_vars PROVE IInv'
  OBVIOUS
<1> USE DEF IInv
<1>0. TypeOK'
  BY TypeStep
<1> DEFINE Rest == HolderOwnsTheFile /\ BreakHasReason /\ Calm
<1> SUFFICES Rest'
  BY <1>0
<1> USE DEF TypeOK, Goto, Forget, HolderOwnsTheFile, BreakHasReason, Calm, Using,
        Exists, NoFile, Nothing, Breakable, ProvablyGone, ProcessIsAlive
<1>1. ASSUME NEW p \in Procs, Start(p) PROVE Rest'
  BY <1>1 DEF Start
<1>2. ASSUME NEW p \in Procs, Create(p) PROVE Rest'
  <2> USE <1>2 DEF Create
  <2>1. ~stolen => \A q \in Procs : pc[q] \notin {"sign", "held"}
    OBVIOUS
  <2>2. HolderOwnsTheFile'
    BY <2>1
  <2>3. BreakHasReason'
    OBVIOUS
  <2>4. Calm'
    OBVIOUS
  <2> QED
    BY <2>2, <2>3, <2>4
<1>3. ASSUME NEW p \in Procs, Sign(p) PROVE Rest'
  <2>1. CASE lock.creator = p
    BY <1>3, <2>1 DEF Sign
  <2>2. CASE lock.creator # p
    BY <1>3, <2>2 DEF Sign
  <2> QED
    BY <2>1, <2>2
<1>4. ASSUME NEW p \in Procs, SignFails(p) PROVE Rest'
  BY <1>4 DEF SignFails
<1>5. ASSUME NEW p \in Procs, Contend(p) PROVE Rest'
  BY <1>5 DEF Contend
<1>6. ASSUME NEW p \in Procs, Stat(p) PROVE Rest'
  BY <1>6 DEF Stat
<1>7. ASSUME NEW p \in Procs, ReadOwner(p) PROVE Rest'
  BY <1>7 DEF ReadOwner
<1>8. ASSUME NEW p \in Procs, Decide(p) PROVE Rest'
  BY <1>8 DEF Decide
<1>9. ASSUME NEW p \in Procs, WaitOrGiveUp(p) PROVE Rest'
  BY <1>9 DEF WaitOrGiveUp
<1>10. ASSUME NEW p \in Procs, Break(p) PROVE Rest'
  <2>1. HolderOwnsTheFile'
    <3>1. ~stolen' => ~stolen /\ ~(Exists /\ lock.creator # p /\ Using(lock.creator))
      BY <1>10 DEF Break, Unlink
    <3>2. ~stolen' => \A q \in Procs : ~Using(q)
      BY <1>10, <3>1 DEF Break
    <3> QED
      BY <1>10, <3>2 DEF Break
  <2>2. BreakHasReason'
    BY <1>10 DEF Break, Unlink
  <2>3. Calm'
    BY <1>10 DEF Break, Unlink
  <2> QED
    BY <2>1, <2>2, <2>3
<1>11. ASSUME NEW p \in Procs, Release(p) PROVE Rest'
  <2>1. HolderOwnsTheFile'
    BY <1>11 DEF Release, Unlink
  <2>2. BreakHasReason'
    BY <1>11 DEF Release, Unlink
  <2>3. Calm'
    BY <1>11 DEF Release, Unlink
  <2> QED
    BY <2>1, <2>2, <2>3
<1>12. ASSUME NEW p \in Procs, Crash(p) PROVE Rest'
  BY <1>12 DEF Crash
<1>13. ASSUME NEW p \in Procs, Exit(p) PROVE Rest'
  BY <1>13 DEF Exit
<1>14. CASE Age
  BY <1>14 DEF Age
<1>15. CASE UNCHANGED vars
  BY <1>15 DEF vars
<1> QED
  BY <1>1, <1>2, <1>3, <1>4, <1>5, <1>6, <1>7, <1>8, <1>9, <1>10, <1>11,
     <1>12, <1>13, <1>14, <1>15 DEF Next, Step

(* The three invariants hold in every reachable state, whatever the faults. *)
LEMMA IInvAlways == Spec => []IInv
  BY InitIInv, IInvStep, PTL DEF Spec

(* Every reachable state of the lock protocol is well typed.                *)
THEOREM TypeCorrect == Spec => []TypeOK
  BY IInvAlways, PTL DEF IInv

(* A process that uses the lock finds its own, and only its own, file at    *)
(* lock_path, until some lock in use is unlinked by another process.        *)
THEOREM HolderOwns == Spec => []HolderOwnsTheFile
  BY IInvAlways, PTL DEF IInv

(* Two processes never use the lock at once before the first theft.         *)
THEOREM Exclusive == Spec => []ExclusiveUnlessStolen
<1>1. IInv => ExclusiveUnlessStolen
  BY DEF IInv, HolderOwnsTheFile, ExclusiveUnlessStolen
<1> QED
  BY <1>1, IInvAlways, PTL

(* When processes do not die, stall or fail to sign, the lock excludes.     *)
THEOREM CalmExclusive == Spec => []CalmIsExclusive
<1>1. IInv => CalmIsExclusive
  BY DEF IInv, Calm, HolderOwnsTheFile, CalmIsExclusive, MutualExclusion, Using
<1> QED
  BY <1>1, IInvAlways, PTL

(* A lock whose own record was read while its file was fresh is never the   *)
(* first one stolen: the first theft acts on an over-age file or on the     *)
(* record of an earlier owner, and it is a Break.                           *)
THEOREM FirstTheftIsABreak == Spec => FirstTheft
<1> DEFINE Theft == ~stolen /\ stolen' =>
             \E p \in Procs : /\ pc[p] = "break" /\ pc'[p] = "open"
                              /\ seen[p].old \/ seen[p].owner # lock.creator
<1>1. IInv /\ [Next]_vars => [Theft]_vars
  <2> SUFFICES ASSUME IInv, Next, ~stolen, stolen' PROVE Theft
    BY DEF vars
  <2>1. PICK p \in Procs : Break(p) \/ Release(p)
    BY DEF Next, Step, Start, Create, Sign, SignFails, Contend, Stat, ReadOwner,
           Decide, WaitOrGiveUp, Crash, Exit, Age, vars
  <2>2. Exists /\ lock.creator # p /\ Using(lock.creator)
    BY <2>1 DEF Break, Release, Unlink
  <2>3. ASSUME Release(p) PROVE FALSE
    BY <2>2, <2>3 DEF Release, IInv, HolderOwnsTheFile, Using
  <2>4. pc[p] = "break" /\ pc'[p] = "open"
    BY <2>1, <2>3 DEF Break, Goto, IInv, TypeOK
  <2>5. seen[p].old \/ seen[p].owner # lock.creator
    BY <2>2, <2>4 DEF IInv, BreakHasReason, Breakable, ProvablyGone, ProcessIsAlive, Using
  <2> QED
    BY <2>4, <2>5
<1> QED
  BY <1>1, IInvAlways, PTL DEF Spec, FirstTheft
=============================================================================
