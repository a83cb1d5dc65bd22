------------------------- MODULE SearchIndexProofs -------------------------
(***************************************************************************)
(* Proofs about SearchIndex, for any number of processes, events and edits:*)
(* a search misses nothing acknowledged, and the index never goes back.    *)
(***************************************************************************)
EXTENDS SearchIndex, SequenceTheorems, TLAPS

(* One rebuild at a time; what it has read so far is not older than the     *)
(* published index, than what was acknowledged, or than the event it        *)
(* follows; and none of them is ahead of the disk.                          *)
HasRecords(p) == pc[p] \in {"documents", "sign", "publish"}
HasDocuments(p) == pc[p] \in {"sign", "publish"}

RebuildsExclude ==
  \A p, q \in Procs : pc[p] \in Rebuilding /\ pc[q] \in Rebuilding => p = q

(* What is published, and what process p has read, is not ahead of the disk.*)
DiskAhead == acked <= Len(log) /\ index.upto <= Len(log) /\ index.doc <= doc
NotAhead(p) ==
  /\ job[p].wrote <= Len(log) /\ job[p].upto <= Len(log) /\ job[p].doc <= doc
  /\ asked[p].since <= acked

(* What is published, and what process p has read, is not behind what came  *)
(* before it.                                                               *)
IndexHolds == index.kind = "built" => acked <= index.upto
NotBehind(p) ==
  /\ HasRecords(p) => /\ acked <= job[p].upto /\ job[p].wrote <= job[p].upto
                      /\ index.kind = "built" => index.upto <= job[p].upto
  /\ HasDocuments(p) => (index.kind = "built" => index.doc <= job[p].doc)

Ordered == DiskAhead /\ IndexHolds /\ \A p \in Procs : NotAhead(p) /\ NotBehind(p)

IInv == TypeOK /\ RebuildsExclude /\ Ordered

USE IndexAssumption DEF IndexAssumption

(* The initial state satisfies the inductive invariant.                     *)
LEMMA InitIInv == Init => IInv
<1> SUFFICES ASSUME Init PROVE IInv
  OBVIOUS
<1> USE DEF Init, NoIndex, NoJob, NotAsked
<1>1. TypeOK
  BY DEF TypeOK, Labels, Positions, Signatures
<1>2. RebuildsExclude /\ Ordered
  BY DEF RebuildsExclude, Rebuilding, Ordered, DiskAhead, IndexHolds, NotAhead, NotBehind,
         HasRecords, HasDocuments
<1> QED
  BY <1>1, <1>2 DEF IInv

(* The types of the three records.                                          *)
IndexType == [kind : {"absent", "blank", "built"}, upto : Positions,
              doc : 0 .. MaxEdits, signature : Signatures]
JobType == [wrote : Positions, query : BOOLEAN, upto : Positions,
            doc : 0 .. MaxEdits, signature : Signatures]
AskedType == [since : Positions, alone : BOOLEAN]

(* The records a step starts again from have their types.                   *)
LEMMA BlankTypes ==
  /\ 0 \in Positions /\ NoJob \in JobType /\ NotAsked \in AskedType
  /\ NoIndex \in IndexType /\ BlankIndex \in IndexType
  BY DEF Positions, Signatures, JobType, AskedType, IndexType, NoJob, NotAsked, NoIndex, BlankIndex

(* A record with one field replaced keeps its type.                         *)
LEMMA UpdateTypes ==
  /\ \A j \in JobType, n \in Positions :
       [j EXCEPT !.wrote = n] \in JobType /\ [j EXCEPT !.upto = n] \in JobType
  /\ \A j \in JobType, d \in 0 .. MaxEdits : [j EXCEPT !.doc = d] \in JobType
  /\ \A j \in JobType, s \in Signatures : [j EXCEPT !.signature = s] \in JobType
  /\ \A j \in JobType : [j EXCEPT !.query = TRUE] \in JobType
  /\ \A a \in AskedType : [a EXCEPT !.alone = FALSE] \in AskedType
  BY DEF JobType, AskedType

(* What is on disk can be recorded.                                         *)
LEMMA DiskTypes == TypeOK => Len(log) \in Positions /\ CurrentSignature \in Signatures
  BY DEF TypeOK, Positions, Signatures, CurrentSignature

(* Every step keeps the variables in their types.                           *)
LEMMA TypeStep == TypeOK /\ [Next]_vars => TypeOK'
<1> SUFFICES ASSUME TypeOK, [Next]_vars PROVE TypeOK'
  OBVIOUS
<1> DEFINE Typed ==
      /\ log \in Seq(Positions) /\ Len(log) <= MaxEvents
      /\ doc \in 0 .. MaxEdits
      /\ index \in IndexType
      /\ pc \in [Procs -> Labels]
      /\ job \in [Procs -> JobType]
      /\ acked \in Positions
      /\ asked \in [Procs -> AskedType]
<1>a. Typed
  BY DEF TypeOK, IndexType, JobType, AskedType
<1>b. Typed' => TypeOK'
  BY DEF TypeOK, IndexType, JobType, AskedType
<1>c. Len(log) \in Positions /\ CurrentSignature \in Signatures
  BY DiskTypes
<1> USE <1>a, BlankTypes DEF Goto, Labels
<1>1. ASSUME NEW p \in Procs, NEW target \in Positions, AppendEvent(p, target) PROVE Typed'
  <2>1. log' \in Seq(Positions) /\ Len(log') <= MaxEvents /\ Len(log) + 1 \in Positions
    BY <1>1 DEF AppendEvent, Positions
  <2>2. [NoJob EXCEPT !.wrote = Len(log) + 1] \in JobType
    BY <2>1, UpdateTypes
  <2>3. asked' \in [Procs -> AskedType]
    BY <1>1, UpdateTypes DEF AppendEvent, Disturb
  <2> QED
    BY <1>1, <2>1, <2>2, <2>3 DEF AppendEvent
<1>2. ASSUME NEW p \in Procs, Rebuild(p) PROVE Typed'
  <2>1. asked' \in [Procs -> AskedType]
    BY <1>2, UpdateTypes DEF Rebuild, Disturb
  <2> QED
    BY <1>2, <2>1 DEF Rebuild
<1>3. ASSUME NEW p \in Procs, Search(p) PROVE Typed'
  <2>1. [since |-> acked, alone |-> NobodyElse(p)] \in AskedType
    BY DEF AskedType, NobodyElse
  <2>2. asked' \in [Procs -> AskedType]
    BY <1>3, <2>1, UpdateTypes DEF Search
  <2>3. [job[p] EXCEPT !.query = TRUE] \in JobType
    BY UpdateTypes
  <2>4. job' \in [Procs -> JobType]
    BY <1>3, <2>3 DEF Search
  <2> QED
    BY <1>3, <2>2, <2>4 DEF Search
<1>4. ASSUME NEW p \in Procs, LockIndex(p) PROVE Typed'
  BY <1>4 DEF LockIndex
<1>5. ASSUME NEW p \in Procs, ReadRecords(p) PROVE Typed'
  <2>1. [job[p] EXCEPT !.upto = Len(log)] \in JobType
    BY <1>c, UpdateTypes
  <2> QED
    BY <1>5, <2>1 DEF ReadRecords
<1>6. ASSUME NEW p \in Procs, ReadDocuments(p) PROVE Typed'
  <2>1. [job[p] EXCEPT !.doc = doc] \in JobType
    BY UpdateTypes
  <2> QED
    BY <1>6, <2>1 DEF ReadDocuments
<1>7. ASSUME NEW p \in Procs, TakeSignature(p) PROVE Typed'
  <2>1. [job[p] EXCEPT !.signature = CurrentSignature] \in JobType
    BY <1>c, UpdateTypes
  <2> QED
    BY <1>7, <2>1 DEF TakeSignature
<1>8. ASSUME NEW p \in Procs, Publish(p) PROVE Typed'
  <2>1. index' \in IndexType /\ acked' \in Positions
    BY <1>8 DEF Publish, IndexType, JobType
  <2> QED
    BY <1>8, <2>1 DEF Publish
<1>9. ASSUME NEW p \in Procs, RebuildRaises(p) PROVE Typed'
  BY <1>9 DEF RebuildRaises
<1>10. ASSUME NEW p \in Procs, Query(p) PROVE Typed'
  BY <1>10 DEF Query
<1>11. ASSUME NEW p \in Procs, Crash(p) PROVE Typed'
  BY <1>11 DEF Crash
<1>12. ASSUME DeleteIndex PROVE Typed'
  BY <1>12 DEF DeleteIndex
<1>13. ASSUME EditDocument PROVE Typed'
  <2>1. asked' \in [Procs -> AskedType]
    BY <1>13, UpdateTypes DEF EditDocument
  <2> QED
    BY <1>13, <2>1 DEF EditDocument
<1>14. ASSUME UNCHANGED vars PROVE Typed'
  BY <1>14 DEF vars
<1>15. Typed'
  BY <1>1, <1>2, <1>3, <1>4, <1>5, <1>6, <1>7, <1>8, <1>9, <1>10, <1>11, <1>12, <1>13, <1>14
     DEF Next
<1> QED
  BY <1>15, <1>b

(* A rebuild starts only when none is under way.                            *)
LEMMA ExcludeStep == TypeOK /\ RebuildsExclude /\ [Next]_vars => RebuildsExclude'
<1> SUFFICES ASSUME TypeOK, RebuildsExclude, [Next]_vars PROVE RebuildsExclude'
  OBVIOUS
<1> USE DEF RebuildsExclude, Rebuilding, Goto
<1>a. pc \in [Procs -> Labels]
  BY DEF TypeOK
<1> USE <1>a
<1>1. ASSUME NEW p \in Procs, NEW target \in Positions, AppendEvent(p, target) PROVE RebuildsExclude'
  BY <1>1 DEF AppendEvent, Disturb
<1>2. ASSUME NEW p \in Procs, Rebuild(p) PROVE RebuildsExclude'
  BY <1>2 DEF Rebuild, Disturb
<1>3. ASSUME NEW p \in Procs, Search(p) PROVE RebuildsExclude'
  BY <1>3 DEF Search
<1>4. ASSUME NEW p \in Procs, LockIndex(p) PROVE RebuildsExclude'
  BY <1>4 DEF LockIndex
<1>5. ASSUME NEW p \in Procs, ReadRecords(p) PROVE RebuildsExclude'
  BY <1>5 DEF ReadRecords
<1>6. ASSUME NEW p \in Procs, ReadDocuments(p) PROVE RebuildsExclude'
  BY <1>6 DEF ReadDocuments
<1>7. ASSUME NEW p \in Procs, TakeSignature(p) PROVE RebuildsExclude'
  BY <1>7 DEF TakeSignature
<1>8. ASSUME NEW p \in Procs, Publish(p) PROVE RebuildsExclude'
  BY <1>8 DEF Publish
<1>9. ASSUME NEW p \in Procs, RebuildRaises(p) PROVE RebuildsExclude'
  BY <1>9 DEF RebuildRaises
<1>10. ASSUME NEW p \in Procs, Query(p) PROVE RebuildsExclude'
  BY <1>10 DEF Query, BlankIndex
<1>11. ASSUME NEW p \in Procs, Crash(p) PROVE RebuildsExclude'
  BY <1>11 DEF Crash
<1>12. CASE DeleteIndex
  BY <1>12 DEF DeleteIndex
<1>13. CASE EditDocument
  BY <1>13 DEF EditDocument
<1>14. CASE UNCHANGED vars
  BY <1>14 DEF vars
<1> QED
  BY <1>1, <1>2, <1>3, <1>4, <1>5, <1>6, <1>7, <1>8, <1>9, <1>10, <1>11, <1>12, <1>13, <1>14
     DEF Next

(* The variables that are compared are numbers.                             *)
LEMMA Numbers ==
  TypeOK => /\ Len(log) \in Nat /\ doc \in Nat /\ acked \in Nat
            /\ index.upto \in Nat /\ index.doc \in Nat
            /\ \A q \in Procs : /\ job[q].wrote \in Nat /\ job[q].upto \in Nat
                                 /\ job[q].doc \in Nat /\ asked[q].since \in Nat
  BY DEF TypeOK, Positions

(* Every step keeps the acknowledged and the published behind the disk, and *)
(* the acknowledged inside the published.                                   *)
LEMMA PublishedStep == IInv /\ [Next]_vars => DiskAhead' /\ IndexHolds'
<1> SUFFICES ASSUME IInv, [Next]_vars PROVE (DiskAhead /\ IndexHolds)'
  OBVIOUS
<1>a. TypeOK /\ DiskAhead /\ IndexHolds /\ \A q \in Procs : NotAhead(q) /\ NotBehind(q)
  BY DEF IInv, Ordered
<1> USE <1>a, Numbers DEF DiskAhead, IndexHolds, NoIndex
<1>1. ASSUME NEW p \in Procs, NEW target \in Positions, AppendEvent(p, target) PROVE (DiskAhead /\ IndexHolds)'
  <2>1. Len(log') = Len(log) + 1
    BY <1>1 DEF AppendEvent, TypeOK
  <2> QED
    BY <1>1, <2>1 DEF AppendEvent
<1>2. ASSUME NEW p \in Procs, Rebuild(p) PROVE (DiskAhead /\ IndexHolds)'
  BY <1>2 DEF Rebuild, Disturb
<1>3. ASSUME NEW p \in Procs, Search(p) PROVE (DiskAhead /\ IndexHolds)'
  BY <1>3 DEF Search
<1>4. ASSUME NEW p \in Procs, LockIndex(p) PROVE (DiskAhead /\ IndexHolds)'
  BY <1>4 DEF LockIndex
<1>5. ASSUME NEW p \in Procs, ReadRecords(p) PROVE (DiskAhead /\ IndexHolds)'
  BY <1>5 DEF ReadRecords
<1>6. ASSUME NEW p \in Procs, ReadDocuments(p) PROVE (DiskAhead /\ IndexHolds)'
  BY <1>6 DEF ReadDocuments
<1>7. ASSUME NEW p \in Procs, TakeSignature(p) PROVE (DiskAhead /\ IndexHolds)'
  BY <1>7 DEF TakeSignature
<1>8. ASSUME NEW p \in Procs, Publish(p) PROVE (DiskAhead /\ IndexHolds)'
  <2>1. NotAhead(p) /\ acked <= job[p].upto /\ job[p].wrote <= job[p].upto
    BY <1>8 DEF Publish, NotBehind, HasRecords
  <2>2. index'.kind = "built" /\ index'.upto = job[p].upto /\ index'.doc = job[p].doc
    BY <1>8 DEF Publish
  <2> QED
    BY <1>8, <2>1, <2>2 DEF Publish, NotAhead
<1>9. ASSUME NEW p \in Procs, RebuildRaises(p) PROVE (DiskAhead /\ IndexHolds)'
  BY <1>9 DEF RebuildRaises
<1>10. ASSUME NEW p \in Procs, Query(p) PROVE (DiskAhead /\ IndexHolds)'
  BY <1>10 DEF Query, BlankIndex
<1>11. ASSUME NEW p \in Procs, Crash(p) PROVE (DiskAhead /\ IndexHolds)'
  BY <1>11 DEF Crash
<1>12. CASE DeleteIndex
  BY <1>12 DEF DeleteIndex
<1>13. CASE EditDocument
  BY <1>13 DEF EditDocument
<1>14. CASE UNCHANGED vars
  BY <1>14 DEF vars
<1> QED
  BY <1>1, <1>2, <1>3, <1>4, <1>5, <1>6, <1>7, <1>8, <1>9, <1>10, <1>11, <1>12, <1>13, <1>14
     DEF Next

(* Every step keeps what a process has read between what is published or    *)
(* acknowledged and what is on disk.                                        *)
LEMMA ReadStep ==
  ASSUME IInv, [Next]_vars, NEW q \in Procs
  PROVE  NotAhead(q)' /\ NotBehind(q)'
<1> DEFINE Rest == NotAhead(q) /\ NotBehind(q)
<1>a. /\ TypeOK /\ DiskAhead /\ IndexHolds /\ Rest
  BY DEF IInv, Ordered
<1>b. /\ pc \in [Procs -> Labels] /\ job = [p \in Procs |-> job[p]]
      /\ asked = [p \in Procs |-> asked[p]]
  BY <1>a DEF TypeOK, NoJob
<1> USE <1>a, <1>b, Numbers DEF NotAhead, NotBehind, HasRecords, HasDocuments, Goto, NoJob, NotAsked,
    DiskAhead, IndexHolds
<1>1. ASSUME NEW p \in Procs, NEW target \in Positions, AppendEvent(p, target) PROVE Rest'
  BY <1>1 DEF AppendEvent, Disturb
<1>2. ASSUME NEW p \in Procs, Rebuild(p) PROVE Rest'
  BY <1>2 DEF Rebuild, Disturb
<1>3. ASSUME NEW p \in Procs, Search(p) PROVE Rest'
  <2>1. asked'[q].since \in {asked[q].since, acked}
    BY <1>3 DEF Search, TypeOK
  <2>2. /\ job'[q].wrote = job[q].wrote /\ job'[q].upto = job[q].upto
        /\ job'[q].doc = job[q].doc
    <3>1. job'[q] \in {job[q], [job[q] EXCEPT !.query = TRUE]}
      BY <1>3 DEF Search
    <3>2. job[q] \in JobType
      BY DEF TypeOK, JobType
    <3> QED
      BY ONLY <3>1, <3>2 DEF JobType
  <2>3. pc'[q] = pc[q] \/ pc'[q] \in {"query", "lock"}
    BY <1>3 DEF Search
  <2> QED
    BY <1>3, <2>1, <2>2, <2>3 DEF Search
<1>4. ASSUME NEW p \in Procs, LockIndex(p) PROVE Rest'
  BY <1>4 DEF LockIndex
<1>5. ASSUME NEW p \in Procs, ReadRecords(p) PROVE Rest'
  BY <1>5 DEF ReadRecords
<1>6. ASSUME NEW p \in Procs, ReadDocuments(p) PROVE Rest'
  BY <1>6 DEF ReadDocuments
<1>7. ASSUME NEW p \in Procs, TakeSignature(p) PROVE Rest'
  BY <1>7 DEF TakeSignature
<1>8. ASSUME NEW p \in Procs, Publish(p) PROVE Rest'
  <2>1. NotAhead(p) /\ acked <= acked'
    BY <1>8 DEF Publish, IInv, Ordered
  <2>2. CASE q = p
    <3>1. pc'[q] \in {"query", "idle"} /\ job'[q].wrote = 0 /\ job'[q].upto = 0 /\ job'[q].doc = 0
      BY <1>8, <2>2 DEF Publish
    <3> QED
      BY <1>8, <2>1, <3>1 DEF Publish
  <2>3. CASE q # p
    <3>1. ~HasRecords(q) /\ ~HasDocuments(q)
      BY <1>8, <2>3 DEF Publish, IInv, RebuildsExclude, Rebuilding
    <3>2. pc'[q] = pc[q] /\ job'[q] = job[q]
      BY <1>8, <2>3 DEF Publish
    <3>3. NotBehind(q)'
      BY <3>1, <3>2
    <3>4. acked \in Nat /\ acked' \in Nat /\ UNCHANGED <<log, doc, asked>>
      BY <1>8 DEF Publish
    <3>5. NotAhead(q)'
      BY <2>1, <3>2, <3>4
    <3> QED
      BY <3>3, <3>5
  <2> QED
    BY <2>2, <2>3
<1>9. ASSUME NEW p \in Procs, RebuildRaises(p) PROVE Rest'
  BY <1>9 DEF RebuildRaises
<1>10. ASSUME NEW p \in Procs, Query(p) PROVE Rest'
  BY <1>10 DEF Query, BlankIndex
<1>11. ASSUME NEW p \in Procs, Crash(p) PROVE Rest'
  BY <1>11 DEF Crash
<1>12. CASE DeleteIndex
  BY <1>12 DEF DeleteIndex, NoIndex
<1>13. CASE EditDocument
  <2>1. asked'[q].since = asked[q].since
    BY <1>13 DEF EditDocument, TypeOK
  <2> QED
    BY <1>13, <2>1 DEF EditDocument
<1>14. CASE UNCHANGED vars
  BY <1>14 DEF vars
<1> QED
  BY <1>1, <1>2, <1>3, <1>4, <1>5, <1>6, <1>7, <1>8, <1>9, <1>10, <1>11, <1>12, <1>13, <1>14
     DEF Next

(* The order of what is read, published and on disk is kept.                *)
LEMMA OrderStep == IInv /\ [Next]_vars => Ordered'
  BY PublishedStep, ReadStep DEF Ordered

(* The inductive invariant holds in every reachable state.                  *)
LEMMA IInvAlways == Spec => []IInv
<1>1. IInv /\ [Next]_vars => IInv'
  BY TypeStep, ExcludeStep, OrderStep DEF IInv
<1> QED
  BY <1>1, InitIInv, PTL DEF Spec

(* TypeOK: the variables of SearchIndex keep their types.                   *)
THEOREM TypeCorrect == Spec => []TypeOK
  BY IInvAlways, PTL DEF IInv

(* SearchSeesAcknowledged: whatever index a search finds at the path, it was*)
(* built from a log that held every event acknowledged when the search      *)
(* began, however rebuilds, appends, failures and crashes interleave.       *)
THEOREM SearchSees == Spec => SearchSeesAcknowledged
<1>1. IInv /\ [Next]_vars => \A p \in Procs : Answers(p) => index.upto >= asked[p].since
  BY DEF IInv, TypeOK, Positions, Ordered, IndexHolds, NotAhead, Answers
<1> QED
  BY <1>1, IInvAlways, PTL DEF Spec, SearchSeesAcknowledged

(* IndexNeverGoesBack: a published index is replaced only by one that was   *)
(* read from the same or a later log and documents.                         *)
THEOREM NeverGoesBack == Spec => IndexNeverGoesBack
<1> DEFINE Forward ==
      index.kind = "built" /\ index'.kind = "built" =>
        index'.upto >= index.upto /\ index'.doc >= index.doc
<1>1. ASSUME IInv, [Next]_vars PROVE Forward
  <2> USE DEF IInv, TypeOK, Positions
  <2>1. ASSUME NEW p \in Procs, Publish(p) PROVE Forward
    BY <1>1, <2>1 DEF Publish, Ordered, NotBehind, HasRecords, HasDocuments
  <2>2. ASSUME NEW p \in Procs, Query(p) PROVE Forward
    BY <1>1, <2>2 DEF Query, BlankIndex, NoIndex
  <2>3. CASE DeleteIndex
    BY <2>3 DEF DeleteIndex, NoIndex
  <2>4. CASE UNCHANGED index
    BY <1>1, <2>4
  <2> QED
    BY <1>1, <2>1, <2>2, <2>3, <2>4 DEF Next, vars, AppendEvent, Rebuild, Search, LockIndex,
       ReadRecords, ReadDocuments, TakeSignature, RebuildRaises, Crash, EditDocument
<1> QED
  BY <1>1, IInvAlways, PTL DEF Spec, IndexNeverGoesBack
=============================================================================
