---------------------------- MODULE StageProofs ----------------------------
(***************************************************************************)
(* Proofs about StageRecords, for any plan, pool, breakers and number of   *)
(* runs.                                                                   *)
(***************************************************************************)
EXTENDS StageRecords, SequenceTheorems, TLAPS

-----------------------------------------------------------------------------
(* The record file *)

(* The next file holds the records of this one and the first n rows.        *)
GrowsBy(rows, n) ==
  /\ n \in 0 .. Len(rows)
  /\ Len(file'.records) = Len(file.records) + n
  /\ \A k \in 1 .. Len(file.records) : file'.records[k] = file.records[k]
  /\ \A k \in 1 .. n : file'.records[Len(file.records) + k] = rows[k]

(* The first n rows appended, however the file then ends.                   *)
LEMMA AppendedPrefix ==
  ASSUME file \in Files(Record), NEW rows \in Seq(Record), NEW n \in 0 .. Len(rows),
         NEW end \in Ends,
         file' = [records |-> file.records \o SubSeq(rows, 1, n), end |-> end]
  PROVE  file' \in Files(Record) /\ GrowsBy(rows, n)
<1> DEFINE some == SubSeq(rows, 1, n)
           old == file.records
<1>1. some \in Seq(Record) /\ Len(some) = n /\ \A k \in 1 .. n : some[k] = rows[k]
  BY SubSeqProperties
<1>2. old \in Seq(Record)
  BY DEF Files
<1>3. file'.records = old \o some /\ file'.end = end
  OBVIOUS
<1>4. file' = [records |-> old \o some, end |-> end]
  OBVIOUS
<1> HIDE DEF some, old
<1>a. n \in Nat /\ Len(old) \in Nat /\ Len(some) = n
  BY <1>1, <1>2
<1>b. /\ old \o some \in Seq(Record)
      /\ Len(old \o some) = Len(old) + Len(some)
      /\ \A k \in 1 .. Len(old) + Len(some) :
           (old \o some)[k] = IF k <= Len(old) THEN old[k] ELSE some[k - Len(old)]
  BY <1>1, <1>2, ConcatProperties
<1>c. \A k \in 1 .. Len(old) : (old \o some)[k] = old[k]
  BY <1>a, <1>b
<1>d. ASSUME NEW k \in 1 .. n PROVE (old \o some)[Len(old) + k] = some[k]
  <2>1. Len(old) + k \in 1 .. Len(old) + Len(some)
        /\ ~(Len(old) + k <= Len(old)) /\ (Len(old) + k) - Len(old) = k
    BY <1>a
  <2> QED
    BY <1>b, <2>1
<1>5. /\ old \o some \in Seq(Record)
      /\ Len(old \o some) = Len(old) + n
      /\ \A k \in 1 .. Len(old) : (old \o some)[k] = old[k]
      /\ \A k \in 1 .. n : (old \o some)[Len(old) + k] = some[k]
  BY <1>a, <1>b, <1>c, <1>d
<1>6. file' \in Files(Record)
  BY <1>4, <1>5 DEF Files
<1>7. old = file.records
  BY DEF old
<1>8. \A k \in 1 .. n : (old \o some)[Len(old) + k] = rows[k]
  BY <1>1, <1>5
<1> QED
  BY <1>3, <1>5, <1>6, <1>7, <1>8 DEF GrowsBy

LEMMA AppendedGrows ==
  ASSUME file \in Files(Record), NEW rows \in Seq(Record), file' = Appended(file, rows)
  PROVE  file' \in Files(Record) /\ GrowsBy(rows, Len(rows))
<1>1. SubSeq(rows, 1, Len(rows)) = rows
  BY SubSeqFull
<1>2. file' = [records |-> file.records \o SubSeq(rows, 1, Len(rows)), end |-> "newline"]
  BY <1>1 DEF Appended, Repaired, Files
<1>3. "newline" \in Ends /\ Len(rows) \in 0 .. Len(rows)
  BY LenProperties DEF Ends
<1> QED
  BY <1>2, <1>3, AppendedPrefix

LEMMA CutShortGrows ==
  ASSUME file \in Files(Record), NEW rows \in Seq(Record), file' \in CutShort(file, rows)
  PROVE  file' \in Files(Record) /\ \E n \in 0 .. Len(rows) : GrowsBy(rows, n)
<1>1. Len(rows) \in Nat /\ Len(file.records) \in Nat
  BY LenProperties DEF Files
<1>2. CASE file' = file
  <2>1. GrowsBy(rows, 0)
    BY <1>1, <1>2 DEF GrowsBy
  <2> QED
    BY <1>1, <1>2, <2>1
<1>3. CASE file' # file
  <2>1. PICK c \in [whole : 0 .. Len(rows), end : Ends] :
          file' = [records |-> Repaired(file).records \o SubSeq(rows, 1, c.whole),
                   end |-> c.end]
    BY <1>3 DEF CutShort
  <2>2. Repaired(file).records = file.records
    BY DEF Repaired, Files
  <2>3. c.whole \in 0 .. Len(rows) /\ c.end \in Ends
    OBVIOUS
  <2> QED
    BY <2>1, <2>2, <2>3, AppendedPrefix
<1> QED
  BY <1>2, <1>3

-----------------------------------------------------------------------------
(* Types *)

LEMMA ResultsTyped ==
  ASSUME NEW t \in Tallies, NEW result \in Results
  PROVE  Counted(t, result) \in Tallies
<1>1. result.failed \in 0 .. 2
  BY DEF Results
<1>2. t.calls \in Nat /\ t.failed \in Nat /\ t.streak \in Nat /\ t.errorRun \in Nat
      /\ t.dropped \in Nat /\ t.checked \in BOOLEAN
  BY DEF Tallies
<1>3. /\ t.calls + (IF result.kind = "label" THEN result.failed + 1 ELSE 2) \in Nat
      /\ t.failed + result.failed \in Nat
      /\ (IF result.kind = "label" THEN 0 ELSE t.streak + 1) \in Nat
      /\ (IF result.kind = "error" THEN t.errorRun + 1 ELSE 0) \in Nat
  BY <1>1, <1>2
<1> QED
  BY <1>2, <1>3 DEF Counted, Tallies

LEMMA UnansweredIsRecord == Seq(Unanswered) \subseteq Seq(Record)
<1>1. Unanswered \subseteq Record
  BY DEF Unanswered, Record, Kinds
<1> QED
  BY <1>1

LEMMA RowsTyped ==
  ASSUME TypeOK, NEW i \in Items
  PROVE  /\ Rows(i) \in Seq(Record) /\ pending \in Seq(Record)
         /\ Len(pending) \in Nat /\ Len(Rows(i)) = Len(pending) + 1 /\ Len(Rows(i)) \in Nat
         /\ \A k \in 1 .. Len(pending) : Rows(i)[k] = pending[k]
         /\ Rows(i)[Len(pending) + 1] = [item |-> i, kind |-> row[i]]
<1>1. pending \in Seq(Record)
  BY UnansweredIsRecord DEF TypeOK
<1>2. [item |-> i, kind |-> row[i]] \in Record
  BY DEF TypeOK, Record
<1> QED
  BY <1>1, <1>2, AppendProperties, LenProperties DEF Rows

LEMMA SettleTyped ==
  ASSUME TypeOK, NEW i \in Items, NEW t \in Tallies, NEW held \in Seq(Unanswered),
         Settle(i, t, held)
  PROVE  /\ tally' \in Tallies
         /\ pending' \in Seq(Unanswered)
         /\ stop' \in {"no", "refused", "aborted"}
         /\ at' \in [Items -> {"no", "asking", "holding", "done", "raised"}]
<1>1. <<>> \in Seq(Unanswered) /\ Len(held) \in Nat
  BY EmptySeq, LenProperties
<1>2. CASE Breaks(t)
  <2>1. [t EXCEPT !.dropped = @ + Len(held)] \in Tallies
    BY <1>1 DEF Tallies
  <2> QED
    BY <1>1, <1>2, <2>1 DEF Settle, Abort, Goto, TypeOK
<1>3. CASE ~Breaks(t)
  <2>1. (t.checked \/ WindowDue(t)) \in BOOLEAN
    OBVIOUS
  <2>2. [t EXCEPT !.checked = (t.checked \/ WindowDue(t))] \in Tallies
    <3> HIDE DEF WindowDue
    <3> QED
      BY <2>1, Zenon DEF Tallies
  <2> QED
    BY <1>1, <1>3, <2>2 DEF Settle, Goto, TypeOK
<1> QED
  BY <1>2, <1>3

LEMMA InitType == Init => TypeOK
<1> SUFFICES ASSUME Init PROVE TypeOK
  OBVIOUS
<1>1. <<>> \in Seq(Record) /\ <<>> \in Seq(Unanswered)
  BY EmptySeq
<1>2. file \in Files(Record)
  BY <1>1 DEF Init, Files, Empty, Ends
<1>3. NoTally \in Tallies
  BY DEF NoTally, Tallies
<1>4. passes \in 0 .. MaxPasses /\ cuts \in 0 .. MaxCuts /\ late \in Nat
  BY StageAssumption DEF Init
<1>5. /\ at \in [Items -> {"no", "asking", "holding", "done", "raised"}]
      /\ row \in [Items -> Kinds]
  BY DEF Init, Kinds
<1> QED
  BY <1>1, <1>2, <1>3, <1>4, <1>5 DEF Init, TypeOK

(* What is held are results without a reply.                                *)
LEMMA HeldTyped ==
  ASSUME TypeOK
  PROVE  /\ pending \in Seq(Record)
         /\ DOMAIN pending = 1 .. Len(pending) /\ Len(pending) \in Nat
         /\ \A k \in DOMAIN pending : pending[k].item \in Items /\ pending[k].kind = "error"
<1>1. pending \in Seq(Unanswered)
  BY DEF TypeOK
<1>2. DOMAIN pending = 1 .. Len(pending) /\ Len(pending) \in Nat
  BY <1>1, LenProperties
<1>3. ASSUME NEW k \in DOMAIN pending PROVE pending[k] \in Unanswered
  BY <1>1, <1>2, ElementOfSeq
<1> QED
  BY <1>1, <1>2, <1>3, UnansweredIsRecord DEF Unanswered

LEMMA TypeStep == TypeOK /\ [Next]_vars => TypeOK'
<1> SUFFICES ASSUME TypeOK, [Next]_vars PROVE TypeOK'
  OBVIOUS
<1>1. CASE Start
  BY <1>1, StageAssumption, EmptySeq DEF TypeOK, Start, TakeLock, Missing, NoTally, Kinds, Tallies,
                                               Unanswered
<1>2. CASE DeleteStaleLock
  BY <1>2 DEF TypeOK, DeleteStaleLock, memory
<1>3. CASE NextChunk
  BY <1>3 DEF TypeOK, NextChunk, Slices
<1>4. CASE GuardStops
  BY <1>4 DEF TypeOK, GuardStops, EndPass, memory
<1>5. CASE Cancel
  BY <1>5 DEF TypeOK, Cancel
<1>6. CASE PassFails
  BY <1>6 DEF TypeOK, PassFails, EndPass, memory
<1>7. CASE Finish
  <2>1. pending \in Seq(Record)
    BY UnansweredIsRecord DEF TypeOK
  <2>2. file' \in Files(Record)
    BY <1>7, <2>1, AppendedGrows DEF TypeOK, Finish
  <2> QED
    BY <1>7, <2>2 DEF TypeOK, Finish, EndPass, memory
<1>8. CASE FinishFails
  <2>1. pending \in Seq(Record)
    BY UnansweredIsRecord DEF TypeOK
  <2>2. file' \in Files(Record)
    BY <1>8, <2>1, CutShortGrows DEF TypeOK, FinishFails
  <2>3. cuts' \in 0 .. MaxCuts
    BY <1>8, StageAssumption DEF TypeOK, FinishFails
  <2> QED
    BY <1>8, <2>2, <2>3 DEF TypeOK, FinishFails, EndPass, memory
<1>9. CASE Crash
  <2>1. pending \in Seq(Record)
    BY UnansweredIsRecord DEF TypeOK
  <2>2. cuts' \in 0 .. MaxCuts
    BY <1>9, StageAssumption DEF TypeOK, Crash
  <2>3. file \in Files(Record) /\ \A i \in Items : Rows(i) \in Seq(Record)
    BY RowsTyped DEF TypeOK
  <2>4. \/ UNCHANGED file
        \/ \E i \in Items : file' \in CutShort(file, Rows(i))
        \/ file' \in CutShort(file, pending)
    BY <1>9 DEF Crash
  <2>5. file' \in Files(Record)
    BY <2>1, <2>3, <2>4, CutShortGrows
  <2> QED
    BY <1>9, <2>2, <2>5 DEF TypeOK, Crash, memory
<1>10. ASSUME NEW i \in Items, Take(i) PROVE TypeOK'
  BY <1>10 DEF TypeOK, Take, Goto
<1>11. ASSUME NEW i \in Items, Refuse(i) PROVE TypeOK'
  BY <1>11 DEF TypeOK, Refuse, Goto
<1>12. ASSUME NEW i \in Items, Discard(i) PROVE TypeOK'
  BY <1>12 DEF TypeOK, Discard, Goto
<1>13. ASSUME NEW i \in Items, ReceiveError(i) PROVE TypeOK'
  <2> DEFINE t == Counted(tally, [kind |-> "error", failed |-> 2])
  <2>1. t \in Tallies
    BY ResultsTyped DEF Results, TypeOK
  <2>2. [t EXCEPT !.dropped = @ + 1] \in
          Tallies
    BY <2>1 DEF Tallies
  <2>3. Append(pending, [item |-> i, kind |-> "error"]) \in Seq(Unanswered)
    <3>1. [item |-> i, kind |-> "error"] \in Unanswered
      BY DEF Unanswered
    <3> QED
      BY <3>1, AppendProperties DEF TypeOK
  <2> HIDE DEF t
  <2>4. /\ tally' \in Tallies
        /\ pending' \in Seq(Unanswered)
        /\ stop' \in {"no", "refused", "aborted"}
        /\ at' \in [Items -> {"no", "asking", "holding", "done", "raised"}]
    <3>1. CASE keep
      BY <1>13, <2>1, <2>3, <3>1, SettleTyped DEF ReceiveError, t
    <3>2. CASE ~keep
      BY <1>13, <2>2, <3>2, SettleTyped DEF ReceiveError, t, TypeOK
    <3> QED
      BY <3>1, <3>2
  <2> QED
    BY <1>13, <2>4 DEF TypeOK, ReceiveError
<1>14. ASSUME NEW i \in Items, Receive(i) PROVE TypeOK'
  <2>1. PICK result \in Results :
          tally' = Counted(tally, result) /\ row' = [row EXCEPT ![i] = result.kind]
    BY <1>14 DEF Receive
  <2>2. result.kind \in Kinds
    BY DEF Results, Kinds
  <2>3. tally' \in Tallies
    BY <2>1, ResultsTyped DEF TypeOK
  <2> QED
    BY <1>14, <2>1, <2>2, <2>3 DEF TypeOK, Receive, Goto
<1>15. ASSUME NEW i \in Items, Write(i) PROVE TypeOK'
  <2>1. file' \in Files(Record)
    BY <1>15, AppendedGrows, RowsTyped DEF TypeOK, Write
  <2>2. <<>> \in Seq(Unanswered)
    OBVIOUS
  <2>3. /\ tally' \in Tallies
        /\ pending' \in Seq(Unanswered)
        /\ stop' \in {"no", "refused", "aborted"}
        /\ at' \in [Items -> {"no", "asking", "holding", "done", "raised"}]
    BY <1>15, <2>2, SettleTyped DEF Write, TypeOK
  <2> QED
    BY <1>15, <2>1, <2>3 DEF TypeOK, Write
<1>16. ASSUME NEW i \in Items, WriteFails(i) PROVE TypeOK'
  <2>1. file' \in Files(Record)
    BY <1>16, CutShortGrows, RowsTyped DEF TypeOK, WriteFails
  <2>2. \A k \in DOMAIN pending : pending[k].item \in Items
    BY HeldTyped
  <2>3. late' \in Nat /\ cuts' \in 0 .. MaxCuts
    BY <1>16, StageAssumption DEF TypeOK, WriteFails
  <2> QED
    BY <1>16, <2>1, <2>2, <2>3 DEF TypeOK, WriteFails, Goto
<1>17. CASE UNCHANGED vars
  BY <1>17 DEF TypeOK, vars, memory
<1> QED
  BY <1>1, <1>2, <1>3, <1>4, <1>5, <1>6, <1>7, <1>8, <1>9, <1>10, <1>11, <1>12, <1>13,
     <1>14, <1>15, <1>16, <1>17 DEF Next

(* Every variable keeps its type, for any plan, pool and breakers.          *)
THEOREM TypeCorrect == Spec => []TypeOK
  BY InitType, TypeStep, PTL DEF Spec

-----------------------------------------------------------------------------
(* The lock and what is held *)

(* At most one thread holds the lock, with a reply; what is held are rows   *)
(* of finished items, each once, and of the judge's stages only.            *)
Hands ==
  /\ \A i \in Items : at[i] # "no" => i \in given
  /\ \A i, j \in Items : at[i] = "holding" /\ at[j] = "holding" => i = j
  /\ \A i \in Items : at[i] = "holding" => row[i] # "error"
  /\ \A k \in DOMAIN pending : at[pending[k].item] = "done"
  /\ \A k, l \in DOMAIN pending : pending[k].item = pending[l].item => k = l
  /\ keep \/ pending = <<>>

(* A result without a reply is held or dropped, or breaks the stage off.    *)
LEMMA ReceiveErrorEffect ==
  ASSUME TypeOK, NEW i \in Items, ReceiveError(i)
  PROVE  \/ /\ at' = [at EXCEPT ![i] = "done"] /\ stop' = "no"
            /\ \/ /\ keep /\ tally'.dropped = tally.dropped
                  /\ pending' = Append(pending, [item |-> i, kind |-> "error"])
               \/ ~keep /\ pending' = pending /\ tally'.dropped = tally.dropped + 1
         \/ /\ at' = [at EXCEPT ![i] = "raised"] /\ stop' = "aborted" /\ pending' = <<>>
<1> DEFINE t == Counted(tally, [kind |-> "error", failed |-> 2])
<1>1. t \in Tallies /\ t.dropped = tally.dropped
  BY ResultsTyped DEF Results, TypeOK, Counted
<1>2. [t EXCEPT !.dropped = @ + 1].dropped = t.dropped + 1
      /\ [t EXCEPT !.dropped = @ + 1] \in Tallies
  BY <1>1 DEF Tallies
<1> HIDE DEF t
<1>3. \A u \in Tallies : [u EXCEPT !.checked = @ \/ WindowDue(u)].dropped = u.dropped
  BY DEF Tallies
<1>4. CASE keep
  <2>1. Settle(i, t, Append(pending, [item |-> i, kind |-> "error"])) /\ stop = "no"
    BY <1>4 DEF ReceiveError, t
  <2> QED
    BY <1>1, <1>3, <1>4, <2>1 DEF Settle, Abort, Goto
<1>5. CASE ~keep
  <2>1. Settle(i, [t EXCEPT !.dropped = @ + 1], pending) /\ stop = "no"
    BY <1>5 DEF ReceiveError, t
  <2> QED
    BY <1>1, <1>2, <1>3, <1>5, <2>1 DEF Settle, Abort, Goto
<1> QED
  BY <1>4, <1>5

LEMMA WriteEffect ==
  ASSUME TypeOK, NEW i \in Items, Write(i)
  PROVE  /\ pending' = <<>>
         /\ \/ /\ at' = [at EXCEPT ![i] = "done"]
               /\ stop' = stop /\ tally'.dropped = tally.dropped
            \/ /\ at' = [at EXCEPT ![i] = "raised"]
               /\ stop' = IF stop = "no" THEN "aborted" ELSE stop
<1>1. \A u \in Tallies : [u EXCEPT !.checked = @ \/ WindowDue(u)].dropped = u.dropped
  BY DEF Tallies
<1> QED
  BY <1>1 DEF Write, Settle, Abort, Goto, TypeOK

LEMMA HandsStep == TypeOK /\ Hands /\ [Next]_vars => Hands'
<1> SUFFICES ASSUME TypeOK, Hands, [Next]_vars PROVE Hands'
  OBVIOUS
<1>h. pending \in Seq(Record) /\ \A k \in DOMAIN pending : pending[k].item \in Items
  BY HeldTyped
<1>1. CASE Start
  BY <1>1 DEF Hands, Start
<1>2. CASE DeleteStaleLock \/ GuardStops \/ PassFails \/ Finish \/ FinishFails \/ Crash
  BY <1>2 DEF Hands, DeleteStaleLock, GuardStops, PassFails, Finish, FinishFails, Crash,
             EndPass, memory
<1>3. CASE NextChunk
  BY <1>3 DEF Hands, NextChunk
<1>4. CASE Cancel
  BY <1>4 DEF Hands, Cancel
<1>5. ASSUME NEW i \in Items, Take(i) PROVE Hands'
  BY <1>5, <1>h DEF Hands, Take, Goto, TypeOK
<1>6. ASSUME NEW i \in Items, Refuse(i) \/ Discard(i) \/ Receive(i) \/ WriteFails(i) PROVE Hands'
  <2>1. CASE Refuse(i)
    BY <1>h, <2>1 DEF Hands, Refuse, Goto, TypeOK
  <2>2. CASE Discard(i)
    BY <1>h, <2>2 DEF Hands, Discard, Goto, TypeOK
  <2>3. CASE Receive(i)
    <3>1. row' = [row EXCEPT ![i] = row'[i]] /\ row'[i] # "error"
      BY <2>3 DEF Receive, Results, TypeOK
    <3> QED
      BY <1>h, <2>3, <3>1 DEF Hands, Receive, Goto, TypeOK, Free
  <2>4. CASE WriteFails(i)
    BY <1>h, <2>4 DEF Hands, WriteFails, Goto, TypeOK
  <2> QED
    BY <1>6, <2>1, <2>2, <2>3, <2>4
<1>7. ASSUME NEW i \in Items, ReceiveError(i) PROVE Hands'
  <2>1. /\ keep' = keep /\ row' = row /\ given' = given /\ at[i] = "asking"
    BY <1>7 DEF ReceiveError
  <2>2. CASE pending' = Append(pending, [item |-> i, kind |-> "error"]) /\ keep
             /\ at' = [at EXCEPT ![i] = "done"]
    <3>1. [item |-> i, kind |-> "error"] \in Record
      BY DEF Record, Kinds
    <3>2. /\ DOMAIN pending' = 1 .. Len(pending) + 1
          /\ DOMAIN pending = 1 .. Len(pending) /\ Len(pending) \in Nat
          /\ \A k \in 1 .. Len(pending) : pending'[k] = pending[k]
          /\ pending'[Len(pending) + 1].item = i
      BY <1>h, <2>2, <3>1, AppendProperties, LenProperties
    <3>3. \A k \in DOMAIN pending : pending[k].item # i
      BY <2>1 DEF Hands
    <3>4. \A k \in DOMAIN pending' : at'[pending'[k].item] = "done"
      BY <1>h, <2>2, <3>2, <3>3 DEF Hands, TypeOK
    <3>5. \A k, l \in DOMAIN pending' : pending'[k].item = pending'[l].item => k = l
      BY <3>2, <3>3 DEF Hands
    <3> QED
      BY <2>1, <2>2, <3>4, <3>5 DEF Hands, TypeOK
  <2>3. CASE pending' = pending /\ at' = [at EXCEPT ![i] = "done"]
    BY <1>h, <2>1, <2>3 DEF Hands, TypeOK
  <2>4. CASE pending' = <<>> /\ at' = [at EXCEPT ![i] = "raised"]
    BY <2>1, <2>4 DEF Hands, TypeOK
  <2> QED
    BY <1>7, <2>2, <2>3, <2>4, ReceiveErrorEffect
<1>8. ASSUME NEW i \in Items, Write(i) PROVE Hands'
  <2>1. /\ keep' = keep /\ row' = row /\ given' = given /\ at[i] = "holding"
    BY <1>8 DEF Write
  <2>2. pending' = <<>> /\ \E label \in {"done", "raised"} : at' = [at EXCEPT ![i] = label]
    BY <1>8, WriteEffect
  <2> QED
    BY <2>1, <2>2 DEF Hands, TypeOK
<1>9. CASE UNCHANGED vars
  BY <1>9 DEF Hands, vars, memory
<1> QED
  BY <1>1, <1>2, <1>3, <1>4, <1>5, <1>6, <1>7, <1>8, <1>9 DEF Next

-----------------------------------------------------------------------------
(* The stop event *)

Stops ==
  /\ stop = "no" => late = 0
  /\ stop = "aborted" => late = 0 /\ Free
  /\ stop = "refused" => late <= 1 /\ (~Free => late = 0)
  /\ stop # "no" => Raised

LEMMA StopsStep == TypeOK /\ Hands /\ Stops /\ [Next]_vars => Stops'
<1> SUFFICES ASSUME TypeOK, Hands, Stops, [Next]_vars PROVE Stops'
  OBVIOUS
<1> USE DEF Stops, Free, Raised
<1>1. CASE Start
  BY <1>1 DEF Start
<1>2. CASE DeleteStaleLock \/ GuardStops \/ PassFails \/ Finish \/ FinishFails \/ Crash
  BY <1>2 DEF DeleteStaleLock, GuardStops, PassFails, Finish, FinishFails, Crash,
             EndPass, memory
<1>3. CASE NextChunk
  BY <1>3 DEF NextChunk
<1>4. CASE Cancel
  BY <1>4 DEF Cancel
<1>5. ASSUME NEW i \in Items, Take(i) PROVE Stops'
  BY <1>5 DEF Take, Goto, TypeOK
<1>6. ASSUME NEW i \in Items, Refuse(i) PROVE Stops'
  BY <1>6 DEF Refuse, Goto, TypeOK, Hands
<1>7. ASSUME NEW i \in Items, Discard(i) PROVE Stops'
  BY <1>7 DEF Discard, Goto, TypeOK
<1>8. ASSUME NEW i \in Items, Receive(i) PROVE Stops'
  BY <1>8 DEF Receive, Goto, TypeOK
<1>9. ASSUME NEW i \in Items, ReceiveError(i) PROVE Stops'
  <2>1. /\ late' = late /\ given' = given /\ at[i] = "asking" /\ Free /\ stop = "no"
    BY <1>9 DEF ReceiveError
  <2>2. \/ at' = [at EXCEPT ![i] = "done"] /\ stop' = "no"
        \/ at' = [at EXCEPT ![i] = "raised"] /\ stop' = "aborted"
    BY <1>9, ReceiveErrorEffect
  <2> QED
    BY <2>1, <2>2 DEF TypeOK, Hands
<1>10. ASSUME NEW i \in Items, Write(i) PROVE Stops'
  <2>1. /\ given' = given /\ at[i] = "holding"
        /\ late' = IF stop = "no" THEN late ELSE late + 1
    BY <1>10 DEF Write
  <2>2. \/ at' = [at EXCEPT ![i] = "done"] /\ stop' = stop
        \/ /\ at' = [at EXCEPT ![i] = "raised"]
           /\ stop' = IF stop = "no" THEN "aborted" ELSE stop
    BY <1>10, WriteEffect
  <2> QED
    BY <2>1, <2>2 DEF TypeOK, Hands
<1>11. ASSUME NEW i \in Items, WriteFails(i) PROVE Stops'
  BY <1>11 DEF WriteFails, Goto, TypeOK, Hands
<1>12. CASE UNCHANGED vars
  BY <1>12 DEF vars, memory
<1> QED
  BY <1>1, <1>2, <1>3, <1>4, <1>5, <1>6, <1>7, <1>8, <1>9, <1>10, <1>11, <1>12 DEF Next

-----------------------------------------------------------------------------
(* What an append adds *)

LEMMA GrowRecorded ==
  ASSUME file \in Files(Record), NEW rows \in Seq(Record), NEW n \in Nat, GrowsBy(rows, n),
         file' \in Files(Record), NEW i
  PROVE  /\ Recorded(i) => Recorded(i)'
         /\ Recorded(i)' => Recorded(i) \/ \E k \in 1 .. n : rows[k].item = i
         /\ (\E k \in 1 .. n : rows[k].item = i) => Recorded(i)'
<1> DEFINE old == Len(file.records)
<1>1. /\ old \in Nat /\ DOMAIN file.records = 1 .. old
      /\ DOMAIN file'.records = 1 .. Len(file'.records)
  BY LenProperties DEF Files
<1>2. DOMAIN file'.records = 1 .. (old + n)
  BY <1>1 DEF GrowsBy
<1>3. /\ \A k \in 1 .. old : file'.records[k] = file.records[k]
      /\ \A k \in 1 .. n : file'.records[old + k] = rows[k]
  BY DEF GrowsBy
<1> HIDE DEF old
<1>4. ASSUME Recorded(i) PROVE Recorded(i)'
  <2>1. PICK k \in 1 .. old : file.records[k].item = i
    BY <1>1, <1>4 DEF Recorded
  <2>2. k \in 1 .. (old + n)
    BY <1>1
  <2> QED
    BY <1>2, <1>3, <2>1, <2>2 DEF Recorded
<1>5. ASSUME NEW k \in 1 .. n, rows[k].item = i PROVE Recorded(i)'
  <2>1. old + k \in 1 .. (old + n)
    BY <1>1
  <2> QED
    BY <1>2, <1>3, <1>5, <2>1 DEF Recorded
<1>6. ASSUME Recorded(i)', ~Recorded(i) PROVE \E k \in 1 .. n : rows[k].item = i
  <2>1. PICK k \in 1 .. (old + n) : file'.records[k].item = i
    BY <1>2, <1>6 DEF Recorded
  <2>2. k \notin 1 .. old
    BY <1>1, <1>3, <1>6, <2>1 DEF Recorded
  <2>3. k - old \in 1 .. n /\ old + (k - old) = k
    BY <1>1, <2>2
  <2> QED
    BY <1>3, <2>1, <2>3
<1> QED
  BY <1>4, <1>5, <1>6

LEMMA GrowOnce ==
  ASSUME file \in Files(Record), NEW rows \in Seq(Record), NEW n \in Nat, GrowsBy(rows, n),
         file' \in Files(Record), OneRecordEach, exposed \subseteq exposed',
         \A k, l \in 1 .. n : rows[k].item = rows[l].item => k = l,
         \A k \in 1 .. n : Recorded(rows[k].item) => rows[k].item \in exposed'
  PROVE  OneRecordEach'
<1> DEFINE old == Len(file.records)
<1>1. /\ old \in Nat /\ DOMAIN file.records = 1 .. old
      /\ DOMAIN file'.records = 1 .. Len(file'.records)
  BY LenProperties DEF Files
<1>2. DOMAIN file'.records = 1 .. (old + n)
  BY <1>1 DEF GrowsBy
<1>3. /\ \A k \in 1 .. old : file'.records[k] = file.records[k]
      /\ \A k \in 1 .. n : file'.records[old + k] = rows[k]
  BY DEF GrowsBy
<1> HIDE DEF old
<1>4. \A k \in 1 .. (old + n) :
        k \in 1 .. old \/ (k - old \in 1 .. n /\ file'.records[k] = rows[k - old])
  <2> TAKE k \in 1 .. (old + n)
  <2>1. k \in 1 .. old \/ (k - old \in 1 .. n /\ old + (k - old) = k)
    BY <1>1
  <2> QED
    BY <1>3, <2>1
<1>5. \A a \in 1 .. old, k \in 1 .. n :
        file.records[a].item = rows[k].item => rows[k].item \in exposed'
  BY <1>1 DEF Recorded
<1> SUFFICES ASSUME NEW a \in 1 .. (old + n), NEW b \in 1 .. (old + n),
                    file'.records[a].item = file'.records[b].item
             PROVE  a = b \/ file'.records[a].item \in exposed'
  BY <1>2 DEF OneRecordEach
<1>6. CASE a \in 1 .. old /\ b \in 1 .. old
  BY <1>1, <1>3, <1>6 DEF OneRecordEach
<1>7. CASE a \in 1 .. old /\ b \notin 1 .. old
  BY <1>3, <1>4, <1>5, <1>7
<1>8. CASE a \notin 1 .. old /\ b \in 1 .. old
  BY <1>3, <1>4, <1>5, <1>8
<1>9. CASE a \notin 1 .. old /\ b \notin 1 .. old
  <2>1. a - old = b - old
    BY <1>4, <1>9
  <2> QED
    BY <1>1, <2>1
<1> QED
  BY <1>6, <1>7, <1>8, <1>9

(* A step leaves the file alone or appends to it: what was held, at the end *)
(* of a pass, or that and the row of the thread that has the lock.          *)
LEMMA FileStep ==
  ASSUME TypeOK, [Next]_vars
  PROVE  \/ file' = file
         \/ /\ pass = "running" /\ AtRest /\ ~Raised /\ given = todo
            /\ \E n \in 0 .. Len(pending) : GrowsBy(pending, n)
         \/ /\ pass = "running"
            /\ \E i \in Items : /\ at[i] = "holding"
                                /\ \E n \in 0 .. Len(Rows(i)) : GrowsBy(Rows(i), n)
<1>1. /\ file \in Files(Record) /\ pending \in Seq(Record) /\ Len(pending) \in Nat
      /\ \A i \in Items : Rows(i) \in Seq(Record) /\ Len(Rows(i)) \in Nat
  BY RowsTyped, HeldTyped, LenProperties DEF TypeOK
<1>2. CASE Finish
  BY <1>1, <1>2, AppendedGrows DEF Finish
<1>3. CASE FinishFails
  BY <1>1, <1>3, CutShortGrows DEF FinishFails
<1>4. CASE Crash
  BY <1>1, <1>4, CutShortGrows DEF Crash
<1>5. ASSUME NEW i \in Items, Write(i)
      PROVE  pass = "running" /\ at[i] = "holding" /\ GrowsBy(Rows(i), Len(Rows(i)))
  BY <1>1, <1>5, AppendedGrows DEF Write
<1>6. ASSUME NEW i \in Items, WriteFails(i)
      PROVE  /\ pass = "running" /\ at[i] = "holding"
             /\ \E n \in 0 .. Len(Rows(i)) : GrowsBy(Rows(i), n)
  BY <1>1, <1>6, CutShortGrows DEF WriteFails
<1>7. CASE Start \/ DeleteStaleLock \/ NextChunk \/ GuardStops \/ Cancel \/ PassFails
  BY <1>7 DEF Start, DeleteStaleLock, NextChunk, GuardStops, Cancel, PassFails
<1>8. ASSUME NEW i \in Items,
             Take(i) \/ Refuse(i) \/ Discard(i) \/ ReceiveError(i) \/ Receive(i)
      PROVE  file' = file
  BY <1>8 DEF Take, Refuse, Discard, ReceiveError, Receive
<1>9. CASE UNCHANGED vars
  BY <1>9 DEF vars
<1> QED
  BY <1>1, <1>2, <1>3, <1>4, <1>5, <1>6, <1>7, <1>8, <1>9 DEF Next

LEMMA ExposedGrows == [Next]_vars => exposed \subseteq exposed'
  BY DEF Next, Start, DeleteStaleLock, NextChunk, GuardStops, Cancel, PassFails, Finish,
         FinishFails, Crash, EndPass, Take, Refuse, Discard, ReceiveError, Receive, Write,
         WriteFails, vars

-----------------------------------------------------------------------------
(* What is recorded *)

HeldItems == {i \in Items : \E k \in DOMAIN pending : pending[k].item = i}
RecordedItems == {i \in Items : Recorded(i)}

(* While a pass runs, what is still to be asked has no record, what is held *)
(* has none unless an append raised over it, and a finished item has one,   *)
(* or is held, or was dropped, or the pass is stopping.                     *)
Fresh ==
  pass = "running" =>
    /\ \A i \in todo : ~Over(i) => i \notin RecordedItems
    /\ \A i \in Items : i \in HeldItems /\ i \in RecordedItems => i \in exposed
    /\ \A i \in Items \ todo : i \in RecordedItems
    /\ \A i \in todo : at[i] = "done" =>
         i \in RecordedItems \/ i \in HeldItems \/ tally.dropped > 0 \/ stop # "no"

Outages ==
  /\ ~Free => outage = {}
  /\ pass = "running" \/ stop = "aborted" => \A i \in outage : i \notin RecordedItems
  /\ ~keep => \A k \in DOMAIN file.records : file.records[k].kind # "error"

IInv == TypeOK /\ Hands /\ Stops /\ Fresh /\ Outages /\ OneRecordEach /\ CompletedIsComplete

LEMMA InitIInv == Init => IInv
<1> SUFFICES ASSUME Init PROVE IInv
  OBVIOUS
<1>1. TypeOK
  BY InitType
<1>2. DOMAIN <<>> = {} /\ DOMAIN file.records = {} /\ DOMAIN pending = {}
  BY DEF Init, Empty
<1>3. Hands
  BY <1>2 DEF Init, Hands
<1>4. Stops
  BY DEF Init, Stops
<1>5. Fresh /\ Outages /\ OneRecordEach /\ CompletedIsComplete
  BY <1>2 DEF Init, Fresh, Outages, OneRecordEach, CompletedIsComplete, Free,
                   HeldItems, RecordedItems, Recorded
<1> QED
  BY <1>1, <1>3, <1>4, <1>5 DEF IInv

LEMMA OnceStep ==
  ASSUME TypeOK, TypeOK', Hands, Fresh, OneRecordEach, [Next]_vars
  PROVE  OneRecordEach'
<1>1. exposed \subseteq exposed'
  BY ExposedGrows
<1>2. /\ pending \in Seq(Record) /\ DOMAIN pending = 1 .. Len(pending) /\ Len(pending) \in Nat
      /\ \A k \in DOMAIN pending : pending[k].item \in Items
      /\ file \in Files(Record) /\ file' \in Files(Record)
  BY HeldTyped DEF TypeOK
<1>3. CASE file' = file
  BY <1>1, <1>3 DEF OneRecordEach
<1>4. ASSUME pass = "running", NEW n \in 0 .. Len(pending), GrowsBy(pending, n)
      PROVE  OneRecordEach'
  <2>1. \A k \in 1 .. n : k \in DOMAIN pending
    BY <1>2
  <2>2. \A k \in 1 .. n : Recorded(pending[k].item) => pending[k].item \in exposed'
    BY <1>1, <1>2, <1>4, <2>1 DEF Fresh, HeldItems, RecordedItems
  <2>3. \A k, l \in 1 .. n : pending[k].item = pending[l].item => k = l
    BY <2>1 DEF Hands
  <2> QED
    BY <1>1, <1>2, <1>4, <2>2, <2>3, GrowOnce
<1>5. ASSUME pass = "running", NEW i \in Items, at[i] = "holding",
             NEW n \in 0 .. Len(Rows(i)), GrowsBy(Rows(i), n)
      PROVE  OneRecordEach'
  <2>1. /\ Rows(i) \in Seq(Record) /\ Len(Rows(i)) = Len(pending) + 1
        /\ \A k \in 1 .. Len(pending) : Rows(i)[k] = pending[k]
        /\ Rows(i)[Len(pending) + 1] = [item |-> i, kind |-> row[i]]
    BY RowsTyped
  <2>2. n \in Nat /\ \A k \in 1 .. n : k \in 1 .. Len(pending) \/ k = Len(pending) + 1
    BY <1>2, <2>1
  <2>0. Rows(i)[Len(pending) + 1].item = i
    BY <2>1
  <2>3. i \in todo /\ ~Recorded(i)
    BY <1>5 DEF Hands, Fresh, TypeOK, Over, RecordedItems
  <2>4. \A k \in 1 .. Len(pending) : pending[k].item # i
    BY <1>2, <1>5 DEF Hands
  <2>5. \A k \in 1 .. n : Recorded(Rows(i)[k].item) => Rows(i)[k].item \in exposed'
    BY <1>1, <1>2, <1>5, <2>0, <2>1, <2>2, <2>3 DEF Fresh, HeldItems, RecordedItems
  <2>6. \A k, l \in 1 .. n : Rows(i)[k].item = Rows(i)[l].item => k = l
    BY <1>2, <2>0, <2>1, <2>2, <2>4 DEF Hands
  <2> QED
    BY <1>1, <1>2, <1>5, <2>1, <2>2, <2>5, <2>6, GrowOnce
<1> QED
  BY <1>3, <1>4, <1>5, FileStep

(* The items of the rows a thread appends are those held and its own.       *)
LEMMA RowsItems ==
  ASSUME TypeOK, NEW i \in Items, NEW j \in Items
  PROVE  (\E k \in 1 .. Len(Rows(i)) : Rows(i)[k].item = j) <=> j \in HeldItems \/ j = i
<1>1. /\ Len(Rows(i)) = Len(pending) + 1
      /\ \A k \in 1 .. Len(pending) : Rows(i)[k] = pending[k]
      /\ Rows(i)[Len(pending) + 1] = [item |-> i, kind |-> row[i]]
      /\ Len(pending) \in Nat /\ DOMAIN pending = 1 .. Len(pending)
  BY RowsTyped, HeldTyped
<1>2. Rows(i)[Len(pending) + 1].item = i
  BY <1>1
<1>3. \A k \in 1 .. Len(Rows(i)) : k \in 1 .. Len(pending) \/ k = Len(pending) + 1
  BY <1>1
<1>4. ASSUME NEW k \in 1 .. Len(Rows(i)), Rows(i)[k].item = j PROVE j \in HeldItems \/ j = i
  BY <1>1, <1>2, <1>3, <1>4 DEF HeldItems
<1>5. ASSUME j \in HeldItems PROVE \E k \in 1 .. Len(Rows(i)) : Rows(i)[k].item = j
  <2>1. PICK k \in 1 .. Len(pending) : pending[k].item = j
    BY <1>1, <1>5 DEF HeldItems
  <2>2. k \in 1 .. Len(Rows(i))
    BY <1>1
  <2> QED
    BY <1>1, <2>1, <2>2
<1>6. Len(pending) + 1 \in 1 .. Len(Rows(i))
  BY <1>1
<1> QED
  BY <1>2, <1>4, <1>5, <1>6

LEMMA FreshStep ==
  ASSUME TypeOK, TypeOK', Hands, Fresh, [Next]_vars
  PROVE  Fresh'
<1>f. file \in Files(Record) /\ file' \in Files(Record)
  BY DEF TypeOK
<1>1. CASE Start
  <2>1. pending' = <<>> /\ todo' = Missing /\ file' = file /\ \A i \in Items : at'[i] = "no"
    BY <1>1 DEF Start
  <2> QED
    BY <2>1 DEF Fresh, HeldItems, Missing, RecordedItems, Recorded, Over
<1>2. CASE DeleteStaleLock \/ GuardStops \/ PassFails \/ Finish \/ FinishFails \/ Crash
  <2>1. pass' # "running"
    BY <1>2 DEF DeleteStaleLock, GuardStops, PassFails, Finish, FinishFails, Crash, EndPass
  <2> QED
    BY <2>1 DEF Fresh
<1>3. CASE NextChunk \/ Cancel \/ UNCHANGED vars
  BY <1>3 DEF NextChunk, Cancel, Fresh, RecordedItems, Recorded, HeldItems, Over, vars, memory
<1>4. ASSUME NEW i \in Items, Take(i) PROVE Fresh'
  BY <1>4 DEF Take, Goto, Fresh, RecordedItems, Recorded, HeldItems, Over, TypeOK
<1>5. ASSUME NEW i \in Items, Refuse(i) PROVE Fresh'
  BY <1>5 DEF Refuse, Goto, Fresh, RecordedItems, Recorded, HeldItems, Over, TypeOK
<1>6. ASSUME NEW i \in Items, Discard(i) PROVE Fresh'
  BY <1>6 DEF Discard, Goto, Fresh, RecordedItems, Recorded, HeldItems, Over, TypeOK
<1>7. ASSUME NEW i \in Items, Receive(i) PROVE Fresh'
  <2>1. tally'.dropped = tally.dropped
    BY <1>7 DEF Receive, Counted
  <2> QED
    BY <1>7, <2>1 DEF Receive, Goto, Fresh, RecordedItems, Recorded, HeldItems, Over, TypeOK
<1>8. ASSUME NEW i \in Items, ReceiveError(i) PROVE Fresh'
  <2>1. /\ pass = "running" /\ pass' = pass /\ file' = file /\ todo' = todo
        /\ exposed' = exposed /\ at[i] = "asking" /\ stop = "no"
    BY <1>8 DEF ReceiveError
  <2>2. i \in todo /\ i \notin RecordedItems /\ at \in [Items -> {"no", "asking", "holding", "done", "raised"}]
        /\ todo \subseteq Items /\ tally.dropped \in Nat
    BY <2>1 DEF Hands, Fresh, TypeOK, Over, Tallies
  <2>3. CASE pending' = Append(pending, [item |-> i, kind |-> "error"])
             /\ at' = [at EXCEPT ![i] = "done"] /\ stop' = "no" /\ tally'.dropped = tally.dropped
    <3>1. /\ pending \in Seq(Record) /\ DOMAIN pending = 1 .. Len(pending)
          /\ [item |-> i, kind |-> "error"] \in Record
      BY HeldTyped DEF Record, Kinds
    <3>2. /\ DOMAIN pending' = 1 .. Len(pending) + 1 /\ Len(pending) \in Nat
          /\ \A k \in 1 .. Len(pending) : pending'[k] = pending[k]
          /\ pending'[Len(pending) + 1].item = i
      BY <2>3, <3>1, AppendProperties, LenProperties
    <3>3. \A j \in Items : j \in HeldItems' <=> j \in HeldItems \/ j = i
      BY <3>1, <3>2 DEF HeldItems
    <3> QED
      BY <2>1, <2>2, <2>3, <3>3 DEF Fresh, RecordedItems, Recorded, Over
  <2>4. CASE pending' = pending /\ at' = [at EXCEPT ![i] = "done"] /\ stop' = "no"
             /\ tally'.dropped = tally.dropped + 1
    BY <2>1, <2>2, <2>4 DEF Fresh, RecordedItems, Recorded, Over, HeldItems
  <2>5. CASE pending' = <<>> /\ at' = [at EXCEPT ![i] = "raised"] /\ stop' = "aborted"
    BY <2>1, <2>2, <2>5 DEF Fresh, RecordedItems, Recorded, Over, HeldItems
  <2> QED
    BY <1>8, <2>3, <2>4, <2>5, ReceiveErrorEffect
<1>9. ASSUME NEW i \in Items, NEW n \in 0 .. Len(Rows(i)), GrowsBy(Rows(i), n),
             pass = "running", at[i] = "holding", NEW j \in Items
      PROVE  /\ j \in RecordedItems => j \in RecordedItems'
             /\ j \in RecordedItems' => j \in RecordedItems \/ j \in HeldItems \/ j = i
             /\ n = Len(Rows(i)) /\ (j \in HeldItems \/ j = i) => j \in RecordedItems'
  <2>1. Rows(i) \in Seq(Record) /\ Len(Rows(i)) \in Nat
    BY RowsTyped
  <2>4. n \in Nat
    BY <2>1
  <2>2. \A k \in 1 .. n : k \in 1 .. Len(Rows(i))
    BY <2>1
  <2>3. /\ j \in RecordedItems => j \in RecordedItems'
        /\ j \in RecordedItems' => j \in RecordedItems \/ \E k \in 1 .. n : Rows(i)[k].item = j
        /\ (\E k \in 1 .. n : Rows(i)[k].item = j) => j \in RecordedItems'
    BY <1>f, <1>9, <2>1, <2>4, GrowRecorded DEF RecordedItems
  <2> QED
    BY <2>2, <2>3, RowsItems
<1>10. \A j \in Items : j \in HeldItems => at[j] = "done"
  BY DEF HeldItems, Hands
<1>g. /\ at \in [Items -> {"no", "asking", "holding", "done", "raised"}] /\ todo \subseteq Items
      /\ pass = "running" =>
           /\ \A j \in todo : at[j] \notin {"done", "raised"} => j \notin RecordedItems
           /\ \A j \in Items \ todo : j \in RecordedItems
           /\ \A j \in todo : at[j] = "done" =>
                j \in RecordedItems \/ j \in HeldItems \/ tally.dropped > 0 \/ stop # "no"
  BY DEF TypeOK, Fresh, Over
<1>11. ASSUME NEW i \in Items, Write(i) PROVE Fresh'
  <2>1. /\ pass = "running" /\ pass' = pass /\ todo' = todo /\ at[i] = "holding"
        /\ exposed' = exposed /\ file' = Appended(file, Rows(i))
    BY <1>11 DEF Write
  <2>2. Rows(i) \in Seq(Record) /\ Len(Rows(i)) \in Nat
    BY RowsTyped
  <2>3. GrowsBy(Rows(i), Len(Rows(i)))
    BY <1>f, <2>1, <2>2, AppendedGrows
  <2>0. Len(Rows(i)) \in 0 .. Len(Rows(i))
    BY <2>2
  <2>4. \A j \in Items : /\ j \in RecordedItems => j \in RecordedItems'
                         /\ j \in RecordedItems' => j \in RecordedItems \/ j \in HeldItems \/ j = i
                         /\ j \in HeldItems \/ j = i => j \in RecordedItems'
    BY <1>9, <2>0, <2>1, <2>3
  <2>5. /\ pending' = <<>>
        /\ \/ /\ at' = [at EXCEPT ![i] = "done"]
              /\ stop' = stop /\ tally'.dropped = tally.dropped
           \/ at' = [at EXCEPT ![i] = "raised"] /\ stop' # "no"
    BY <1>11, WriteEffect
  <2>6. ASSUME NEW j \in todo, at'[j] \notin {"done", "raised"}
        PROVE  j \notin RecordedItems'
    <3>1. j # i /\ at[j] \notin {"done", "raised"} /\ j \in Items
      BY <1>g, <2>1, <2>5, <2>6
    <3>2. j \notin RecordedItems /\ j \notin HeldItems
      BY <1>10, <1>g, <2>1, <3>1
    <3> QED
      BY <2>4, <3>1, <3>2
  <2>7. \A j \in Items : j \notin HeldItems'
    BY <2>5 DEF HeldItems
  <2>8. ASSUME NEW j \in Items \ todo PROVE j \in RecordedItems'
    <3>1. j \in RecordedItems
      BY <1>g, <2>1
    <3> QED
      BY <2>4, <3>1
  <2>9. \A j \in todo : at'[j] = "done" =>
          j \in RecordedItems' \/ tally'.dropped > 0 \/ stop' # "no"
    <3> SUFFICES ASSUME NEW j \in todo, at'[j] = "done", stop' = "no", j \notin RecordedItems'
                 PROVE  tally'.dropped > 0
      OBVIOUS
    <3>0. j \in Items
      BY <1>g
    <3>1. j # i /\ j \notin HeldItems /\ j \notin RecordedItems
      BY <2>4, <3>0
    <3>2. at[j] = "done" /\ stop = "no" /\ tally'.dropped = tally.dropped
      BY <1>g, <2>5, <3>1
    <3> QED
      BY <1>g, <2>1, <3>1, <3>2
  <2> QED
    BY <2>1, <2>6, <2>7, <2>8, <2>9 DEF Fresh, Over
<1>12. ASSUME NEW i \in Items, WriteFails(i) PROVE Fresh'
  <2>1. /\ pass = "running" /\ pass' = pass /\ todo' = todo /\ at[i] = "holding"
        /\ pending' = pending /\ tally' = tally /\ stop' = stop
        /\ at' = [at EXCEPT ![i] = "raised"]
        /\ exposed' = exposed \cup {pending[k].item : k \in DOMAIN pending}
    BY <1>12 DEF WriteFails, Goto
  <2>2. PICK n \in 0 .. Len(Rows(i)) : GrowsBy(Rows(i), n)
    BY <1>f, <1>12, CutShortGrows, RowsTyped DEF WriteFails
  <2>3. \A j \in Items : /\ j \in RecordedItems => j \in RecordedItems'
                         /\ j \in RecordedItems' => j \in RecordedItems \/ j \in HeldItems \/ j = i
    BY <1>9, <2>1, <2>2
  <2>4. \A j \in Items : j \in HeldItems' <=> j \in HeldItems
    BY <2>1 DEF HeldItems
  <2>5. \A j \in Items : j \in HeldItems => j \in exposed'
    BY <2>1 DEF HeldItems
  <2>6. ASSUME NEW j \in todo, at'[j] \notin {"done", "raised"}
        PROVE  j \notin RecordedItems'
    <3>1. j # i /\ at[j] \notin {"done", "raised"} /\ j \in Items
      BY <1>g, <2>1, <2>6
    <3>2. j \notin RecordedItems /\ j \notin HeldItems
      BY <1>10, <1>g, <2>1, <3>1
    <3> QED
      BY <2>3, <3>1, <3>2
  <2>7. ASSUME NEW j \in Items \ todo PROVE j \in RecordedItems'
    <3>1. j \in RecordedItems
      BY <1>g, <2>1
    <3> QED
      BY <2>3, <3>1
  <2>8. \A j \in todo : at'[j] = "done" =>
          j \in RecordedItems' \/ j \in HeldItems' \/ tally'.dropped > 0 \/ stop' # "no"
    <3> SUFFICES ASSUME NEW j \in todo, at'[j] = "done", stop' = "no", j \notin RecordedItems',
                        j \notin HeldItems'
                 PROVE  tally'.dropped > 0
      OBVIOUS
    <3>1. j \in Items
      BY <1>g
    <3>2. j \notin HeldItems /\ j \notin RecordedItems
      BY <2>3, <2>4, <3>1
    <3>3. at[j] = "done" /\ stop = "no"
      BY <1>g, <2>1, <3>1
    <3> QED
      BY <1>g, <2>1, <3>2, <3>3
  <2> QED
    BY <2>1, <2>4, <2>5, <2>6, <2>7, <2>8 DEF Fresh, Over
<1> QED
  BY <1>1, <1>2, <1>3, <1>4, <1>5, <1>6, <1>7, <1>8, <1>11, <1>12 DEF Next

LEMMA KeepStays == [Next]_vars => keep' = keep
  BY DEF Next, Start, DeleteStaleLock, NextChunk, GuardStops, Cancel, PassFails, Finish,
         FinishFails, Crash, EndPass, Take, Refuse, Discard, ReceiveError, Receive, Write,
         WriteFails, vars

NoError == \A k \in DOMAIN file.records : file.records[k].kind # "error"

LEMMA NoErrorGrows ==
  ASSUME file \in Files(Record), NEW rows \in Seq(Record), NEW n \in Nat, GrowsBy(rows, n),
         file' \in Files(Record), NoError, \A k \in 1 .. n : rows[k].kind # "error"
  PROVE  NoError'
<1> DEFINE old == Len(file.records)
<1>1. /\ old \in Nat /\ DOMAIN file.records = 1 .. old
      /\ DOMAIN file'.records = 1 .. Len(file'.records)
  BY LenProperties DEF Files
<1>2. /\ DOMAIN file'.records = 1 .. (old + n)
      /\ \A k \in 1 .. old : file'.records[k] = file.records[k]
      /\ \A k \in 1 .. n : file'.records[old + k] = rows[k]
  BY <1>1 DEF GrowsBy
<1> HIDE DEF old
<1> SUFFICES ASSUME NEW k \in 1 .. (old + n) PROVE file'.records[k].kind # "error"
  BY <1>2 DEF NoError
<1>3. CASE k \in 1 .. old
  BY <1>1, <1>2, <1>3 DEF NoError
<1>4. CASE k \notin 1 .. old
  <2>1. k - old \in 1 .. n /\ old + (k - old) = k
    BY <1>1, <1>4
  <2> QED
    BY <1>2, <2>1
<1> QED
  BY <1>3, <1>4

(* Where a record is never asked again, what is appended is a reply.        *)
LEMMA NoErrorStep ==
  ASSUME TypeOK, TypeOK', Hands, ~keep => NoError, [Next]_vars
  PROVE  ~keep' => NoError'
<1> SUFFICES ASSUME ~keep PROVE NoError'
  BY KeepStays
<1>1. pending = <<>> /\ Len(pending) = 0 /\ file \in Files(Record) /\ file' \in Files(Record)
  BY DEF Hands, TypeOK
<1>2. CASE file' = file
  BY <1>2 DEF NoError
<1>3. ASSUME NEW n \in 0 .. Len(pending), GrowsBy(pending, n) PROVE NoError'
  <2>1. n = 0 /\ n \in Nat /\ pending \in Seq(Record)
    BY <1>1, HeldTyped
  <2>2. \A k \in 1 .. n : pending[k].kind # "error"
    BY <2>1
  <2> QED
    BY <1>1, <1>3, <2>1, <2>2, NoErrorGrows
<1>4. ASSUME NEW i \in Items, at[i] = "holding", NEW n \in 0 .. Len(Rows(i)),
             GrowsBy(Rows(i), n)
      PROVE  NoError'
  <2>1. Rows(i) \in Seq(Record) /\ Len(Rows(i)) = 1 /\ Rows(i)[1] = [item |-> i, kind |-> row[i]]
    BY <1>1, RowsTyped
  <2>2. row[i] # "error"
    BY <1>4 DEF Hands
  <2>3. n \in Nat /\ \A k \in 1 .. n : k = 1
    BY <2>1
  <2>4. \A k \in 1 .. n : Rows(i)[k].kind # "error"
    BY <2>1, <2>2, <2>3
  <2> QED
    BY <1>1, <1>4, <2>1, <2>3, <2>4, NoErrorGrows
<1> QED
  BY <1>2, <1>3, <1>4, FileStep

LEMMA OutageStep ==
  ASSUME TypeOK, TypeOK', Hands, Stops, Fresh, Outages, [Next]_vars
  PROVE  Outages'
<1> DEFINE Calm == /\ ~Free => outage = {}
                   /\ pass = "running" \/ stop = "aborted" => \A i \in outage : i \notin RecordedItems
<1>0. ~keep' => NoError'
  BY NoErrorStep DEF Outages, NoError
<1>q. Calm
  BY DEF Outages
<1> SUFFICES Calm'
  BY <1>0 DEF Outages, NoError
<1>s. stop = "aborted" => Raised
  BY DEF Stops
<1>1. CASE Start
  BY <1>1 DEF Start
<1>2. CASE DeleteStaleLock \/ NextChunk \/ GuardStops \/ Cancel \/ PassFails \/ UNCHANGED vars
  BY <1>2, <1>q DEF DeleteStaleLock, NextChunk, GuardStops, Cancel, PassFails, EndPass, vars,
                    memory, Free, RecordedItems, Recorded
<1>3. CASE Finish \/ FinishFails
  <2>1. ~Raised /\ pass' # "running" /\ stop' = stop /\ at' = at /\ outage' = outage
    BY <1>3 DEF Finish, FinishFails, EndPass, memory
  <2> QED
    BY <1>q, <1>s, <2>1 DEF Free
<1>4. CASE Crash
  <2>1. pass = "running" /\ pass' # "running" /\ stop' = stop /\ at' = at /\ outage' = outage
    BY <1>4 DEF Crash, memory
  <2>2. file' = file \/ ~Free \/ ~Raised
    BY <1>4 DEF Crash, Free
  <2>3. CASE file' = file
    BY <1>q, <2>1, <2>3 DEF Free, RecordedItems, Recorded
  <2>4. CASE ~Free
    BY <1>q, <2>1, <2>4 DEF Free
  <2>5. CASE ~Raised
    BY <1>q, <1>s, <2>1, <2>5 DEF Free
  <2> QED
    BY <2>2, <2>3, <2>4, <2>5
<1>5. ASSUME NEW i \in Items, Take(i) \/ Refuse(i) \/ Discard(i) PROVE Calm'
  <2>1. /\ pass = "running" /\ pass' = pass /\ file' = file /\ outage' = outage
        /\ \E label \in {"asking", "done", "raised"} : at' = [at EXCEPT ![i] = label]
    BY <1>5 DEF Take, Refuse, Discard, Goto
  <2> QED
    BY <1>q, <2>1 DEF Free, RecordedItems, Recorded, TypeOK
<1>6. ASSUME NEW i \in Items, Receive(i) PROVE Calm'
  BY <1>6 DEF Receive
<1>7. ASSUME NEW i \in Items, ReceiveError(i) PROVE Calm'
  <2>1. /\ pass = "running" /\ pass' = pass /\ file' = file /\ outage' = outage \cup {i}
        /\ at[i] = "asking" /\ Free
    BY <1>7 DEF ReceiveError
  <2>2. \E label \in {"done", "raised"} : at' = [at EXCEPT ![i] = label]
    BY <1>7, ReceiveErrorEffect
  <2>3. i \notin RecordedItems
    BY <2>1 DEF Hands, Fresh, TypeOK, Over
  <2>4. Free'
    BY <2>1, <2>2 DEF Free, TypeOK
  <2> QED
    BY <1>q, <2>1, <2>3, <2>4 DEF RecordedItems, Recorded
<1>8. ASSUME NEW i \in Items, Write(i) \/ WriteFails(i) PROVE Calm'
  <2>1. at[i] = "holding" /\ outage' = outage
    BY <1>8 DEF Write, WriteFails
  <2>2. outage' = {}
    BY <1>q, <2>1 DEF Free
  <2> QED
    BY <2>2
<1> QED
  BY <1>1, <1>2, <1>3, <1>4, <1>5, <1>6, <1>7, <1>8 DEF Next

-----------------------------------------------------------------------------
(* Complete passes *)

LEMMA CompletedStep ==
  ASSUME TypeOK, TypeOK', Hands, Stops, Fresh, CompletedIsComplete, [Next]_vars
  PROVE  CompletedIsComplete'
<1>1. CASE Finish
  <2>1. SUFFICES ASSUME tally.dropped = 0 PROVE \A i \in Items : Recorded(i)'
    <3>1. tally.dropped \in Nat
      BY DEF TypeOK, Tallies
    <3> QED
      BY <1>1, <2>1, <3>1 DEF CompletedIsComplete, Finish, EndPass
  <2>2. /\ pass = "running" /\ ~Raised /\ AtRest /\ given = todo
        /\ file' = IF pending = <<>> THEN file ELSE Appended(file, pending)
    BY <1>1 DEF Finish
  <2>3. \A i \in Items : i \in RecordedItems \/ i \in HeldItems
    <3>1. \A i \in todo : at[i] = "done"
      BY <2>2 DEF AtRest, Over, Raised
    <3>2. stop = "no"
      BY <2>2 DEF Stops, TypeOK
    <3> QED
      BY <2>1, <2>2, <3>1, <3>2 DEF Fresh
  <2>4. /\ pending \in Seq(Record) /\ DOMAIN pending = 1 .. Len(pending) /\ Len(pending) \in Nat
        /\ file \in Files(Record) /\ file' \in Files(Record)
    BY HeldTyped DEF TypeOK
  <2>5. CASE pending = <<>>
    <3>1. file' = file /\ HeldItems = {}
      BY <2>2, <2>5 DEF HeldItems
    <3> QED
      BY <2>3, <3>1 DEF RecordedItems, Recorded
  <2>6. CASE pending # <<>>
    <3>1. GrowsBy(pending, Len(pending))
      BY <2>2, <2>4, <2>6, AppendedGrows
    <3> SUFFICES ASSUME NEW i \in Items PROVE Recorded(i)'
      OBVIOUS
    <3>2. Recorded(i) \/ \E k \in 1 .. Len(pending) : pending[k].item = i
      BY <2>3, <2>4 DEF HeldItems, RecordedItems
    <3> QED
      BY <2>4, <3>1, <3>2, GrowRecorded
  <2> QED
    BY <2>5, <2>6
<1>2. CASE ~Finish
  <2>1. pass' = "completed" => pass = "completed" /\ file' = file
    BY <1>2 DEF Next, Start, DeleteStaleLock, NextChunk, GuardStops, Cancel, PassFails,
                FinishFails, Crash, EndPass, Take, Refuse, Discard, ReceiveError, Receive,
                Write, WriteFails, vars
  <2> QED
    BY <2>1 DEF CompletedIsComplete, Recorded
<1> QED
  BY <1>1, <1>2

-----------------------------------------------------------------------------
(* The theorems *)

LEMMA IInvStep == IInv /\ [Next]_vars => IInv'
<1> SUFFICES ASSUME IInv, [Next]_vars PROVE IInv'
  OBVIOUS
<1>1. TypeOK /\ Hands /\ Stops /\ Fresh /\ Outages /\ OneRecordEach /\ CompletedIsComplete
  BY DEF IInv
<1>2. TypeOK'
  BY <1>1, TypeStep
<1>3. Hands' /\ Stops'
  BY <1>1, HandsStep, StopsStep
<1>4. Fresh' /\ Outages' /\ OneRecordEach' /\ CompletedIsComplete'
  BY <1>1, <1>2, FreshStep, OutageStep, OnceStep, CompletedStep
<1> QED
  BY <1>2, <1>3, <1>4 DEF IInv

LEMMA Invariant == Spec => []IInv
  BY InitIInv, IInvStep, PTL DEF Spec

(* Across any number of passes, crashes and cut appends, an item is recorded *)
(* twice only if it was held while an append raised.                        *)
THEOREM RecordedOnce == Spec => []OneRecordEach
<1>1. IInv => OneRecordEach
  BY DEF IInv
<1> QED
  BY <1>1, Invariant, PTL

(* After an abort nothing is appended in the pass, and after a refusal of   *)
(* the spend cap at most one more time.                                     *)
THEOREM Quiet == Spec => []StoppedIsQuiet
<1>1. IInv => StoppedIsQuiet
  BY DEF IInv, TypeOK, Stops, StoppedIsQuiet
<1> QED
  BY <1>1, Invariant, PTL

(* A pass that ends without an exception leaves a record of every item.     *)
THEOREM Complete == Spec => []CompletedIsComplete
<1>1. IInv => CompletedIsComplete
  BY DEF IInv
<1> QED
  BY <1>1, Invariant, PTL

(* What got no reply in the outage that aborted a stage has no record, and  *)
(* a stage that keeps no errors records none.                               *)
THEOREM Outage == Spec => []OutageLeavesNoRecord
<1>1. IInv => OutageLeavesNoRecord
  BY DEF IInv, TypeOK, Outages, OutageLeavesNoRecord, RecordedItems
<1> QED
  BY <1>1, Invariant, PTL

(* No item that has a record is asked again.                                *)
THEOREM AskedOnce == Spec => []NeverAskedAgain
<1>1. IInv => NeverAskedAgain
  BY DEF IInv, TypeOK, Hands, Fresh, Over, NeverAskedAgain, RecordedItems
<1> QED
  BY <1>1, Invariant, PTL

(* No step loses or changes a record a reader can find.                     *)
THEOREM Kept == Spec => RecordsAreKept
<1>1. ASSUME TypeOK, TypeOK', [Next]_vars PROVE [IsPrefix(file.records, file'.records)]_file
  <2> DEFINE old == file.records
             new == file'.records
  <2> SUFFICES ASSUME file' # file PROVE IsPrefix(old, new)
    OBVIOUS
  <2>0. file \in Files(Record) /\ file' \in Files(Record)
    BY <1>1 DEF TypeOK
  <2>1. old \in Seq(Record) /\ new \in Seq(Record)
    BY <2>0 DEF Files
  <2>2. /\ Len(old) \in Nat /\ Len(new) \in Nat /\ Len(old) <= Len(new)
        /\ \A k \in 1 .. Len(old) : new[k] = old[k]
    <3>1. PICK rows, n : n \in 0 .. Len(rows) /\ GrowsBy(rows, n) /\ Len(rows) \in Nat
      <4>1. \/ \E i \in Items : \E n \in 0 .. Len(Rows(i)) : GrowsBy(Rows(i), n)
            \/ \E n \in 0 .. Len(pending) : GrowsBy(pending, n)
        BY <1>1, FileStep
      <4>2. Len(pending) \in Nat /\ \A i \in Items : Len(Rows(i)) \in Nat
        BY <1>1, RowsTyped, HeldTyped
      <4> QED
        BY <4>1, <4>2
    <3> QED
      BY <2>1, <3>1, LenProperties DEF GrowsBy
  <2> HIDE DEF old, new
  <2>3. SubSeq(new, 1, Len(old)) = old
    <3>1. /\ SubSeq(new, 1, Len(old)) \in Seq(Record)
          /\ Len(SubSeq(new, 1, Len(old))) = Len(old)
          /\ \A k \in 1 .. Len(old) : SubSeq(new, 1, Len(old))[k] = new[k]
      BY <2>1, <2>2, SubSeqProperties
    <3> QED
      BY <2>1, <2>2, <3>1, SeqEqual
  <2> QED
    BY <2>2, <2>3 DEF IsPrefix
<1> QED
  BY <1>1, InitType, TypeStep, PTL DEF Spec, RecordsAreKept
=============================================================================
