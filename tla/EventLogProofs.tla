--------------------------- MODULE EventLogProofs ---------------------------
(***************************************************************************)
(* Proofs about EventLog, for any number of writers and ids and any cuts:  *)
(* its types, that its terminated lines are the log of AtomicLog, what a   *)
(* torn write loses, how often an event is superseded, and what five rules *)
(* of the verifier report.                                                 *)
(***************************************************************************)
EXTENDS LogVerifier, SequenceTheorems, FiniteSetTheorems, TLAPS

(* The calls whose event has been drafted, and those of them whose event is *)
(* not yet on a terminated line.                                            *)
Drafted(w) == pc[w] \in {"lock", "write", "finish", "index"}
Pending(w) == pc[w] \in {"lock", "write", "finish"}

DraftsIssued ==
  /\ \A w \in Writers : Drafted(w) => draft[w] \in Event /\ draft[w].id \in issued
  /\ \A v, w \in Writers : v # w /\ Drafted(v) /\ Drafted(w) => draft[v].id # draft[w].id

(* Every event on a line was issued, and a pending one is on none.          *)
LinesIssued ==
  \A e \in Events(lines) :
    /\ e.id \in issued
    /\ \A w \in Writers : Pending(w) => e.id # draft[w].id

(* One writer at a time is past Acquire, and the last piece of the tail is  *)
(* its own while it writes.                                                 *)
Holder ==
  /\ \A v, w \in Writers : pc[v] \in Critical /\ pc[w] \in Critical => v = w
  /\ \A w \in Writers : pc[w] = "finish" => Len(tail) > 0 /\ tail[Len(tail)].event = draft[w]

IInv == TypeOK /\ DraftsIssued /\ LinesIssued /\ Holder

USE LogAssumption

(* Appending a line adds that line to the events of a log, or nothing.      *)
LEMMA EventsOfAppend ==
  ASSUME NEW S, NEW s \in Seq(S), NEW x \in S
  PROVE  Events(Append(s, x)) \subseteq Events(s) \cup {x}
<1> SUFFICES ASSUME NEW e \in Events(Append(s, x)), e # x PROVE e \in Events(s)
  OBVIOUS
<1>1. PICK i \in DOMAIN Append(s, x) : e = Append(s, x)[i]
  BY DEF Events
<1>2. i \in 1 .. Len(s)
  BY <1>1
<1>3. i \in DOMAIN s /\ e = s[i]
  BY <1>1, <1>2
<1> QED
  BY <1>3 DEF Events

(* The initial state satisfies the inductive invariant.                     *)
LEMMA InitIInv == Init => IInv
  BY DEF Init, IInv, TypeOK, DraftsIssued, LinesIssued, Holder, Critical, Drafted, Pending, Events, Labels, NoDraft

(* A line is an event that was drafted or is unreadable.                    *)
LEMMA LineIsDraftOrSpoilt ==
  ASSUME NEW w \in Writers
  PROVE  Line(w) \in {draft[w], Malformed, Undecodable}
  BY DEF Line

(* Every step of a writer keeps the variables in their types.               *)
LEMMA TypeStep == IInv /\ [Next]_vars => TypeOK'
<1> SUFFICES ASSUME IInv, [Next]_vars PROVE TypeOK'
  OBVIOUS
<1> USE DEF IInv, TypeOK, Labels, Goto
<1>1. ASSUME NEW w \in Writers, NEW id \in Ids, NEW target \in Ids \cup {NoId},
             Prepare(w, id, target)
      PROVE  TypeOK'
  <2>1. [id |-> id, supersedes |-> target] \in Event
    BY DEF Event
  <2> QED
    BY <1>1, <2>1 DEF Prepare
<1>2. ASSUME NEW w \in Writers, Acquire(w) PROVE TypeOK'
  BY <1>2 DEF Acquire
<1>3. ASSUME NEW w \in Writers, LockBusy(w) PROVE TypeOK'
  BY <1>3 DEF LockBusy
<1>4. ASSUME NEW w \in Writers, WriteBegins(w) PROVE TypeOK'
  <2>1. draft[w] \in Event
    BY <1>4 DEF WriteBegins, DraftsIssued, Drafted
  <2>2. PICK cut \in Cuts : tail' = Append(tail, [event |-> draft[w], cut |-> cut])
    BY <1>4 DEF WriteBegins
  <2>3. tail' \in Seq([event : Event, cut : CutKinds])
    BY <2>1, <2>2 DEF LogAssumption
  <2> QED
    BY <1>4, <2>3 DEF WriteBegins
<1>5. ASSUME NEW w \in Writers, WriteEnds(w) PROVE TypeOK'
  <2>1. draft[w] \in Event
    BY <1>5 DEF WriteEnds, DraftsIssued, Drafted
  <2>2. lines' \in Seq(Event \cup {Malformed, Undecodable})
    BY <1>5, <2>1, LineIsDraftOrSpoilt DEF WriteEnds
  <2> QED
    BY <1>5, <2>2 DEF WriteEnds
<1>6. ASSUME NEW w \in Writers, WriteRaises(w) PROVE TypeOK'
  BY <1>6 DEF WriteRaises
<1>7. ASSUME NEW w \in Writers, Return(w) PROVE TypeOK'
  BY <1>7 DEF Return, DraftsIssued, Drafted, Event
<1>8. ASSUME NEW w \in Writers, IndexRaises(w) PROVE TypeOK'
  BY <1>8 DEF IndexRaises
<1>9. ASSUME NEW w \in Writers, Crash(w) PROVE TypeOK'
  BY <1>9 DEF Crash
<1>10. CASE UNCHANGED vars
  BY <1>10 DEF vars
<1> QED
  BY <1>1, <1>2, <1>3, <1>4, <1>5, <1>6, <1>7, <1>8, <1>9, <1>10 DEF Next, Add, Supersede

(* Ids are drawn once, and leave the pending calls for the lines once.      *)
LEMMA IssuedStep == IInv /\ [Next]_vars => DraftsIssued' /\ LinesIssued'
<1> SUFFICES ASSUME IInv, [Next]_vars PROVE DraftsIssued' /\ LinesIssued'
  OBVIOUS
<1> USE DEF IInv, TypeOK, Labels, Goto, DraftsIssued, LinesIssued, Drafted, Pending
<1>1. ASSUME NEW w \in Writers, NEW id \in Ids, NEW target \in Ids \cup {NoId},
             Prepare(w, id, target)
      PROVE  DraftsIssued' /\ LinesIssued'
  <2>1. [id |-> id, supersedes |-> target] \in Event
    BY DEF Event
  <2>2. Events(lines)' = Events(lines)
    BY <1>1 DEF Prepare, Events
  <2> QED
    BY <1>1, <2>1, <2>2 DEF Prepare
<1>2. ASSUME NEW w \in Writers, WriteEnds(w) PROVE DraftsIssued' /\ LinesIssued'
  <2>1. Line(w) \in Event \cup {Malformed, Undecodable}
    BY <1>2, LineIsDraftOrSpoilt DEF WriteEnds
  <2>2. Events(lines)' \subseteq Events(lines) \cup {Line(w)}
    BY <1>2, <2>1, EventsOfAppend DEF WriteEnds
  <2>3. Events(lines)' \subseteq Events(lines) \cup {draft[w]}
    BY <2>2, LineIsDraftOrSpoilt DEF Events
  <2>4. /\ \A v \in Writers : /\ Drafted(v)' => Drafted(v)
                              /\ Pending(v)' => Pending(v) /\ v # w
        /\ UNCHANGED <<draft, issued>>
    BY <1>2 DEF WriteEnds
  <2>5. DraftsIssued'
    BY <2>4
  <2>6. ASSUME NEW e \in Events(lines)'
        PROVE  e.id \in issued' /\ \A v \in Writers : Pending(v)' => e.id # draft[v]'.id
    <3>1. CASE e \in Events(lines)
      BY <2>4, <3>1
    <3>2. CASE e = draft[w]
      <4>1. Drafted(w)
        BY <1>2 DEF WriteEnds
      <4> QED
        BY <2>4, <3>2, <4>1
    <3> QED
      BY <2>3, <3>1, <3>2
  <2> QED
    BY <2>5, <2>6
<1>3. ASSUME UNCHANGED <<lines, draft, issued>>,
             \A w \in Writers : (Drafted(w)' => Drafted(w)) /\ (Pending(w)' => Pending(w))
      PROVE  DraftsIssued' /\ LinesIssued'
  <2>1. Events(lines)' = Events(lines)
    BY <1>3 DEF Events
  <2> QED
    BY <1>3, <2>1
<1>4. ASSUME NEW w \in Writers,
             \/ Acquire(w) \/ LockBusy(w) \/ WriteBegins(w) \/ WriteRaises(w)
             \/ Return(w) \/ IndexRaises(w) \/ Crash(w)
      PROVE  DraftsIssued' /\ LinesIssued'
  BY <1>3, <1>4 DEF Acquire, LockBusy, WriteBegins, WriteRaises, Return, IndexRaises, Crash, Critical
<1>5. CASE UNCHANGED vars
  BY <1>3, <1>5 DEF vars
<1> QED
  BY <1>1, <1>2, <1>4, <1>5 DEF Next, Add, Supersede

(* A writer gets past Acquire when nobody is, and what it writes goes to the *)
(* end of the tail.                                                         *)
LEMMA HolderStep == IInv /\ [Next]_vars => Holder'
<1> SUFFICES ASSUME IInv, [Next]_vars PROVE Holder'
  OBVIOUS
<1> USE DEF Critical, Goto
<1>0. /\ pc \in [Writers -> Labels] /\ draft \in [Writers -> Event \cup {NoDraft}]
      /\ tail \in Seq([event : Event, cut : CutKinds]) /\ Holder
  BY DEF IInv, TypeOK
<1>1. ASSUME NEW w \in Writers, NEW id \in Ids, NEW target \in Ids \cup {NoId},
             Prepare(w, id, target)
      PROVE  Holder'
  BY <1>0, <1>1 DEF Prepare, Holder
<1>2. ASSUME NEW w \in Writers, Acquire(w) PROVE Holder'
  BY <1>0, <1>2 DEF Acquire, LockIsFree, Holder
<1>3. ASSUME NEW w \in Writers, WriteBegins(w) PROVE Holder'
  <2>1. PICK cut \in Cuts : tail' = Append(tail, [event |-> draft[w], cut |-> cut])
    BY <1>3 DEF WriteBegins
  <2>2. Len(tail') = Len(tail) + 1 /\ Len(tail') > 0 /\ tail'[Len(tail')].event = draft[w]
    BY <1>0, <2>1
  <2>3. \A v \in Writers : pc'[v] \in Critical => v = w
    BY <1>0, <1>3 DEF WriteBegins, Holder
  <2> QED
    BY <1>3, <2>2, <2>3 DEF WriteBegins, Holder
<1>4. ASSUME NEW w \in Writers, WriteEnds(w) PROVE Holder'
  BY <1>0, <1>4 DEF WriteEnds, Holder
<1>5. ASSUME NEW w \in Writers,
             LockBusy(w) \/ WriteRaises(w) \/ Return(w) \/ IndexRaises(w) \/ Crash(w)
      PROVE  Holder'
  BY <1>0, <1>5 DEF LockBusy, WriteRaises, Return, IndexRaises, Crash, Holder
<1>6. CASE UNCHANGED vars
  BY <1>0, <1>6 DEF vars, Holder
<1> QED
  BY <1>1, <1>2, <1>3, <1>4, <1>5, <1>6 DEF Next, Add, Supersede

(* The inductive invariant holds in every reachable state.                  *)
LEMMA IInvAlways == Spec => []IInv
<1>1. IInv /\ [Next]_vars => IInv'
  BY TypeStep, IssuedStep, HolderStep DEF IInv
<1> QED
  BY <1>1, InitIInv, PTL DEF Spec

(* TypeOK: the variables of EventLog keep their types, whatever writes are  *)
(* torn and whoever dies.                                                   *)
THEOREM TypeCorrect == Spec => []TypeOK
  BY IInvAlways, PTL DEF IInv

(* Each step leaves the terminated lines alone or is a step of AtomicLog:   *)
(* only WriteEnds touches them, and what it adds is new or unreadable.      *)
LEMMA StepRefines == IInv /\ [Next]_vars => [Promise!Next]_lines
<1> SUFFICES ASSUME IInv, [Next]_vars PROVE [Promise!Next]_lines
  OBVIOUS
<1>1. ASSUME NEW w \in Writers, WriteEnds(w) PROVE Promise!Next
  <2>1. CASE Line(w) = draft[w]
    <3>1. draft[w] \in Event
      BY <1>1 DEF WriteEnds, IInv, DraftsIssued, Drafted
    <3>2. PICK id \in Ids, target \in Ids \cup {NoId} :
            draft[w] = [id |-> id, supersedes |-> target]
      BY <3>1 DEF Event
    <3>3. \A e \in Promise!Logged : e.id # id
      BY <1>1, <3>2 DEF WriteEnds, IInv, LinesIssued, Pending, Events, Promise!Logged
    <3>4. Promise!AppendEvent(id, target)
      BY <1>1, <2>1, <3>2, <3>3 DEF WriteEnds, Promise!AppendEvent
    <3> QED
      BY <3>4 DEF Promise!Next
  <2>2. CASE Line(w) \in {Malformed, Undecodable}
    BY <1>1, <2>2 DEF WriteEnds, Promise!Next, Promise!AppendUnreadable
  <2> QED
    BY <2>1, <2>2, LineIsDraftOrSpoilt
<1>2. ASSUME NEW w \in Writers,
             \/ \E id \in Ids : Add(w, id) \/ \E target \in Ids : Supersede(w, id, target)
             \/ Acquire(w) \/ LockBusy(w) \/ WriteBegins(w) \/ WriteRaises(w)
             \/ Return(w) \/ IndexRaises(w) \/ Crash(w)
      PROVE  UNCHANGED lines
  BY <1>2 DEF Add, Supersede, Prepare, Acquire, LockBusy, WriteBegins, WriteRaises, Return,
              IndexRaises, Crash
<1> QED
  BY <1>1, <1>2 DEF Next, vars

(* ImplementsAtomicLog: the terminated lines of events.jsonl are the        *)
(* append-only log of AtomicLog, with every event on it at most once,       *)
(* wherever a write is cut and whoever is killed.                           *)
THEOREM Refinement == Spec => ImplementsAtomicLog
<1>1. Init => Promise!Init
  BY DEF Init, Promise!Init
<1> QED
  BY <1>1, StepRefines, IInvAlways, PTL DEF Spec, ImplementsAtomicLog, Promise!Spec

-----------------------------------------------------------------------------
(* What readers see: the events on the lines, and a whole one after the last*)
(* newline.                                                                 *)
LineIds == {e.id : e \in Events(lines)}
TailEvent == IF Len(tail) = 1 /\ tail[1].cut = "whole" THEN {tail[1].event} ELSE {}
OnDisk == Events(lines) \cup TailEvent

(* A part of a finite set is finite and no larger.                          *)
LEMMA Balance ==
  ASSUME NEW A, NEW B, IsFiniteSet(A), B \subseteq A
  PROVE  IsFiniteSet(B) /\ Cardinality(B) <= Cardinality(A)
         /\ Cardinality(A) \in Nat /\ Cardinality(B) \in Nat
  BY FS_Subset, FS_CardinalityType

(* Appending keeps what was on the lines, and adds an event that is a line. *)
LEMMA EventsStay ==
  ASSUME NEW S, NEW s \in Seq(S), NEW x \in S
  PROVE  /\ Events(s) \subseteq Events(Append(s, x))
         /\ x \notin {Malformed, Undecodable} => x \in Events(Append(s, x))
<1>1. \A i \in DOMAIN s : i \in DOMAIN Append(s, x) /\ Append(s, x)[i] = s[i]
  OBVIOUS
<1>2. Len(s) + 1 \in DOMAIN Append(s, x) /\ Append(s, x)[Len(s) + 1] = x
  OBVIOUS
<1> QED
  BY <1>1, <1>2 DEF Events

(* What readers may see is what is on the disk.                             *)
LEMMA LogIsOnDisk == TypeOK => Events(Log) = OnDisk
<1> SUFFICES ASSUME TypeOK PROVE Events(Log) = OnDisk
  OBVIOUS
<1> USE DEF TypeOK
<1>1. CASE Len(tail) = 1 /\ tail[1].cut = "whole"
  <2>1. tail[1] \in [event : Event, cut : CutKinds]
    <3>1. tail \in Seq([event : Event, cut : CutKinds]) /\ 1 \in 1 .. Len(tail)
      BY <1>1
    <3> QED
      BY <3>1, ElementOfSeq, Zenon
  <2>2. tail[1].event \in Event /\ tail[1].event \notin {Malformed, Undecodable}
    BY <2>1
  <2>3. Log = Append(lines, tail[1].event)
    BY <1>1, <2>2 DEF Log, TailEvents
  <2>4. Events(Log) \subseteq Events(lines) \cup {tail[1].event}
    BY <2>2, <2>3, EventsOfAppend
  <2>5. Events(lines) \cup {tail[1].event} \subseteq Events(Log)
    BY <2>2, <2>3, EventsStay
  <2> QED
    BY <1>1, <2>4, <2>5 DEF OnDisk, TailEvent
<1>2. CASE ~(Len(tail) = 1 /\ tail[1].cut = "whole")
  <2>1. Log = lines
    BY <1>2 DEF Log, TailEvents
  <2> QED
    BY <1>2, <2>1 DEF OnDisk, TailEvent
<1> QED
  BY <1>1, <1>2

-----------------------------------------------------------------------------
(* Loss.  The ids whose call has returned or may return without another     *)
(* write, those of them that are on no line, and the pieces of the tail that*)
(* nobody will finish: each lost id has used up one torn write, and each    *)
(* such piece has one in store.                                             *)
Settled == acked \cup {draft[w].id : w \in {v \in Writers : pc[v] = "index"}}
Lost == Settled \ LineIds
Writing == \E w \in Writers : pc[w] = "finish"
TornPieces == IF Writing THEN Len(tail) - 1 ELSE Len(tail)

LossInv ==
  /\ Legible
  /\ IsFiniteSet(Lost)
  /\ Cardinality(Lost) + TornPieces <= tears

(* No line and no piece is undecodable, initially and after every step, when*)
(* no write is cut inside a character.                                      *)
LEMMA LegibleStep ==
  ASSUME "split" \notin Cuts
  PROVE  IInv /\ Legible /\ [Next]_vars => Legible'
<1> SUFFICES ASSUME IInv, Legible, [Next]_vars PROVE Legible'
  OBVIOUS
<1> USE DEF IInv, TypeOK
<1>1. ASSUME NEW w \in Writers, WriteBegins(w) PROVE Legible'
  <2>1. PICK cut \in Cuts : tail' = Append(tail, [event |-> draft[w], cut |-> cut])
    BY <1>1 DEF WriteBegins
  <2> DEFINE piece == [event |-> draft[w], cut |-> cut]
  <2>2. ASSUME NEW i \in DOMAIN tail' PROVE tail'[i].cut # "split"
    <3>1. CASE i = Len(tail) + 1
      <4>1. tail'[i] = piece
        BY <2>1, <3>1
      <4> QED
        BY <4>1
    <3>2. CASE i # Len(tail) + 1
      <4>1. i \in DOMAIN tail /\ tail'[i] = tail[i]
        BY <2>1, <2>2, <3>2
      <4> QED
        BY <4>1 DEF Legible
    <3> QED
      BY <3>1, <3>2
  <2> QED
    BY <1>1, <2>2 DEF WriteBegins, Legible
<1>2. ASSUME NEW w \in Writers, WriteEnds(w) PROVE Legible'
  <2>1. draft[w] \in Event
    BY <1>2 DEF WriteEnds, DraftsIssued, Drafted
  <2>2. \A i \in 1 .. (Len(tail) - 1) : tail[i].cut # "split"
    BY DEF Legible
  <2>3. Line(w) \in Event \cup {Malformed} /\ Line(w) # Undecodable
    BY <2>1, <2>2 DEF Line, LogAssumption
  <2>4. \A i \in DOMAIN lines' : lines'[i] # Undecodable
    BY <1>2, <2>3 DEF WriteEnds, Legible
  <2>5. DOMAIN tail' = {}
    BY <1>2 DEF WriteEnds
  <2> QED
    BY <2>4, <2>5 DEF Legible
<1>3. CASE UNCHANGED <<lines, tail>>
  BY <1>3 DEF Legible
<1> QED
  BY <1>1, <1>2, <1>3 DEF Next, vars, Add, Supersede, Prepare, Acquire, LockBusy, WriteRaises,
     Return, IndexRaises, Crash

(* A step that writes nothing and settles no new id keeps the balance, also *)
(* when it leaves a write unfinished and counts it as torn.                 *)
LEMMA QuietStep ==
  ASSUME IInv, LossInv, UNCHANGED <<lines, tail>>,
         Settled' \subseteq Settled,
         \/ UNCHANGED tears /\ Writing' = Writing
         \/ tears' = tears + 1 /\ Writing
  PROVE  LossInv'
<1> USE DEF IInv, TypeOK, LossInv
<1>1. Legible'
  BY DEF Legible
<1>2. Lost' \subseteq Lost
  BY DEF Lost, LineIds, Events
<1>3. IsFiniteSet(Lost') /\ Cardinality(Lost') <= Cardinality(Lost)
      /\ Cardinality(Lost) \in Nat /\ Cardinality(Lost') \in Nat
  BY <1>2, Balance
<1>4. Len(tail) \in Nat /\ Len(tail') = Len(tail)
  OBVIOUS
<1>5. Writing' => Writing
  BY DEF Writing
<1>6. Cardinality(Lost') + TornPieces' <= tears'
  BY <1>3, <1>4, <1>5 DEF TornPieces
<1> QED
  BY <1>1, <1>3, <1>4, <1>5, <1>6

(* The balance of LossInv is kept by every step of a writer, when no write  *)
(* is cut inside a character.                                               *)
LEMMA LossStep ==
  ASSUME "split" \notin Cuts
  PROVE  IInv /\ LossInv /\ [Next]_vars => LossInv'
<1> SUFFICES ASSUME IInv, LossInv, [Next]_vars PROVE LossInv'
  OBVIOUS
<1>0. Legible'
  BY LegibleStep DEF LossInv
<1> USE DEF Goto, Critical
<1>pc. pc \in [Writers -> Labels]
  BY DEF IInv, TypeOK
<1>ex. /\ \A v, w \in Writers : pc[v] \in Critical /\ pc[w] \in Critical => v = w
       /\ Writing => Len(tail) > 0
  BY DEF IInv, Holder, Writing
<1>1. ASSUME NEW w \in Writers, NEW id \in Ids, NEW target \in Ids \cup {NoId},
             Prepare(w, id, target)
      PROVE  LossInv'
  <2>1. \A v \in Writers : v # w => pc'[v] = pc[v] /\ draft'[v] = draft[v]
    BY <1>1, <1>pc DEF Prepare, IInv, TypeOK
  <2>2. pc'[w] = "lock" /\ pc[w] = "idle"
    BY <1>1, <1>pc DEF Prepare
  <2>3. Settled' \subseteq Settled
    BY <1>1, <2>1, <2>2 DEF Prepare, Settled
  <2>4. Writing' = Writing
    BY <2>1, <2>2 DEF Writing
  <2> QED
    BY <1>1, <2>3, <2>4, QuietStep DEF Prepare
<1>2. ASSUME NEW w \in Writers, Acquire(w) PROVE LossInv'
  <2>1. Settled' \subseteq Settled
    BY <1>2, <1>pc DEF Acquire, Settled
  <2>2. Writing' = Writing
    BY <1>2, <1>pc DEF Acquire, Writing
  <2> QED
    BY <1>2, <2>1, <2>2, QuietStep DEF Acquire
<1>3. ASSUME NEW w \in Writers, LockBusy(w) PROVE LossInv'
  <2>1. Settled' \subseteq Settled
    BY <1>3, <1>pc DEF LockBusy, Settled
  <2>2. Writing' = Writing
    BY <1>3, <1>pc DEF LockBusy, Writing
  <2> QED
    BY <1>3, <2>1, <2>2, QuietStep DEF LockBusy
<1>4. ASSUME NEW w \in Writers, WriteBegins(w) PROVE LossInv'
  <2>1. Len(tail) \in Nat /\ Len(tail') = Len(tail) + 1
    BY <1>4 DEF WriteBegins, IInv, TypeOK
  <2>2. ~Writing /\ Writing'
    BY <1>4, <1>pc, <1>ex DEF WriteBegins, Writing
  <2>3. Lost' \subseteq Lost
    BY <1>4, <1>pc DEF WriteBegins, Lost, LineIds, Events, Settled
  <2>4. IsFiniteSet(Lost') /\ Cardinality(Lost') <= Cardinality(Lost)
        /\ Cardinality(Lost) \in Nat /\ Cardinality(Lost') \in Nat
    BY <2>3, Balance DEF LossInv
  <2>6. tears \in Nat /\ tears' = tears
    BY <1>4 DEF WriteBegins, IInv, TypeOK
  <2>7. Cardinality(Lost') + TornPieces' <= tears'
    BY <2>1, <2>2, <2>4, <2>6 DEF TornPieces, LossInv
  <2> QED
    BY <1>0, <2>1, <2>4, <2>7 DEF LossInv
<1>5. ASSUME NEW w \in Writers, WriteEnds(w) PROVE LossInv'
  <2>1. Writing /\ ~Writing'
    BY <1>5, <1>pc, <1>ex DEF WriteEnds, Writing
  <2>2. Len(tail) \in Nat /\ Len(tail) > 0 /\ Len(tail') = 0
    BY <1>5, <2>1, <1>ex DEF WriteEnds, IInv, TypeOK
  <2>3. draft[w] \in Event /\ Line(w) \in Event \cup {Malformed, Undecodable}
    BY <1>5, LineIsDraftOrSpoilt DEF WriteEnds, IInv, DraftsIssued, Drafted
  <2>4. Settled' \subseteq Settled \cup {draft[w].id}
    BY <1>5, <1>pc DEF WriteEnds, Settled
  <2>5. LineIds \subseteq LineIds'
    BY <1>5, <2>3, EventsStay DEF WriteEnds, LineIds, IInv, TypeOK
  <2>6. IsFiniteSet(Lost) /\ Cardinality(Lost) \in Nat /\ tears \in Nat /\ tears' = tears
    BY <1>5, FS_CardinalityType DEF WriteEnds, LossInv, IInv, TypeOK
  <2>7. Cardinality(Lost) + (Len(tail) - 1) <= tears
    BY <2>1 DEF LossInv, TornPieces
  <2>9. IsFiniteSet(Lost') /\ Cardinality(Lost') <= tears /\ Cardinality(Lost') \in Nat
    <3>1. CASE Len(tail) = 1
      <4>1. draft[w] \in Events(lines)'
        BY <1>5, <2>3, <3>1, EventsStay DEF WriteEnds, Line, LogAssumption, IInv, TypeOK
      <4>2. Lost' \subseteq Lost
        BY <2>4, <2>5, <4>1 DEF Lost, LineIds
      <4> QED
        BY <2>6, <2>7, <3>1, <4>2, Balance
    <3>2. CASE Len(tail) # 1
      <4>1. Lost' \subseteq Lost \cup {draft[w].id}
        BY <2>4, <2>5 DEF Lost
      <4>2. IsFiniteSet(Lost \cup {draft[w].id})
            /\ Cardinality(Lost \cup {draft[w].id}) <= Cardinality(Lost) + 1
        BY <2>6, FS_AddElement, SMTT(30)
      <4> QED
        BY <2>2, <2>6, <2>7, <3>2, <4>1, <4>2, Balance, SMTT(30)
    <3> QED
      BY <3>1, <3>2
  <2> QED
    BY <1>0, <2>1, <2>2, <2>6, <2>9 DEF LossInv, TornPieces
<1>6. ASSUME NEW w \in Writers, WriteRaises(w) \/ Crash(w) PROVE LossInv'
  <2>1. Settled' \subseteq Settled /\ UNCHANGED <<lines, tail>>
    BY <1>6, <1>pc DEF WriteRaises, Crash, Settled
  <2>3. CASE pc[w] = "finish"
    <3>1. Writing /\ tears' = tears + 1
      BY <1>6, <2>3 DEF WriteRaises, Crash, Writing
    <3> QED
      BY <2>1, <3>1, QuietStep
  <2>4. CASE pc[w] # "finish"
    <3>1. Writing' = Writing
      BY <1>6, <2>4, <1>pc DEF WriteRaises, Crash, Writing
    <3>2. tears' = tears
      BY <1>6, <2>4 DEF WriteRaises, Crash, IInv, TypeOK
    <3> QED
      BY <2>1, <3>1, <3>2, QuietStep
  <2> QED
    BY <2>3, <2>4
<1>7. ASSUME NEW w \in Writers, Return(w) \/ IndexRaises(w) PROVE LossInv'
  <2>1. Settled' \subseteq Settled
    BY <1>7, <1>pc DEF Return, IndexRaises, Settled
  <2>2. Writing' = Writing
    BY <1>7, <1>pc DEF Return, IndexRaises, Writing
  <2> QED
    BY <1>7, <2>1, <2>2, QuietStep DEF Return, IndexRaises
<1>8. CASE UNCHANGED vars
  BY <1>8, QuietStep DEF vars, Settled, Writing
<1> QED
  BY <1>1, <1>2, <1>3, <1>4, <1>5, <1>6, <1>7, <1>8 DEF Next, Add, Supersede

(* LossBoundedByTears: an event whose call returned is missing from the log *)
(* only because a torn write swallowed it, and each torn write swallows one *)
(* at most; for writes that are not cut inside a character.                 *)
THEOREM LossBounded ==
  ASSUME "split" \notin Cuts
  PROVE  Spec => []LossBoundedByTears
<1>1. Init => LossInv
  <2> SUFFICES ASSUME Init PROVE LossInv
    OBVIOUS
  <2>1. Lost = {}
    BY DEF Init, Lost, Settled
  <2>2. ~Writing
    BY DEF Init, Writing
  <2>3. Legible /\ TornPieces = 0 /\ tears = 0
    BY <2>2 DEF Init, Legible, TornPieces
  <2> QED
    BY <2>1, <2>2, <2>3, FS_EmptySet DEF LossInv
<1>2. IInv /\ LossInv /\ [Next]_vars => LossInv'
  BY LossStep
<1>3. IInv /\ LossInv => LossBoundedByTears
  <2> SUFFICES ASSUME IInv, LossInv PROVE LossBoundedByTears
    OBVIOUS
  <2>1. LineIds \subseteq Records
    BY LogIsOnDisk DEF IInv, LossInv, LineIds, OnDisk, Records, Readable
  <2>2. acked \ Records \subseteq Lost
    BY <2>1 DEF Lost, Settled
  <2>3. Cardinality(acked \ Records) <= Cardinality(Lost) /\ Cardinality(Lost) \in Nat
        /\ Cardinality(acked \ Records) \in Nat
    BY <2>2, Balance DEF LossInv
  <2>4. TornPieces \in Nat /\ tears \in Nat
    BY DEF TornPieces, Writing, Holder, IInv, TypeOK
  <2> QED
    BY <2>3, <2>4 DEF LossBoundedByTears, LossInv
<1> QED
  BY <1>1, <1>2, <1>3, IInvAlways, PTL DEF Spec

-----------------------------------------------------------------------------
(* Successors.  The events that supersede an id, on the disk or about to be *)
(* written: a writer adds to them only by the check that found none on the  *)
(* disk.                                                                    *)
Drafts == {draft[w] : w \in {v \in Writers : Pending(v)}}
Aimed(id) == {e \in OnDisk \cup Drafts : e.supersedes = id}

SuccessorInv ==
  \A id \in Ids : IsFiniteSet(Aimed(id)) /\ Cardinality(Aimed(id)) <= Cardinality(Writers)

(* A set of events no larger than before stays within the bound.            *)
LEMMA AimedNoMore ==
  ASSUME SuccessorInv, IsFiniteSet(Writers), NEW id \in Ids, Aimed(id)' \subseteq Aimed(id)
  PROVE  IsFiniteSet(Aimed(id)') /\ Cardinality(Aimed(id)') <= Cardinality(Writers)
<1>1. /\ IsFiniteSet(Aimed(id)') /\ Cardinality(Aimed(id)') <= Cardinality(Aimed(id))
      /\ Cardinality(Aimed(id)) \in Nat /\ Cardinality(Aimed(id)') \in Nat
  BY Balance DEF SuccessorInv
<1>2. Cardinality(Writers) \in Nat
  BY FS_CardinalityType
<1> QED
  BY <1>1, <1>2 DEF SuccessorInv

(* A supersede that passes its check starts the count anew, and no other    *)
(* step adds to what is aimed at an id.                                     *)
LEMMA SuccessorStep ==
  ASSUME IsFiniteSet(Writers)
  PROVE  IInv /\ SuccessorInv /\ [Next]_vars => SuccessorInv'
<1> SUFFICES ASSUME IInv, SuccessorInv, [Next]_vars, NEW id \in Ids
             PROVE  IsFiniteSet(Aimed(id)') /\ Cardinality(Aimed(id)') <= Cardinality(Writers)
  BY DEF SuccessorInv
<1>pc. pc \in [Writers -> Labels] /\ draft \in [Writers -> Event \cup {NoDraft}] /\ TypeOK
  BY DEF IInv, TypeOK
<1>1. ASSUME NEW w \in Writers, NEW new \in Ids, Supersede(w, new, id)
      PROVE  IsFiniteSet(Aimed(id)') /\ Cardinality(Aimed(id)') <= Cardinality(Writers)
  <2>1. Readable = OnDisk
    BY <1>1, <1>pc, LogIsOnDisk DEF Supersede, IsActive, Records, Readable
  <2>2. \A e \in OnDisk : e.supersedes # id
    BY <1>1, <2>1 DEF Supersede, IsActive, Superseded, LogAssumption
  <2>3. OnDisk' = OnDisk
    BY <1>1 DEF Supersede, Prepare, OnDisk, TailEvent, Events
  <2>4. Aimed(id)' \subseteq Drafts'
    BY <2>2, <2>3 DEF Aimed
  <2>5. /\ IsFiniteSet(Drafts') /\ Cardinality(Drafts') <= Cardinality(Writers)
        /\ Cardinality(Drafts') \in Nat /\ Cardinality(Writers) \in Nat
    <3> DEFINE P == {v \in Writers : Pending(v)'}
               f == [v \in P |-> draft'[v]]
    <3>1. IsFiniteSet(P) /\ Cardinality(P) <= Cardinality(Writers)
          /\ Cardinality(P) \in Nat /\ Cardinality(Writers) \in Nat
      BY FS_Subset, FS_CardinalityType
    <3>2. f \in Surjection(P, Drafts')
      BY DEF Surjection, Drafts
    <3>3. IsFiniteSet(Drafts') /\ Cardinality(Drafts') <= Cardinality(P)
      BY <3>1, <3>2, FS_Surjection
    <3> QED
      BY <3>1, <3>3, FS_CardinalityType
  <2> QED
    BY <2>4, <2>5, Balance
<1>2. ASSUME NEW w \in Writers, NEW new \in Ids, NEW target \in Ids \cup {NoId}, target # id,
             Prepare(w, new, target)
      PROVE  Aimed(id)' \subseteq Aimed(id)
  <2>1. OnDisk' = OnDisk
    BY <1>2 DEF Prepare, OnDisk, TailEvent, Events
  <2>2. draft'[w].supersedes # id /\ \A v \in Writers \ {w} : pc'[v] = pc[v] /\ draft'[v] = draft[v]
    BY <1>2, <1>pc DEF Prepare, Goto
  <2>3. \A e \in Drafts' : e.supersedes = id => e \in Drafts
    BY <2>2 DEF Drafts, Pending
  <2> QED
    BY <2>1, <2>3 DEF Aimed
<1>3. ASSUME NEW w \in Writers, WriteBegins(w) PROVE Aimed(id)' \subseteq Aimed(id)
  <2>1. PICK cut \in Cuts : tail' = Append(tail, [event |-> draft[w], cut |-> cut])
    BY <1>3 DEF WriteBegins
  <2>2. TailEvent' \subseteq {draft[w]}
    <3>1. CASE tail = <<>>
      <4>1. tail'[1].event = draft[w]
        BY <2>1, <3>1
      <4> QED
        BY <4>1 DEF TailEvent
    <3>2. CASE tail # <<>>
      <4>1. Len(tail') # 1
        BY <2>1, <3>2, <1>pc DEF TypeOK
      <4> QED
        BY <4>1 DEF TailEvent
    <3> QED
      BY <3>1, <3>2
  <2>3. draft[w] \in Drafts /\ Drafts' = Drafts /\ Events(lines)' = Events(lines)
    BY <1>3, <1>pc DEF WriteBegins, Goto, Drafts, Pending, Events
  <2> QED
    BY <2>2, <2>3 DEF Aimed, OnDisk
<1>4. ASSUME NEW w \in Writers, WriteEnds(w) PROVE Aimed(id)' \subseteq Aimed(id)
  <2>1. draft[w] \in Event /\ Line(w) \in Event \cup {Malformed, Undecodable}
    BY <1>4, LineIsDraftOrSpoilt DEF WriteEnds, IInv, DraftsIssued, Drafted
  <2>2. Events(lines)' \subseteq Events(lines) \cup {Line(w)}
    BY <1>4, <1>pc, <2>1, EventsOfAppend DEF WriteEnds, TypeOK
  <2>3. Events(lines)' \subseteq Events(lines) \cup {draft[w]}
    BY <2>2, LineIsDraftOrSpoilt DEF Events
  <2>4. TailEvent' = {}
    BY <1>4 DEF WriteEnds, TailEvent
  <2>5. draft[w] \in Drafts /\ Drafts' \subseteq Drafts
    BY <1>4, <1>pc DEF WriteEnds, Goto, Drafts, Pending
  <2> QED
    BY <2>3, <2>4, <2>5 DEF Aimed, OnDisk
<1>5. ASSUME UNCHANGED <<lines, tail, draft>>, \A v \in Writers : Pending(v)' => Pending(v)
      PROVE  Aimed(id)' \subseteq Aimed(id)
  <2>1. OnDisk' = OnDisk
    BY <1>5 DEF OnDisk, TailEvent, Events
  <2>2. Drafts' \subseteq Drafts
    BY <1>5 DEF Drafts
  <2> QED
    BY <2>1, <2>2 DEF Aimed
<1>6. ASSUME NEW w \in Writers,
             \/ Acquire(w) \/ LockBusy(w) \/ WriteRaises(w) \/ Return(w) \/ IndexRaises(w) \/ Crash(w)
      PROVE  Aimed(id)' \subseteq Aimed(id)
  BY <1>5, <1>6, <1>pc DEF Acquire, LockBusy, WriteRaises, Return, IndexRaises, Crash, Goto,
     Critical, Pending, Labels
<1>7. ASSUME UNCHANGED vars PROVE Aimed(id)' \subseteq Aimed(id)
  BY <1>5, <1>7 DEF vars, Pending
<1>8. (\E w \in Writers, new \in Ids : Supersede(w, new, id)) \/ Aimed(id)' \subseteq Aimed(id)
  BY <1>2, <1>3, <1>4, <1>6, <1>7 DEF Next, Add, Supersede, LogAssumption
<1> QED
  BY <1>1, <1>8, AimedNoMore

(* SuccessorsBounded: however many calls pass the check of one target before*)
(* any of them appends, an event gets no more successors than there are     *)
(* writers.                                                                 *)
THEOREM FewSuccessors ==
  ASSUME IsFiniteSet(Writers)
  PROVE  Spec => []SuccessorsBounded
<1>1. Init => SuccessorInv
  <2> SUFFICES ASSUME Init, NEW id \in Ids
               PROVE  IsFiniteSet(Aimed(id)) /\ Cardinality(Aimed(id)) <= Cardinality(Writers)
    BY DEF SuccessorInv
  <2>1. Aimed(id) = {}
    BY DEF Init, Aimed, OnDisk, TailEvent, Drafts, Pending, Events
  <2> QED
    BY <2>1, FS_EmptySet, FS_CardinalityType
<1>2. IInv /\ SuccessorInv /\ [Next]_vars => SuccessorInv'
  BY SuccessorStep
<1>3. IInv /\ SuccessorInv => SuccessorsBounded
  <2> SUFFICES ASSUME IInv, SuccessorInv, NEW id \in Ids
               PROVE  Cardinality(Successors(id)) <= Cardinality(Writers)
    BY DEF SuccessorsBounded
  <2>1. Readable \subseteq OnDisk
    BY LogIsOnDisk DEF IInv, Readable
  <2>2. Successors(id) \subseteq Aimed(id)
    BY <2>1 DEF Successors, Aimed
  <2>3. /\ Cardinality(Successors(id)) <= Cardinality(Aimed(id))
        /\ Cardinality(Aimed(id)) \in Nat /\ Cardinality(Successors(id)) \in Nat
    BY <2>2, Balance DEF SuccessorInv
  <2>4. Cardinality(Writers) \in Nat
    BY FS_CardinalityType
  <2> QED
    BY <2>3, <2>4 DEF SuccessorInv
<1> QED
  BY <1>1, <1>2, <1>3, IInvAlways, PTL DEF Spec

-----------------------------------------------------------------------------
(* Blame.  The calls that have not begun to write, the events written or    *)
(* about to be, and what they say they supersede.                           *)
Waiting(w) == pc[w] \in {"lock", "write"}
TailIds == {tail[i].event.id : i \in DOMAIN tail}
Named == Events(lines) \cup {tail[i].event : i \in DOMAIN tail} \cup Drafts
Targets == {e.supersedes : e \in Named} \ {NoId}

(* No id is on two lines, in the tail and on a line, or on the disk before  *)
(* its call writes.                                                         *)
OnceWritten ==
  /\ \A i, j \in DOMAIN lines : lines[i] \in Event /\ lines[j] \in Event /\ lines[i].id = lines[j].id => i = j
  /\ \A i \in DOMAIN tail :
       /\ tail[i].event.id \in issued /\ tail[i].event.id \notin LineIds
       /\ \A w \in Writers : Waiting(w) => draft[w].id # tail[i].event.id

(* A target was read from the disk by an earlier call.  In the tail it can  *)
(* only be the first piece, whole; then nothing on a line names it yet, and *)
(* what is on a line names nothing that came on a later line.               *)
TargetsEarlier ==
  /\ \A e \in Named : e.supersedes # NoId =>
       /\ e.supersedes \in issued /\ e.supersedes # e.id
       /\ \A w \in Writers : Waiting(w) => e.supersedes # draft[w].id
  /\ \A e \in Named, i \in DOMAIN tail : e.supersedes = tail[i].event.id => i = 1 /\ tail[1].cut = "whole"
  /\ \A e \in Events(lines) : e.supersedes \notin TailIds
  /\ \A k \in DOMAIN lines : lines[k] \in Event /\ lines[k].supersedes \in LineIds =>
       \E i \in 1 .. (k - 1) : lines[i] \in Event /\ lines[i].id = lines[k].supersedes

(* Targets that a torn write swallowed, and lines it spoilt: each has used  *)
(* up one torn write.                                                       *)
Missing == Targets \ (LineIds \cup TailIds)
Spoilt == {k \in DOMAIN lines : lines[k] \notin Event}
TearsPay ==
  /\ IsFiniteSet(Missing) /\ Cardinality(Missing) + TornPieces <= tears
  /\ IsFiniteSet(Spoilt) /\ Cardinality(Spoilt) + TornPieces <= tears

BlameInv == OnceWritten /\ TargetsEarlier /\ TearsPay

(* The pieces of the tail are events with their cuts.                       *)
LEMMA TailPieces ==
  ASSUME TypeOK, NEW i \in DOMAIN tail
  PROVE  tail[i] \in [event : Event, cut : CutKinds] /\ tail[i].event \in Event
<1>1. tail \in Seq([event : Event, cut : CutKinds]) /\ i \in 1 .. Len(tail)
  BY DEF TypeOK
<1>2. tail[i] \in [event : Event, cut : CutKinds]
  BY <1>1, ElementOfSeq, Zenon
<1> QED
  BY <1>2

(* The lines are events or unreadable.                                      *)
LEMMA LineEvents ==
  ASSUME TypeOK
  PROVE  \A e : e \in Events(lines) <=> \E i \in DOMAIN lines : lines[i] \in Event /\ e = lines[i]
<1>1. \A i \in DOMAIN lines : lines[i] \in Event \cup {Malformed, Undecodable}
  BY DEF TypeOK
<1> QED
  BY <1>1 DEF Events

(* Steps by what they do to the file: a call is drafted, a write begins, a  *)
(* write ends, or the file stays and nobody begins to wait.                 *)
Quiet ==
  /\ UNCHANGED <<lines, tail, draft, issued>>
  /\ \A w \in Writers : (Pending(w)' => Pending(w)) /\ (Waiting(w)' => Waiting(w))

LEMMA Kinds ==
  ASSUME IInv, [Next]_vars
  PROVE  \/ \E w \in Writers, id \in Ids, target \in Ids \cup {NoId} :
              Prepare(w, id, target) /\ (target # NoId => IsActive(target))
         \/ \E w \in Writers : WriteBegins(w) \/ WriteEnds(w)
         \/ Quiet
<1>0. pc \in [Writers -> Labels]
  BY DEF IInv, TypeOK
<1>1. ASSUME NEW w \in Writers,
             \/ Acquire(w) \/ LockBusy(w) \/ WriteRaises(w) \/ Return(w) \/ IndexRaises(w) \/ Crash(w)
      PROVE  Quiet
  BY <1>0, <1>1 DEF Acquire, LockBusy, WriteRaises, Return, IndexRaises, Crash, Goto, Critical,
     Quiet, Pending, Waiting
<1>2. CASE UNCHANGED vars
  BY <1>2 DEF vars, Quiet, Pending, Waiting
<1> QED
  BY <1>1, <1>2 DEF Next, Add, Supersede

(* What a step adds to the events that are named: the draft of a call.      *)
LEMMA NamedStep ==
  ASSUME IInv
  PROVE  /\ \A w \in Writers, id \in Ids, target \in Ids \cup {NoId} : Prepare(w, id, target) =>
              Named' \subseteq Named \cup {[id |-> id, supersedes |-> target]}
         /\ \A w \in Writers : WriteBegins(w) \/ WriteEnds(w) => Named' \subseteq Named
         /\ Quiet => Named' \subseteq Named
<1>0. /\ pc \in [Writers -> Labels] /\ draft \in [Writers -> Event \cup {NoDraft}]
      /\ lines \in Seq(Event \cup {Malformed, Undecodable})
      /\ tail \in Seq([event : Event, cut : CutKinds])
  BY DEF IInv, TypeOK
<1>1. ASSUME NEW w \in Writers, NEW id \in Ids, NEW target \in Ids \cup {NoId}, Prepare(w, id, target)
      PROVE  Named' \subseteq Named \cup {[id |-> id, supersedes |-> target]}
  <2>1. Drafts' \subseteq Drafts \cup {[id |-> id, supersedes |-> target]}
    BY <1>0, <1>1 DEF Prepare, Goto, Drafts, Pending
  <2>2. Events(lines)' = Events(lines) /\ tail' = tail
    BY <1>1 DEF Prepare, Events
  <2> QED
    BY <2>1, <2>2 DEF Named
<1>2. ASSUME NEW w \in Writers, WriteBegins(w) PROVE Named' \subseteq Named
  <2>1. Drafts' = Drafts /\ draft[w] \in Drafts /\ Events(lines)' = Events(lines)
    BY <1>0, <1>2 DEF WriteBegins, Goto, Drafts, Pending, Events
  <2>2. PICK cut \in Cuts : tail' = Append(tail, [event |-> draft[w], cut |-> cut])
    BY <1>2 DEF WriteBegins
  <2>3. \A i \in DOMAIN tail' : tail'[i].event = draft[w] \/ (i \in DOMAIN tail /\ tail'[i] = tail[i])
    BY <1>0, <2>2
  <2> QED
    BY <2>1, <2>3 DEF Named
<1>3. ASSUME NEW w \in Writers, WriteEnds(w) PROVE Named' \subseteq Named
  <2>1. draft[w] \in Drafts /\ Drafts' \subseteq Drafts /\ DOMAIN tail' = {}
    BY <1>0, <1>3 DEF WriteEnds, Goto, Drafts, Pending
  <2>2. draft[w] \in Event /\ Line(w) \in Event \cup {Malformed, Undecodable}
    BY <1>3, LineIsDraftOrSpoilt DEF WriteEnds, IInv, DraftsIssued, Drafted
  <2>3. Events(lines)' \subseteq Events(lines) \cup {Line(w)}
    BY <1>0, <1>3, <2>2, EventsOfAppend DEF WriteEnds
  <2>4. Events(lines)' \subseteq Events(lines) \cup {draft[w]}
    BY <2>3, LineIsDraftOrSpoilt DEF Events
  <2> QED
    BY <2>1, <2>4 DEF Named
<1>4. ASSUME Quiet PROVE Named' \subseteq Named
  BY <1>4 DEF Quiet, Named, Drafts, Events
<1> QED
  BY <1>1, <1>2, <1>3, <1>4

(* A write that ends adds its event when the tail is its own piece alone,   *)
(* and spoils a line otherwise.                                             *)
LEMMA WriteEndsEffect ==
  ASSUME IInv, NEW w \in Writers, WriteEnds(w)
  PROVE  /\ draft[w] \in Event /\ draft[w].id \notin LineIds /\ draft[w].id \in issued
         /\ Len(tail) \in Nat /\ Len(tail) > 0 /\ DOMAIN tail' = {} /\ Len(tail') = 0
         /\ lines' = Append(lines, Line(w)) /\ Len(lines) \in Nat
         /\ Len(tail) = 1 => /\ Line(w) = draft[w] /\ tail[1].event = draft[w]
                             /\ LineIds' = LineIds \cup {draft[w].id}
         /\ Len(tail) # 1 => Line(w) \notin Event /\ LineIds' = LineIds
<1>1. draft[w] \in Event /\ draft[w].id \notin LineIds /\ draft[w].id \in issued
  BY DEF WriteEnds, IInv, DraftsIssued, LinesIssued, Drafted, Pending, LineIds
<1>2. /\ Len(tail) \in Nat /\ Len(tail) > 0 /\ tail[Len(tail)].event = draft[w]
      /\ DOMAIN tail' = {} /\ Len(tail') = 0 /\ lines' = Append(lines, Line(w)) /\ Len(lines) \in Nat
  BY DEF WriteEnds, IInv, TypeOK, Holder
<1>3. /\ lines \in Seq(Event \cup {Malformed, Undecodable})
      /\ Line(w) \in Event \cup {Malformed, Undecodable}
  BY <1>1, LineIsDraftOrSpoilt DEF IInv, TypeOK
<1>4. Events(lines)' \subseteq Events(lines) \cup {Line(w)} /\ Events(lines) \subseteq Events(lines)'
  BY <1>2, <1>3, EventsOfAppend, EventsStay
<1>5. CASE Len(tail) = 1
  <2>1. Line(w) = draft[w] /\ tail[1].event = draft[w]
    BY <1>2, <1>5 DEF Line
  <2>2. draft[w] \in Events(lines)'
    BY <1>1, <1>2, <1>3, <2>1, EventsStay
  <2>3. LineIds' = LineIds \cup {draft[w].id}
    BY <1>4, <2>1, <2>2 DEF LineIds
  <2> QED
    BY <1>1, <1>2, <1>5, <2>1, <2>3
<1>6. CASE Len(tail) # 1
  <2>1. Line(w) \in {Malformed, Undecodable}
    BY <1>6 DEF Line
  <2>2. Events(lines)' = Events(lines)
    BY <1>4, <2>1 DEF Events
  <2> QED
    BY <1>1, <1>2, <1>6, <2>1, <2>2 DEF LineIds
<1> QED
  BY <1>5, <1>6

(* Ids are written once: a call's own when it writes, and no other has it.  *)
LEMMA OnceWrittenStep ==
  ASSUME IInv, OnceWritten, [Next]_vars
  PROVE  OnceWritten'
<1>0. /\ pc \in [Writers -> Labels] /\ draft \in [Writers -> Event \cup {NoDraft}]
      /\ lines \in Seq(Event \cup {Malformed, Undecodable})
      /\ tail \in Seq([event : Event, cut : CutKinds])
  BY DEF IInv, TypeOK
<1>1. ASSUME NEW w \in Writers, NEW id \in Ids, NEW target \in Ids \cup {NoId}, Prepare(w, id, target)
      PROVE  OnceWritten'
  <2>1. LineIds' = LineIds /\ UNCHANGED <<lines, tail>> /\ issued' = issued \cup {id} /\ id \notin issued
    BY <1>1 DEF Prepare, LineIds, Events
  <2>2. \A v \in Writers : Waiting(v)' => draft'[v].id = id \/ (Waiting(v) /\ draft'[v] = draft[v])
    BY <1>0, <1>1 DEF Prepare, Goto, Waiting
  <2> QED
    BY <2>1, <2>2 DEF OnceWritten
<1>2. ASSUME NEW w \in Writers, WriteBegins(w) PROVE OnceWritten'
  <2>1. PICK cut \in Cuts : tail' = Append(tail, [event |-> draft[w], cut |-> cut])
    BY <1>2 DEF WriteBegins
  <2>2. \A i \in DOMAIN tail' : tail'[i].event = draft[w] \/ (i \in DOMAIN tail /\ tail'[i] = tail[i])
    BY <1>0, <2>1
  <2>3. LineIds' = LineIds /\ UNCHANGED <<lines, draft, issued>>
    BY <1>2 DEF WriteBegins, LineIds, Events
  <2>4. draft[w].id \in issued /\ draft[w].id \notin LineIds
    BY <1>2 DEF WriteBegins, IInv, DraftsIssued, LinesIssued, Drafted, Pending, LineIds
  <2>5. \A v \in Writers : Waiting(v)' => Waiting(v) /\ v # w
    BY <1>0, <1>2 DEF WriteBegins, Goto, Waiting
  <2>6. \A v \in Writers : Waiting(v)' => draft[v].id # draft[w].id
    BY <1>2, <2>5 DEF WriteBegins, IInv, DraftsIssued, Drafted, Waiting
  <2> QED
    BY <2>2, <2>3, <2>4, <2>5, <2>6 DEF OnceWritten
<1>3. ASSUME NEW w \in Writers, WriteEnds(w) PROVE OnceWritten'
  <2>1. /\ DOMAIN tail' = {} /\ draft[w].id \notin LineIds
        /\ lines' = Append(lines, Line(w))
        /\ Line(w) \in Event => Line(w) = draft[w]
    BY <1>3, WriteEndsEffect, LineIsDraftOrSpoilt DEF LogAssumption
  <2>2. \A i \in DOMAIN lines : lines[i] \in Event => lines[i].id # draft[w].id
    BY <2>1, LineEvents DEF LineIds, IInv
  <2>3. \A i \in DOMAIN lines' : (i \in DOMAIN lines /\ lines'[i] = lines[i]) \/ (i = Len(lines) + 1 /\ lines'[i] = Line(w))
    BY <1>0, <2>1
  <2>4. ASSUME NEW i \in DOMAIN lines', NEW j \in DOMAIN lines', lines'[i] \in Event, lines'[j] \in Event,
               lines'[i].id = lines'[j].id
        PROVE  i = j
    BY <2>1, <2>2, <2>3, <2>4 DEF OnceWritten
  <2> QED
    BY <2>1, <2>4 DEF OnceWritten
<1>4. ASSUME Quiet PROVE OnceWritten'
  BY <1>4 DEF Quiet, OnceWritten, LineIds, Events
<1> QED
  BY <1>1, <1>2, <1>3, <1>4, Kinds

(* What supersede accepts is on a line, or alone and whole in the tail.     *)
LEMMA TargetIsRead ==
  ASSUME TypeOK, NEW target, IsActive(target)
  PROVE  target \in LineIds \/ (Len(tail) = 1 /\ tail[1].cut = "whole" /\ target = tail[1].event.id)
<1>1. PICK e \in OnDisk : e.id = target
  BY LogIsOnDisk DEF IsActive, Records, Readable
<1> QED
  BY <1>1 DEF OnDisk, TailEvent, LineIds

(* A target comes from the disk, and that event stays before what names it. *)
LEMMA TargetsStep ==
  ASSUME IInv, OnceWritten, TargetsEarlier, [Next]_vars
  PROVE  TargetsEarlier'
<1>0. /\ pc \in [Writers -> Labels] /\ draft \in [Writers -> Event \cup {NoDraft}]
      /\ lines \in Seq(Event \cup {Malformed, Undecodable})
      /\ tail \in Seq([event : Event, cut : CutKinds]) /\ TypeOK
  BY DEF IInv, TypeOK
<1>1. ASSUME NEW w \in Writers, NEW id \in Ids, NEW target \in Ids \cup {NoId},
             Prepare(w, id, target), target # NoId => IsActive(target)
      PROVE  TargetsEarlier'
  <2> DEFINE d == [id |-> id, supersedes |-> target]
  <2>1. /\ Named' \subseteq Named \cup {d} /\ UNCHANGED <<lines, tail>> /\ issued' = issued \cup {id}
        /\ id \notin issued /\ LineIds' = LineIds /\ Events(lines)' = Events(lines) /\ TailIds' = TailIds
    BY <1>1, NamedStep DEF Prepare, LineIds, Events, TailIds
  <2>2. \A v \in Writers : Waiting(v)' => draft'[v].id = id \/ (Waiting(v) /\ draft'[v] = draft[v])
    BY <1>0, <1>1 DEF Prepare, Goto, Waiting
  <2>3. target # NoId => target \in LineIds \/ (Len(tail) = 1 /\ tail[1].cut = "whole" /\ target = tail[1].event.id)
    BY <1>0, <1>1, TargetIsRead
  <2>4. ASSUME target # NoId
        PROVE  /\ target \in issued /\ \A v \in Writers : Waiting(v) => target # draft[v].id
               /\ \A i \in DOMAIN tail : target = tail[i].event.id => i = 1 /\ tail[1].cut = "whole"
    <3>1. CASE target \in LineIds
      BY <3>1 DEF LineIds, IInv, LinesIssued, OnceWritten, Waiting, Pending
    <3>2. CASE Len(tail) = 1 /\ tail[1].cut = "whole" /\ target = tail[1].event.id
      <4>1. DOMAIN tail = {1}
        BY <1>0, <3>2
      <4> QED
        BY <3>2, <4>1 DEF OnceWritten
    <3> QED
      BY <2>3, <2>4, <3>1, <3>2
  <2>5. ASSUME NEW e \in Named', e.supersedes # NoId
        PROVE  /\ e.supersedes \in issued /\ e.supersedes # e.id
               /\ \A v \in Writers : Waiting(v)' => e.supersedes # draft'[v].id
    BY <2>1, <2>2, <2>4, <2>5 DEF TargetsEarlier
  <2>6. \A e \in Named', i \in DOMAIN tail : e.supersedes = tail[i].event.id => i = 1 /\ tail[1].cut = "whole"
    <3>1. target = NoId => \A i \in DOMAIN tail : target # tail[i].event.id
      BY <1>0, TailPieces DEF Event, LogAssumption
    <3> QED
      BY <2>1, <2>4, <3>1 DEF TargetsEarlier
  <2> QED
    BY <2>1, <2>5, <2>6 DEF TargetsEarlier
<1>2. ASSUME NEW w \in Writers, WriteBegins(w) PROVE TargetsEarlier'
  <2>1. PICK cut \in Cuts : tail' = Append(tail, [event |-> draft[w], cut |-> cut])
    BY <1>2 DEF WriteBegins
  <2>2. \A i \in DOMAIN tail' : tail'[i].event = draft[w] \/ (i \in DOMAIN tail /\ tail'[i] = tail[i] /\ tail'[1] = tail[1])
    BY <1>0, <2>1
  <2>3. /\ Named' \subseteq Named /\ LineIds' = LineIds /\ Events(lines)' = Events(lines)
        /\ UNCHANGED <<lines, draft, issued>>
    BY <1>2, NamedStep DEF WriteBegins, LineIds, Events
  <2>4. \A v \in Writers : Waiting(v)' => Waiting(v)
    BY <1>0, <1>2 DEF WriteBegins, Goto, Waiting
  <2>5. \A e \in Named : e.supersedes # draft[w].id
    <3>1. Waiting(w) /\ draft[w] \in Event
      BY <1>2 DEF WriteBegins, Waiting, IInv, DraftsIssued, Drafted
    <3> QED
      BY <3>1 DEF TargetsEarlier, Event, LogAssumption
  <2>6. \A e \in Events(lines) : e \in Named
    BY DEF Named
  <2>7. \A e \in Events(lines)' : e.supersedes \notin TailIds'
    BY <2>2, <2>3, <2>5, <2>6 DEF TargetsEarlier, TailIds
  <2>8. \A e \in Named', i \in DOMAIN tail' : e.supersedes = tail'[i].event.id => i = 1 /\ tail'[1].cut = "whole"
    BY <2>2, <2>3, <2>5 DEF TargetsEarlier
  <2>9. \A e \in Named' : e.supersedes # NoId =>
          /\ e.supersedes \in issued' /\ e.supersedes # e.id
          /\ \A v \in Writers : Waiting(v)' => e.supersedes # draft'[v].id
    BY <2>3, <2>4 DEF TargetsEarlier
  <2> QED
    BY <2>3, <2>7, <2>8, <2>9 DEF TargetsEarlier
<1>3. ASSUME NEW w \in Writers, WriteEnds(w) PROVE TargetsEarlier'
  <2>1. /\ DOMAIN tail' = {} /\ draft[w] \in Event /\ lines' = Append(lines, Line(w)) /\ Named' \subseteq Named
        /\ Len(tail) = 1 => Line(w) = draft[w] /\ tail[1].event = draft[w] /\ LineIds' = LineIds \cup {draft[w].id}
        /\ Len(tail) # 1 => Line(w) \notin Event /\ LineIds' = LineIds
    BY <1>3, WriteEndsEffect, NamedStep
  <2>2. UNCHANGED <<draft, issued>> /\ \A v \in Writers : Waiting(v)' => Waiting(v)
    BY <1>0, <1>3 DEF WriteEnds, Goto, Waiting
  <2>3. TailIds' = {}
    BY <2>1 DEF TailIds
  <2>4. draft[w] \in Named
    BY <1>3 DEF WriteEnds, Named, Drafts, Pending
  <2>5. ASSUME NEW k \in DOMAIN lines', lines'[k] \in Event, lines'[k].supersedes \in LineIds'
        PROVE  \E i \in 1 .. (k - 1) : lines'[i] \in Event /\ lines'[i].id = lines'[k].supersedes
    <3>1. \A i \in DOMAIN lines : i \in DOMAIN lines' /\ lines'[i] = lines[i] /\ i \in 1 .. Len(lines)
      BY <1>0, <2>1
    <3>2. CASE k \in DOMAIN lines
      <4>1. lines[k] \in Events(lines) /\ lines'[k] = lines[k]
        BY <1>0, <2>5, <3>1, <3>2, LineEvents
      <4>2. Len(tail) = 1 => draft[w].id \in TailIds
        BY <1>0, <2>1 DEF TailIds
      <4>3. lines[k].supersedes \in LineIds
        BY <2>1, <2>5, <4>1, <4>2 DEF TargetsEarlier
      <4>4. PICK i \in 1 .. (k - 1) : lines[i] \in Event /\ lines[i].id = lines[k].supersedes
        BY <2>5, <3>2, <4>1, <4>3 DEF TargetsEarlier
      <4>5. i \in DOMAIN lines
        BY <1>0, <3>2
      <4> QED
        BY <3>1, <4>1, <4>4, <4>5
    <3>3. CASE k \notin DOMAIN lines
      <4>1. k = Len(lines) + 1 /\ lines'[k] = Line(w) /\ Len(lines) \in Nat
        BY <1>0, <2>1, <2>5, <3>3
      <4>2. lines'[k] = draft[w] /\ LineIds' = LineIds \cup {draft[w].id}
        BY <2>1, <2>5, <4>1
      <4>3. draft[w].supersedes # draft[w].id
        BY <2>1, <2>4 DEF TargetsEarlier, Event, LogAssumption
      <4>4. draft[w].supersedes \in LineIds
        BY <2>5, <4>2, <4>3
      <4>5. PICK i \in DOMAIN lines : lines[i] \in Event /\ lines[i].id = draft[w].supersedes
        BY <1>0, <4>4, LineEvents DEF LineIds
      <4>6. i \in 1 .. (k - 1)
        BY <1>0, <4>1
      <4> QED
        BY <3>1, <4>2, <4>5, <4>6
    <3> QED
      BY <3>2, <3>3
  <2>6. \A e \in Named' : e.supersedes # NoId =>
          /\ e.supersedes \in issued' /\ e.supersedes # e.id
          /\ \A v \in Writers : Waiting(v)' => e.supersedes # draft'[v].id
    BY <2>1, <2>2 DEF TargetsEarlier
  <2> QED
    BY <2>1, <2>3, <2>5, <2>6 DEF TargetsEarlier
<1>4. ASSUME Quiet PROVE TargetsEarlier'
  <2>1. /\ Named' \subseteq Named /\ LineIds' = LineIds /\ Events(lines)' = Events(lines)
        /\ TailIds' = TailIds /\ UNCHANGED <<lines, tail, draft, issued>>
        /\ \A v \in Writers : Waiting(v)' => Waiting(v)
    BY <1>4, NamedStep DEF Quiet, LineIds, Events, TailIds
  <2> QED
    BY <2>1 DEF TargetsEarlier
<1> QED
  BY <1>1, <1>2, <1>3, <1>4, Kinds

(* A step that does not write leaves no more torn pieces than it counts.    *)
LEMMA TornPiecesStep ==
  ASSUME IInv, [Next]_vars, UNCHANGED <<lines, tail>>
  PROVE  /\ TornPieces \in Nat /\ TornPieces' \in Nat /\ tears \in Nat /\ tears' \in Nat
         /\ \/ TornPieces' <= TornPieces /\ tears' = tears
            \/ TornPieces' <= TornPieces + 1 /\ tears' = tears + 1
<1>0. /\ pc \in [Writers -> Labels] /\ tears \in Nat
      /\ tail \in Seq([event : Event, cut : CutKinds])
      /\ lines \in Seq(Event \cup {Malformed, Undecodable})
  BY DEF IInv, TypeOK
<1>1. Writing => Len(tail) > 0
  BY DEF IInv, Holder, Writing
<1>2. \A w \in Writers : ~WriteBegins(w) /\ ~WriteEnds(w)
  <2>1. ASSUME NEW w \in Writers, WriteBegins(w) PROVE FALSE
    <3>1. PICK cut \in Cuts : tail' = Append(tail, [event |-> draft[w], cut |-> cut])
      BY <2>1 DEF WriteBegins
    <3>2. Len(tail') = Len(tail) + 1 /\ Len(tail) \in Nat
      BY <1>0, <3>1
    <3> QED
      BY <3>2
  <2>2. ASSUME NEW w \in Writers, WriteEnds(w) PROVE FALSE
    <3>1. Len(tail') = 0 /\ Len(tail) > 0
      BY <2>2, WriteEndsEffect
    <3> QED
      BY <3>1
  <2> QED
    BY <2>1, <2>2
<1>3. (UNCHANGED tears /\ (Writing' <=> Writing)) \/ (tears' = tears + 1 /\ Writing)
  <2>1. ASSUME NEW w \in Writers, WriteRaises(w) \/ Crash(w)
        PROVE  (UNCHANGED tears /\ (Writing' <=> Writing)) \/ (tears' = tears + 1 /\ Writing)
    <3>1. CASE pc[w] = "finish"
      BY <2>1, <3>1 DEF WriteRaises, Crash, Writing
    <3>2. CASE pc[w] # "finish"
      BY <1>0, <2>1, <3>2 DEF WriteRaises, Crash, Writing, Goto
    <3> QED
      BY <3>1, <3>2
  <2>2. ASSUME NEW w \in Writers,
               \/ \E id \in Ids, target \in Ids \cup {NoId} : Prepare(w, id, target)
               \/ Acquire(w) \/ LockBusy(w) \/ Return(w) \/ IndexRaises(w)
        PROVE  UNCHANGED tears /\ (Writing' <=> Writing)
    BY <1>0, <2>2 DEF Prepare, Acquire, LockBusy, Return, IndexRaises, Writing, Goto
  <2>3. CASE UNCHANGED vars
    BY <2>3 DEF vars, Writing
  <2> QED
    BY <1>2, <2>1, <2>2, <2>3 DEF Next, Add, Supersede
<1>4. Len(tail) \in Nat /\ Len(tail') = Len(tail)
  BY <1>0
<1> QED
  BY <1>0, <1>1, <1>3, <1>4 DEF TornPieces

(* An element makes a set larger by one at most.                            *)
LEMMA OneMore ==
  ASSUME NEW A, IsFiniteSet(A), NEW x
  PROVE  IsFiniteSet(A \cup {x}) /\ Cardinality(A \cup {x}) <= Cardinality(A) + 1
<1>1. Cardinality(A) \in Nat
  BY FS_CardinalityType
<1>2. /\ IsFiniteSet(A \cup {x})
      /\ Cardinality(A \cup {x}) = IF x \in A THEN Cardinality(A) ELSE Cardinality(A) + 1
  BY FS_AddElement, Zenon
<1> QED
  BY <1>1, <1>2

(* A piece that is swallowed was torn: nothing goes missing or is spoilt for*)
(* which no torn write can pay.                                             *)
LEMMA TearsPayStep ==
  ASSUME IInv, OnceWritten, TargetsEarlier, TearsPay, [Next]_vars
  PROVE  TearsPay'
<1>0. /\ pc \in [Writers -> Labels] /\ tears \in Nat /\ Len(tail) \in Nat
      /\ tail \in Seq([event : Event, cut : CutKinds]) /\ TypeOK
      /\ lines \in Seq(Event \cup {Malformed, Undecodable})
  BY DEF IInv, TypeOK
<1>c. /\ IsFiniteSet(Missing) /\ Cardinality(Missing) \in Nat /\ Cardinality(Missing) + TornPieces <= tears
      /\ IsFiniteSet(Spoilt) /\ Cardinality(Spoilt) \in Nat /\ Cardinality(Spoilt) + TornPieces <= tears
  BY FS_CardinalityType DEF TearsPay
<1>1. ASSUME UNCHANGED <<lines, tail>>, Missing' \subseteq Missing PROVE TearsPay'
  <2>1. Spoilt' = Spoilt
    BY <1>1 DEF Spoilt
  <2>2. IsFiniteSet(Missing') /\ Cardinality(Missing') <= Cardinality(Missing) /\ Cardinality(Missing') \in Nat
    BY <1>1, <1>c, Balance
  <2>3. /\ TornPieces \in Nat /\ TornPieces' \in Nat /\ tears \in Nat /\ tears' \in Nat
        /\ \/ TornPieces' <= TornPieces /\ tears' = tears
           \/ TornPieces' <= TornPieces + 1 /\ tears' = tears + 1
    BY <1>1, TornPiecesStep
  <2>4. Cardinality(Missing') + TornPieces' <= tears'
    BY <1>c, <2>2, <2>3
  <2>5. Cardinality(Spoilt) + TornPieces' <= tears'
    BY <1>c, <2>3
  <2> QED
    BY <1>c, <2>1, <2>2, <2>4, <2>5 DEF TearsPay
<1>2. ASSUME NEW w \in Writers, NEW id \in Ids, NEW target \in Ids \cup {NoId},
             Prepare(w, id, target), target # NoId => IsActive(target)
      PROVE  TearsPay'
  <2>1. /\ Named' \subseteq Named \cup {[id |-> id, supersedes |-> target]} /\ UNCHANGED <<lines, tail>>
        /\ LineIds' = LineIds /\ TailIds' = TailIds
    BY <1>2, NamedStep DEF Prepare, LineIds, Events, TailIds
  <2>2. target # NoId => target \in LineIds \cup TailIds
    BY <1>0, <1>2, TargetIsRead DEF TailIds
  <2>3. Missing' \subseteq Missing
    BY <2>1, <2>2 DEF Missing, Targets
  <2> QED
    BY <1>1, <2>1, <2>3
<1>3. ASSUME Quiet PROVE TearsPay'
  <2>1. Named' \subseteq Named /\ UNCHANGED <<lines, tail>> /\ LineIds' = LineIds /\ TailIds' = TailIds
    BY <1>3, NamedStep DEF Quiet, LineIds, Events, TailIds
  <2>2. Missing' \subseteq Missing
    BY <2>1 DEF Missing, Targets
  <2> QED
    BY <1>1, <2>1, <2>2
<1>4. ASSUME NEW w \in Writers, WriteBegins(w) PROVE TearsPay'
  <2>1. PICK cut \in Cuts : tail' = Append(tail, [event |-> draft[w], cut |-> cut])
    BY <1>4 DEF WriteBegins
  <2>2. TailIds \subseteq TailIds' /\ Len(tail') = Len(tail) + 1
    <3>1. \A i \in DOMAIN tail : i \in DOMAIN tail' /\ tail'[i] = tail[i]
      BY <1>0, <2>1
    <3>2. Len(tail') = Len(tail) + 1
      BY <1>0, <2>1
    <3> QED
      BY <3>1, <3>2 DEF TailIds
  <2>3. Named' \subseteq Named /\ LineIds' = LineIds /\ UNCHANGED <<lines, tears>>
    BY <1>4, NamedStep DEF WriteBegins, LineIds, Events
  <2>4. Missing' \subseteq Missing /\ Spoilt' = Spoilt
    BY <2>2, <2>3 DEF Missing, Targets, Spoilt
  <2>5. ~Writing /\ Writing'
    BY <1>0, <1>4 DEF WriteBegins, Writing, IInv, Holder, Critical, Goto
  <2>6. TornPieces' = TornPieces
    BY <1>0, <2>2, <2>5 DEF TornPieces
  <2>7. IsFiniteSet(Missing') /\ Cardinality(Missing') <= Cardinality(Missing) /\ Cardinality(Missing') \in Nat
    BY <2>4, <1>c, Balance
  <2>8. TornPieces \in Nat
    BY <1>0, <2>5 DEF TornPieces
  <2>9. Cardinality(Missing') + TornPieces <= tears
    BY <1>0, <1>c, <2>7, <2>8
  <2> QED
    BY <1>c, <2>3, <2>4, <2>6, <2>7, <2>9 DEF TearsPay
<1>5. ASSUME NEW w \in Writers, WriteEnds(w) PROVE TearsPay'
  <2>1. /\ Len(tail) > 0 /\ DOMAIN tail' = {} /\ Len(tail') = 0 /\ draft[w] \in Event
        /\ lines' = Append(lines, Line(w)) /\ Len(lines) \in Nat /\ Named' \subseteq Named
        /\ Len(tail) = 1 => /\ Line(w) = draft[w] /\ tail[1].event = draft[w]
                            /\ LineIds' = LineIds \cup {draft[w].id}
        /\ Len(tail) # 1 => LineIds' = LineIds
    BY <1>5, WriteEndsEffect, NamedStep
  <2>2. Writing /\ ~Writing' /\ tears' = tears
    BY <1>0, <1>5 DEF WriteEnds, Writing, IInv, Holder, Critical, Goto
  <2>3. TornPieces = Len(tail) - 1 /\ TornPieces' = 0
    BY <2>1, <2>2 DEF TornPieces
  <2>4. \A k \in DOMAIN lines' : (k \in DOMAIN lines /\ lines'[k] = lines[k]) \/ (k = Len(lines) + 1 /\ lines'[k] = Line(w))
    BY <1>0, <2>1
  <2>5. CASE Len(tail) = 1
    <3>1. TailIds \subseteq {draft[w].id}
      <4>1. DOMAIN tail = {1}
        BY <1>0, <2>5
      <4> QED
        BY <2>1, <2>5, <4>1 DEF TailIds
    <3>2. Missing' \subseteq Missing
      BY <2>1, <2>5, <3>1 DEF Missing, Targets
    <3>3. Spoilt' \subseteq Spoilt
      BY <2>1, <2>4, <2>5 DEF Spoilt
    <3>4. /\ IsFiniteSet(Missing') /\ Cardinality(Missing') <= Cardinality(Missing) /\ Cardinality(Missing') \in Nat
          /\ IsFiniteSet(Spoilt') /\ Cardinality(Spoilt') <= Cardinality(Spoilt) /\ Cardinality(Spoilt') \in Nat
      BY <3>2, <3>3, <1>c, Balance
    <3>5. Cardinality(Missing') <= tears /\ Cardinality(Spoilt') <= tears
      BY <1>0, <1>c, <2>3, <2>5, <3>4
    <3> QED
      BY <2>2, <2>3, <3>4, <3>5 DEF TearsPay
  <2>6. CASE Len(tail) # 1
    <3>1. \A t \in Targets \cap TailIds : t = tail[1].event.id
      BY DEF Targets, TailIds, TargetsEarlier
    <3>2. Missing' \subseteq Missing \cup {tail[1].event.id}
      BY <2>1, <2>6, <3>1 DEF Missing, Targets
    <3>3. Spoilt' \subseteq Spoilt \cup {Len(lines) + 1}
      BY <2>4 DEF Spoilt
    <3>4. /\ IsFiniteSet(Missing \cup {tail[1].event.id})
          /\ Cardinality(Missing \cup {tail[1].event.id}) <= Cardinality(Missing) + 1
      BY <1>c, OneMore
    <3>5. /\ IsFiniteSet(Spoilt \cup {Len(lines) + 1})
          /\ Cardinality(Spoilt \cup {Len(lines) + 1}) <= Cardinality(Spoilt) + 1
      BY <1>c, OneMore
    <3>6. /\ IsFiniteSet(Missing') /\ Cardinality(Missing') <= Cardinality(Missing) + 1 /\ Cardinality(Missing') \in Nat
          /\ IsFiniteSet(Spoilt') /\ Cardinality(Spoilt') <= Cardinality(Spoilt) + 1 /\ Cardinality(Spoilt') \in Nat
      BY <1>c, <3>2, <3>3, <3>4, <3>5, Balance
    <3>7. Cardinality(Missing') <= tears /\ Cardinality(Spoilt') <= tears
      BY <1>0, <1>c, <2>1, <2>3, <2>6, <3>6, SMTT(30)
    <3> QED
      BY <2>2, <2>3, <3>6, <3>7 DEF TearsPay
  <2> QED
    BY <2>5, <2>6
<1> QED
  BY <1>2, <1>3, <1>4, <1>5, Kinds

(* What the verifier goes through: the lines, and what is after the last    *)
(* newline as one line more.                                                *)
Whole == Len(tail) = 1 /\ tail[1].cut = "whole"

LEMMA VerifiedShape ==
  ASSUME TypeOK
  PROVE  /\ Len(VerifiedLines) \in Nat /\ DOMAIN VerifiedLines = 1 .. Len(VerifiedLines)
         /\ \A k \in DOMAIN lines : k \in DOMAIN VerifiedLines /\ VerifiedLines[k] = lines[k]
         /\ Whole => Len(lines) + 1 \in DOMAIN VerifiedLines /\ VerifiedLines[Len(lines) + 1] = tail[1].event
         /\ \A k \in DOMAIN VerifiedLines : k \notin DOMAIN lines =>
              /\ k = Len(lines) + 1 /\ Len(tail) > 0
              /\ ~Whole => VerifiedLines[k] = Malformed
<1>0. /\ lines \in Seq(Event \cup {Malformed, Undecodable})
      /\ tail \in Seq([event : Event, cut : CutKinds])
  BY DEF TypeOK
<1>1. CASE tail = <<>>
  <2>1. VerifiedLines = lines /\ ~Whole
    BY <1>1 DEF VerifiedLines, Whole
  <2> QED
    BY <1>0, <2>1
<1>2. CASE tail # <<>> /\ Whole
  <2>1. tail[1].event \in Event
    BY <1>0, <1>2, TailPieces DEF Whole
  <2>2. VerifiedLines = Append(lines, tail[1].event)
    BY <1>0, <1>2, <2>1 DEF VerifiedLines, TailEvents, Whole
  <2> QED
    BY <1>0, <1>2, <2>1, <2>2 DEF Whole
<1>3. CASE tail # <<>> /\ ~Whole
  <2>1. VerifiedLines = Append(lines, Malformed) /\ Len(tail) > 0
    BY <1>0, <1>3 DEF VerifiedLines, TailEvents, Whole
  <2> QED
    BY <1>0, <1>3, <2>1
<1> QED
  BY <1>1, <1>2, <1>3

(* A line that the verifier reads as an event is one on a line, or the one  *)
(* whole in the tail.                                                       *)
LEMMA VerifiedEvents ==
  ASSUME TypeOK, Legible, NEW k \in DOMAIN VerifiedLines, IsEvent(k)
  PROVE  /\ VerifiedLines[k] \in Event /\ VerifiedLines[k] \in Named
         /\ \/ /\ k \in DOMAIN lines /\ VerifiedLines[k] = lines[k]
               /\ VerifiedLines[k] \in Events(lines) /\ VerifiedLines[k].id \in LineIds
            \/ /\ k = Len(lines) + 1 /\ Whole /\ 1 \in DOMAIN tail /\ VerifiedLines[k] = tail[1].event
<1>1. CASE k \in DOMAIN lines
  <2>1. VerifiedLines[k] = lines[k] /\ lines[k] \in Event
    BY <1>1, VerifiedShape DEF IsEvent, Legible, TypeOK
  <2>2. lines[k] \in Events(lines)
    BY <1>1, <2>1, LineEvents
  <2> QED
    BY <1>1, <2>1, <2>2 DEF Named, LineIds
<1>2. CASE k \notin DOMAIN lines
  <2>1. k = Len(lines) + 1 /\ Whole /\ VerifiedLines[k] = tail[1].event
    BY <1>2, VerifiedShape DEF IsEvent
  <2>2. 1 \in DOMAIN tail
    BY <2>1 DEF Whole, TypeOK
  <2>3. tail[1].event \in Event
    BY <2>2, TailPieces
  <2> QED
    BY <2>1, <2>2, <2>3 DEF Named
<1> QED
  BY <1>1, <1>2

(* The verifier has seen an id before a line, or at all.                    *)
LEMMA UsedIds ==
  ASSUME TypeOK, NEW id
  PROVE  /\ \A k \in DOMAIN VerifiedLines : UsedBefore(id, k) <=>
              \E i \in DOMAIN VerifiedLines : i < k /\ IsEvent(i) /\ VerifiedLines[i].id = id
         /\ Used(id) <=> \E i \in DOMAIN VerifiedLines : IsEvent(i) /\ VerifiedLines[i].id = id
<1>1. Len(VerifiedLines) \in Nat /\ DOMAIN VerifiedLines = 1 .. Len(VerifiedLines)
  BY VerifiedShape
<1>2. ASSUME NEW k \in DOMAIN VerifiedLines
      PROVE  \A i : i \in 1 .. (k - 1) <=> (i \in DOMAIN VerifiedLines /\ i < k)
  BY <1>1
<1>3. 1 .. (Len(VerifiedLines) + 1 - 1) = DOMAIN VerifiedLines
  BY <1>1
<1> QED
  BY <1>2, <1>3 DEF Used, UsedBefore

(* No id is on two verified lines.                                          *)
LEMMA NoDuplicates ==
  ASSUME IInv, OnceWritten, Legible,
         NEW i \in DOMAIN VerifiedLines, NEW j \in DOMAIN VerifiedLines,
         IsEvent(i), IsEvent(j), VerifiedLines[i].id = VerifiedLines[j].id
  PROVE  i = j
<1>1. TypeOK
  BY DEF IInv
<1>2. CASE i \in DOMAIN lines /\ j \in DOMAIN lines
  BY <1>1, <1>2, VerifiedEvents DEF OnceWritten
<1>3. CASE i \notin DOMAIN lines /\ j \notin DOMAIN lines
  BY <1>1, <1>3, VerifiedEvents
<1>4. CASE i \in DOMAIN lines /\ j \notin DOMAIN lines
  <2>1. VerifiedLines[i].id \in LineIds /\ 1 \in DOMAIN tail /\ VerifiedLines[j] = tail[1].event
    BY <1>1, <1>4, VerifiedEvents
  <2> QED
    BY <2>1 DEF OnceWritten
<1>5. CASE i \notin DOMAIN lines /\ j \in DOMAIN lines
  <2>1. VerifiedLines[j].id \in LineIds /\ 1 \in DOMAIN tail /\ VerifiedLines[i] = tail[1].event
    BY <1>1, <1>5, VerifiedEvents
  <2> QED
    BY <2>1 DEF OnceWritten
<1> QED
  BY <1>2, <1>3, <1>4, <1>5

(* An event names no event of a later line, and not itself.                 *)
LEMMA NoForward ==
  ASSUME IInv, TargetsEarlier, Legible,
         NEW k \in DOMAIN VerifiedLines, IsEvent(k), VerifiedLines[k].supersedes # NoId,
         Used(VerifiedLines[k].supersedes)
  PROVE  UsedBefore(VerifiedLines[k].supersedes, k)
<1>1. TypeOK /\ Len(lines) \in Nat /\ lines \in Seq(Event \cup {Malformed, Undecodable})
  BY DEF IInv, TypeOK
<1> DEFINE t == VerifiedLines[k].supersedes
<1>2. PICK i \in DOMAIN VerifiedLines : IsEvent(i) /\ VerifiedLines[i].id = t
  BY <1>1, UsedIds
<1>3. CASE k \in DOMAIN lines
  <2>1. lines[k] \in Event /\ lines[k] = VerifiedLines[k] /\ lines[k] \in Events(lines)
    BY <1>1, <1>3, VerifiedEvents
  <2>2. i \in DOMAIN lines
    <3> SUFFICES ASSUME i \notin DOMAIN lines PROVE FALSE
      OBVIOUS
    <3>1. 1 \in DOMAIN tail /\ t = tail[1].event.id
      BY <1>1, <1>2, VerifiedEvents
    <3> QED
      BY <2>1, <3>1 DEF TargetsEarlier, TailIds
  <2>3. t \in LineIds
    BY <1>1, <1>2, <2>2, VerifiedEvents
  <2>4. PICK j \in 1 .. (k - 1) : lines[j] \in Event /\ lines[j].id = t
    BY <1>3, <2>1, <2>3 DEF TargetsEarlier
  <2>5. j \in DOMAIN lines /\ j < k
    BY <1>1, <1>3
  <2>6. j \in DOMAIN VerifiedLines /\ VerifiedLines[j] = lines[j] /\ IsEvent(j)
    BY <1>1, <2>4, <2>5, VerifiedShape DEF IsEvent
  <2> QED
    BY <1>1, <2>4, <2>5, <2>6, UsedIds
<1>4. CASE k \notin DOMAIN lines
  <2>1. k = Len(lines) + 1 /\ VerifiedLines[k] = tail[1].event /\ VerifiedLines[k] \in Named
    BY <1>1, <1>4, VerifiedEvents
  <2>2. i \in DOMAIN lines
    <3> SUFFICES ASSUME i \notin DOMAIN lines PROVE FALSE
      OBVIOUS
    <3>1. VerifiedLines[i] = tail[1].event
      BY <1>1, <1>2, VerifiedEvents
    <3> QED
      BY <1>2, <2>1, <3>1 DEF TargetsEarlier
  <2>3. i < k
    BY <1>1, <2>1, <2>2
  <2> QED
    BY <1>1, <1>2, <2>3, UsedIds
<1> QED
  BY <1>3, <1>4

(* Between writes each unreadable line has used up one torn write.          *)
LEMMA FewUnreadable ==
  ASSUME IInv, TearsPay, Legible, LockIsFree
  PROVE  Cardinality(Blamed("invalid-json")) <= tears
<1>0. TypeOK /\ tears \in Nat /\ Len(tail) \in Nat
  BY DEF IInv, TypeOK
<1>1. TornPieces = Len(tail)
  BY DEF LockIsFree, Critical, TornPieces, Writing
<1>2. /\ IsFiniteSet(Spoilt) /\ Cardinality(Spoilt) \in Nat /\ Cardinality(Spoilt) + Len(tail) <= tears
  BY <1>1, FS_CardinalityType DEF TearsPay
<1>3. \A k \in Blamed("invalid-json") :
        k \in Spoilt \/ (k = Len(lines) + 1 /\ Len(tail) > 0)
  <2> SUFFICES ASSUME NEW k \in DOMAIN VerifiedLines, VerifiedLines[k] = Malformed
               PROVE  k \in Spoilt \/ (k = Len(lines) + 1 /\ Len(tail) > 0)
    BY DEF Blamed, IsEvent
  <2> QED
    BY <1>0, VerifiedShape DEF Spoilt
<1>4. CASE Len(tail) > 0
  <2>1. Blamed("invalid-json") \subseteq Spoilt \cup {Len(lines) + 1}
    BY <1>3
  <2>2. /\ IsFiniteSet(Spoilt \cup {Len(lines) + 1})
        /\ Cardinality(Spoilt \cup {Len(lines) + 1}) <= Cardinality(Spoilt) + 1
    BY <1>2, OneMore
  <2>3. /\ Cardinality(Blamed("invalid-json")) <= Cardinality(Spoilt \cup {Len(lines) + 1})
        /\ Cardinality(Blamed("invalid-json")) \in Nat
        /\ Cardinality(Spoilt \cup {Len(lines) + 1}) \in Nat
    BY <2>1, <2>2, Balance
  <2> QED
    BY <1>0, <1>2, <1>4, <2>2, <2>3
<1>5. CASE ~(Len(tail) > 0)
  <2>1. Blamed("invalid-json") \subseteq Spoilt
    BY <1>3, <1>5
  <2>2. Cardinality(Blamed("invalid-json")) <= Cardinality(Spoilt) /\ Cardinality(Blamed("invalid-json")) \in Nat
    BY <1>2, <2>1, Balance
  <2> QED
    BY <1>0, <1>2, <2>2
<1> QED
  BY <1>4, <1>5

(* Each target the verifier misses was swallowed by a torn write, or will   *)
(* be: it is under torn pieces that nobody will finish.                     *)
LEMMA FewDangling ==
  ASSUME IInv, TargetsEarlier, TearsPay, Legible
  PROVE  Cardinality({VerifiedLines[k].supersedes : k \in Blamed("dangling-supersedes")}) <= tears
<1> DEFINE D == {VerifiedLines[k].supersedes : k \in Blamed("dangling-supersedes")}
<1>0. /\ TypeOK /\ tears \in Nat /\ Len(tail) \in Nat /\ TornPieces \in Nat
      /\ lines \in Seq(Event \cup {Malformed, Undecodable})
  BY DEF IInv, TypeOK, Holder, Writing, TornPieces
<1>1. /\ IsFiniteSet(Missing) /\ Cardinality(Missing) \in Nat /\ Cardinality(Missing) + TornPieces <= tears
  BY FS_CardinalityType DEF TearsPay
<1>2. \A t \in D : t \in Missing \/ (t = tail[1].event.id /\ Len(tail) > 1)
  <2> SUFFICES ASSUME NEW k \in DOMAIN VerifiedLines, IsEvent(k), VerifiedLines[k].supersedes # NoId,
                      ~Used(VerifiedLines[k].supersedes)
               PROVE  \/ VerifiedLines[k].supersedes \in Missing
                      \/ VerifiedLines[k].supersedes = tail[1].event.id /\ Len(tail) > 1
    BY DEF Blamed
  <2> DEFINE t == VerifiedLines[k].supersedes
  <2>1. VerifiedLines[k] \in Named /\ t \in Targets
    BY <1>0, VerifiedEvents DEF Targets
  <2>2. t \notin LineIds
    <3> SUFFICES ASSUME t \in LineIds PROVE FALSE
      OBVIOUS
    <3>1. PICK i \in DOMAIN lines : lines[i] \in Event /\ lines[i].id = t
      BY <1>0, LineEvents DEF LineIds
    <3>2. i \in DOMAIN VerifiedLines /\ VerifiedLines[i] = lines[i] /\ IsEvent(i)
      BY <1>0, <3>1, VerifiedShape DEF IsEvent
    <3> QED
      BY <1>0, <3>1, <3>2, UsedIds
  <2>3. ASSUME t \in TailIds PROVE t = tail[1].event.id /\ Len(tail) > 1
    <3>1. PICK i \in DOMAIN tail : t = tail[i].event.id
      BY <2>3 DEF TailIds
    <3>2. i = 1 /\ tail[1].cut = "whole"
      BY <2>1, <3>1 DEF TargetsEarlier
    <3>3. ~Whole
      <4> SUFFICES ASSUME Whole PROVE FALSE
        OBVIOUS
      <4>1. Len(lines) + 1 \in DOMAIN VerifiedLines /\ VerifiedLines[Len(lines) + 1] = tail[1].event
        BY <1>0, VerifiedShape
      <4>2. IsEvent(Len(lines) + 1)
        BY <1>0, <3>1, <3>2, <4>1, TailPieces DEF IsEvent
      <4> QED
        BY <1>0, <3>1, <3>2, <4>1, <4>2, UsedIds
    <3>4. Len(tail) > 0
      BY <1>0, <3>1 DEF TypeOK
    <3>5. Len(tail) # 1 /\ Len(tail) \in Nat
      BY <1>0, <3>2, <3>3 DEF Whole
    <3>6. Len(tail) > 1
      <4>1. \A n \in Nat : n > 0 /\ n # 1 => n > 1
        OBVIOUS
      <4> QED
        BY <3>4, <3>5, <4>1
    <3> QED
      BY <3>1, <3>2, <3>6
  <2> QED
    BY <2>1, <2>2, <2>3 DEF Missing
<1>3. CASE Len(tail) > 1
  <2>1. TornPieces >= 1
    BY <1>0, <1>3 DEF TornPieces
  <2>2. D \subseteq Missing \cup {tail[1].event.id}
    BY <1>2
  <2>3. /\ IsFiniteSet(Missing \cup {tail[1].event.id})
        /\ Cardinality(Missing \cup {tail[1].event.id}) <= Cardinality(Missing) + 1
    BY <1>1, OneMore
  <2>4. /\ Cardinality(D) <= Cardinality(Missing \cup {tail[1].event.id})
        /\ Cardinality(D) \in Nat /\ Cardinality(Missing \cup {tail[1].event.id}) \in Nat
    BY <2>2, <2>3, Balance
  <2> HIDE DEF D
  <2> QED
    BY <1>0, <1>1, <2>1, <2>3, <2>4 DEF D
<1>4. CASE ~(Len(tail) > 1)
  <2>1. D \subseteq Missing
    BY <1>2, <1>4
  <2>2. Cardinality(D) <= Cardinality(Missing) /\ Cardinality(D) \in Nat
    BY <1>1, <2>1, Balance
  <2> QED
    BY <1>0, <1>1, <2>2
<1> QED
  BY <1>3, <1>4

(* VerifierBlamesTears: of a log that writers leave, stopped and failed     *)
(* writes included, verify reports no duplicate-id, forward-supersedes or   *)
(* self-supersedes, and no more lines of invalid-json or targets of         *)
(* dangling-supersedes than writes that stopped part way, for any writers,  *)
(* ids and cuts.                                                            *)
THEOREM VerifierBlames == Spec => []VerifierBlamesTears
<1>1. Init => BlameInv
  <2> SUFFICES ASSUME Init PROVE BlameInv
    OBVIOUS
  <2>1. /\ DOMAIN lines = {} /\ DOMAIN tail = {} /\ Len(tail) = 0 /\ tears = 0
        /\ \A w \in Writers : ~Waiting(w) /\ ~Pending(w) /\ pc[w] # "finish"
    BY DEF Init, Waiting, Pending
  <2>2. Named = {} /\ Events(lines) = {} /\ TornPieces = 0
    BY <2>1 DEF Named, Events, Drafts, TornPieces, Writing
  <2>3. Missing = {} /\ Spoilt = {}
    BY <2>1, <2>2 DEF Missing, Targets, Spoilt
  <2>4. OnceWritten
    BY <2>1 DEF OnceWritten
  <2>5. TargetsEarlier
    BY <2>1, <2>2 DEF TargetsEarlier
  <2>6. TearsPay
    BY <2>1, <2>2, <2>3, FS_EmptySet DEF TearsPay
  <2> QED
    BY <2>4, <2>5, <2>6 DEF BlameInv
<1>2. IInv /\ BlameInv /\ [Next]_vars => BlameInv'
  BY OnceWrittenStep, TargetsStep, TearsPayStep DEF BlameInv
<1>3. IInv /\ BlameInv => VerifierBlamesTears
  <2> SUFFICES ASSUME IInv, BlameInv, Legible PROVE VerifierBlamesTears
    BY DEF VerifierBlamesTears
  <2>0. TypeOK /\ OnceWritten /\ TargetsEarlier /\ TearsPay
    BY DEF IInv, BlameInv
  <2>1. Blamed("duplicate-id") = {}
    <3> SUFFICES ASSUME NEW k \in DOMAIN VerifiedLines, IsEvent(k), UsedBefore(VerifiedLines[k].id, k)
                 PROVE  FALSE
      BY DEF Blamed
    <3>1. PICK i \in DOMAIN VerifiedLines : i < k /\ IsEvent(i) /\ VerifiedLines[i].id = VerifiedLines[k].id
      BY <2>0, UsedIds
    <3>2. k \in Nat
      BY <2>0, VerifiedShape
    <3> QED
      BY <2>0, <3>1, <3>2, NoDuplicates
  <2>2. Blamed("forward-supersedes") = {}
    BY <2>0, NoForward DEF Blamed
  <2>3. Blamed("self-supersedes") = {}
    <3> SUFFICES ASSUME NEW k \in DOMAIN VerifiedLines, IsEvent(k),
                        UsedBefore(VerifiedLines[k].supersedes, k),
                        VerifiedLines[k].supersedes = VerifiedLines[k].id
                 PROVE  FALSE
      BY DEF Blamed
    <3>1. PICK i \in DOMAIN VerifiedLines : i < k /\ IsEvent(i) /\ VerifiedLines[i].id = VerifiedLines[k].id
      BY <2>0, UsedIds
    <3>2. k \in Nat
      BY <2>0, VerifiedShape
    <3> QED
      BY <2>0, <3>1, <3>2, NoDuplicates
  <2> QED
    BY <2>0, <2>1, <2>2, <2>3, FewUnreadable, FewDangling DEF VerifierBlamesTears
<1> QED
  BY <1>1, <1>2, <1>3, IInvAlways, PTL DEF Spec
=============================================================================
