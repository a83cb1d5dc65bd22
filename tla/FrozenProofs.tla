---------------------------- MODULE FrozenProofs ----------------------------
(***************************************************************************)
(* Proofs about FrozenWorkdir, for any contents, commands and numbers of   *)
(* prepares and of edits.                                                  *)
(***************************************************************************)
EXTENDS FrozenWorkdir, TLAPS

(* Who may write the baseline, what it will hold, and what is behind the    *)
(* records that there are.                                                  *)
Creation ==
  /\ \A c \in Commands : at[c] \in {"hashed", "created"} => digests[c] \in Digests
  /\ \A c \in Commands : at[c] = "created" => baseline.state = "empty"
  /\ \A c, d \in Commands : at[c] = "created" /\ at[d] = "created" => c = d
  /\ \A c \in Commands : at[c] = "asking" => baseline.state # "none"
  /\ baseline.state = "none" /\ (judged # {} \/ others) =>
       \A c \in Commands : at[c] \notin {"verified", "hashed"}
  /\ at[Judge] \notin {"idle", "ready"} => mine[Judge] \in Contents

(* A baseline that is neither whole nor missing is being written, or a      *)
(* command was stopped while it wrote it.                                   *)
Written ==
  baseline.state \in {"empty", "torn"} =>
    (\E c \in Commands : at[c] = "created") \/ "cut" \in mishaps

(* While no prepare overtakes a command, what is read, hashed, frozen and   *)
(* recorded are the same pairs.                                             *)
OfPairs ==
  "overtaken" \notin mishaps =>
    /\ at[Judge] \in {"read", "verified", "hashed", "created"} => mine[Judge] = pairs
    /\ \A c \in Commands : at[c] \in {"hashed", "created"} => digests[c].pairs = pairs
    /\ \A c \in Commands :
         baseline.state = "whole" /\ at[c] \in {"verified", "hashed"} => baseline.of.pairs = pairs
    /\ baseline.state = "whole" /\ at[Judge] = "asking" => mine[Judge] = baseline.of.pairs
    /\ \A c \in Commands :
         at[c] = "created" /\ at[Judge] = "asking" => mine[Judge] = digests[c].pairs
    /\ baseline.state = "whole" => judged \subseteq {baseline.of.pairs}
    /\ \A c \in Commands : at[c] = "created" => judged \subseteq {digests[c].pairs}

Orderly == mishaps \cap {"forced", "overtaken", "relabelled"} = {}

(* While nothing overlaps, the labels are of what is shown, no prepare runs *)
(* beside a label file, and what is hashed and frozen are labels of the     *)
(* pairs that the keys name.                                                *)
Labelled ==
  Orderly =>
    /\ labels \in Contents => labels = shown
    /\ preparing.at # "idle" => labels = None
    /\ baseline.state = "none" =>
         \A c \in Commands : at[c] \in {"ready", "read", "verified", "hashed"} => keys = shown
    /\ \A c \in Commands : at[c] \in {"hashed", "created"} => digests[c].labels = digests[c].keys
    /\ baseline.state = "whole" => baseline.of.labels = baseline.of.keys

IInv == TypeOK /\ Creation /\ Written /\ PaidUnderABaseline /\ OfPairs /\ Labelled

-----------------------------------------------------------------------------
(* Steps *)

PrepareStep ==
  PrepareBegins \/ PreparePairs \/ PrepareShown \/ PrepareKeys \/ PrepareKilled

CommandStep(c) ==
  \/ Begin(c) \/ ReadPairs(c) \/ Verify(c) \/ FindBaseline(c) \/ HashFiles(c)
  \/ CreateBaseline(c) \/ WriteBaseline(c) \/ Ask(c) \/ NextStage(c) \/ Stop(c)

LEMMA StepCases ==
  ASSUME [Next]_vars
  PROVE  \/ PrepareStep \/ EditLabels \/ DeleteTornBaseline
         \/ \E c \in Commands : CommandStep(c)
         \/ UNCHANGED vars
BY DEF Next, PrepareStep, CommandStep

(* A prepare touches no command and nothing that depends on its pairs, and  *)
(* a file it writes beside a command that is not asking yet overtakes it.   *)
LEMMA PrepareEffect ==
  ASSUME PrepareStep
  PROVE  /\ UNCHANGED <<labels, baseline, paid, records>>
         /\ mishaps \subseteq mishaps'
         /\ UNCHANGED <<pairs, shown, keys>>
              \/ (\A c \in Commands : ~Early(c)) \/ "overtaken" \in mishaps'
<1>1. CASE PrepareBegins
  BY <1>1 DEF PrepareBegins, disk
<1>2. CASE PreparePairs
  BY <1>2 DEF PreparePairs, Overtakes
<1>3. CASE PrepareShown
  BY <1>3 DEF PrepareShown, Overtakes
<1>4. CASE PrepareKeys
  BY <1>4 DEF PrepareKeys, Overtakes
<1>5. CASE PrepareKilled
  BY <1>5 DEF PrepareKilled, Overtakes
<1> QED
  BY <1>1, <1>2, <1>3, <1>4, <1>5 DEF PrepareStep

(* No mishap is forgotten.                                                  *)
LEMMA MishapsGrow ==
  ASSUME [Next]_vars PROVE mishaps \subseteq mishaps'
<1>1. CASE PrepareStep
  BY <1>1, PrepareEffect
<1>2. CASE EditLabels
  BY <1>2 DEF EditLabels
<1>3. CASE DeleteTornBaseline
  BY <1>3 DEF DeleteTornBaseline
<1>4. ASSUME NEW c \in Commands, CommandStep(c) PROVE mishaps \subseteq mishaps'
  BY <1>4 DEF CommandStep, Begin, ReadPairs, Verify, FindBaseline, HashFiles,
              CreateBaseline,
              WriteBaseline, Ask, NextStage, Stop
<1>5. CASE UNCHANGED vars
  BY <1>5 DEF vars
<1> QED
  BY <1>1, <1>2, <1>3, <1>4, <1>5, StepCases

-----------------------------------------------------------------------------
(* The initial states *)

LEMMA InitIInv == Init => IInv
<1> SUFFICES ASSUME Init PROVE IInv
  OBVIOUS
<1>1. TypeOK
  <2>1. baseline \in Baselines
    BY DEF Init, Baselines
  <2>2. /\ at \in [Commands -> {"idle"}]
        /\ mine \in [Commands -> {None}]
        /\ digests \in [Commands -> {Nothing}]
    BY DEF Init
  <2>3. preparing \in [at : {"idle"}, new : {None}]
    BY DEF Init
  <2>4. at \in [Commands -> {"idle", "ready", "read", "verified", "hashed", "created", "asking"}]
    BY <2>2
  <2>5. /\ mine \in [Commands -> Contents \cup {None}]
        /\ digests \in [Commands -> Digests \cup {Nothing}]
    BY <2>2
  <2>6. /\ prepares \in 0 .. MaxPrepares /\ edits \in 0 .. MaxEdits
        /\ judged \subseteq Contents
        /\ mishaps \subseteq {"forced", "overtaken", "relabelled", "cut"}
    BY FrozenAssumption DEF Init
  <2>7. others \in BOOLEAN
    BY DEF Init
  <2>8. /\ pairs \in Contents \cup {None} /\ shown \in Contents \cup {None}
        /\ keys \in Contents \cup {None} /\ labels \in Contents \cup {None, Partial}
    BY DEF Init
  <2>9. preparing \in [at : {"idle", "computing", "pairs", "shown"}, new : Contents \cup {None}]
    BY <2>3
  <2> QED
    BY <2>1, <2>4, <2>5, <2>6, <2>8, <2>9, <2>7 DEF TypeOK
<1>2. Creation /\ Written
  BY FrozenAssumption DEF Init, Creation, Written
<1>3. PaidUnderABaseline /\ OfPairs /\ Labelled
  BY FrozenAssumption DEF Init, PaidUnderABaseline, OfPairs, Labelled
<1> QED
  BY <1>1, <1>2, <1>3 DEF IInv

-----------------------------------------------------------------------------
(* Types *)

LEMMA TypeStep ==
  ASSUME TypeOK, Creation, [Next]_vars PROVE TypeOK'
<1>1. CASE PrepareBegins
  BY <1>1, FrozenAssumption DEF PrepareBegins, TypeOK, disk, paid, records
<1>2. CASE PreparePairs
  BY <1>2 DEF PreparePairs, Overtakes, TypeOK, paid, records, counts
<1>3. CASE PrepareShown
  BY <1>3 DEF PrepareShown, Overtakes, TypeOK, paid, records, counts
<1>4. CASE PrepareKeys
  BY <1>4 DEF PrepareKeys, Overtakes, TypeOK, paid, records, counts
<1>5. CASE PrepareKilled
  BY <1>5 DEF PrepareKilled, Overtakes, TypeOK, paid, records, counts
<1>6. CASE EditLabels
  BY <1>6, FrozenAssumption DEF EditLabels, TypeOK, paid, records
<1>7. CASE DeleteTornBaseline
  <2>1. baseline' \in Baselines
    BY <1>7 DEF DeleteTornBaseline, Baselines
  <2> QED
    BY <1>7, <2>1 DEF DeleteTornBaseline, TypeOK, disk, paid, records, counts
<1>8. ASSUME NEW c \in Commands, CommandStep(c) PROVE TypeOK'
  <2>1. CASE Begin(c)
    BY <2>1 DEF Begin, Goto, TypeOK, disk, records, counts
  <2>2. CASE ReadPairs(c)
    BY <2>2 DEF ReadPairs, Goto, TypeOK, disk, records, counts
  <2>3. CASE Verify(c)
    BY <2>3 DEF Verify, Goto, TypeOK, disk, records, counts
  <2>4. CASE FindBaseline(c)
    BY <2>4 DEF FindBaseline, Goto, TypeOK, disk, records, counts
  <2>5. CASE HashFiles(c)
    <3>1. keys \in Contents /\ Snapshot \in Digests
      BY <2>5 DEF HashFiles, LabelsCover, Snapshot, Digests, TypeOK
    <3> QED
      BY <2>5, <3>1 DEF HashFiles, Goto, TypeOK, disk, records, counts
  <2>6. CASE CreateBaseline(c)
    <3>1. baseline' \in Baselines
      BY <2>6 DEF CreateBaseline, Baselines, TypeOK
    <3> QED
      BY <2>6, <3>1 DEF CreateBaseline, Goto, TypeOK, disk, records, counts
  <2>7. CASE WriteBaseline(c)
    <3>1. baseline' \in Baselines
      BY <2>7 DEF WriteBaseline, Baselines, Creation
    <3> QED
      BY <2>7, <3>1 DEF WriteBaseline, Goto, TypeOK, disk, records, counts
  <2>8. CASE Ask(c)
    <3>1. judged' \subseteq Contents /\ others' \in BOOLEAN
      BY <2>8 DEF Ask, RecordLabel, RecordOther, Creation, TypeOK
    <3> QED
      BY <2>8, <3>1 DEF Ask, TypeOK, disk, paid, counts
  <2>9. CASE NextStage(c)
    BY <2>9 DEF NextStage, Goto, TypeOK, disk, records, counts
  <2>10. CASE Stop(c)
    <3>1. baseline' \in Baselines /\ mishaps' \subseteq {"forced", "overtaken", "relabelled", "cut"}
      BY <2>10 DEF Stop, Baselines, TypeOK
    <3> QED
      BY <2>10, <3>1 DEF Stop, Goto, TypeOK, disk, records, counts
  <2> QED
    BY <1>8, <2>1, <2>2, <2>3, <2>4, <2>5, <2>6, <2>7, <2>8, <2>9, <2>10 DEF CommandStep
<1>9. CASE UNCHANGED vars
  BY <1>9 DEF vars, TypeOK, disk, paid, records, counts
<1> QED
  BY <1>1, <1>2, <1>3, <1>4, <1>5, <1>6, <1>7, <1>8, <1>9, StepCases DEF PrepareStep

-----------------------------------------------------------------------------
(* The parts of the invariant *)

LEMMA CreationStep ==
  ASSUME TypeOK, Creation, [Next]_vars PROVE Creation'
<1>1. CASE PrepareStep
  BY <1>1, PrepareEffect DEF Creation, paid, records
<1>2. CASE EditLabels
  BY <1>2 DEF EditLabels, Creation, paid, records
<1>3. CASE DeleteTornBaseline
  BY <1>3 DEF DeleteTornBaseline, Creation, paid
<1>4. ASSUME NEW c \in Commands, CommandStep(c) PROVE Creation'
  <2>1. CASE Begin(c)
    BY <2>1 DEF Begin, Goto, Creation, records
  <2>2. CASE ReadPairs(c)
    BY <2>2 DEF ReadPairs, Goto, Creation, TypeOK, records
  <2>3. CASE Verify(c)
    BY <2>3 DEF Verify, Goto, FrozenOk, Creation, records
  <2>4. CASE FindBaseline(c)
    BY <2>4 DEF FindBaseline, Goto, Creation
  <2>5. CASE HashFiles(c)
    BY <2>5 DEF HashFiles, Goto, LabelsCover, Snapshot, Digests, Creation, TypeOK,
                records
  <2>6. CASE CreateBaseline(c)
    BY <2>6, FrozenAssumption DEF CreateBaseline, Goto, Creation, TypeOK
  <2>7. CASE WriteBaseline(c)
    BY <2>7 DEF WriteBaseline, Goto, Creation, TypeOK
  <2>8. CASE Ask(c)
    BY <2>8 DEF Ask, Creation, paid
  <2>9. CASE NextStage(c)
    BY <2>9 DEF NextStage, Goto, Creation, TypeOK
  <2>10. CASE Stop(c)
    BY <2>10 DEF Stop, Goto, Creation, TypeOK, records
  <2> QED
    BY <1>4, <2>1, <2>2, <2>3, <2>4, <2>5, <2>6, <2>7, <2>8, <2>9, <2>10 DEF CommandStep
<1>5. CASE UNCHANGED vars
  BY <1>5 DEF vars, Creation, paid, records
<1> QED
  BY <1>1, <1>2, <1>3, <1>4, <1>5, StepCases

LEMMA WrittenStep ==
  ASSUME TypeOK, Creation, Written, [Next]_vars PROVE Written'
<1>1. CASE PrepareStep
  BY <1>1, PrepareEffect DEF Written, paid
<1>2. CASE EditLabels
  BY <1>2 DEF EditLabels, Written, paid
<1>3. CASE DeleteTornBaseline
  BY <1>3 DEF DeleteTornBaseline, Written
<1>4. ASSUME NEW c \in Commands, CommandStep(c) PROVE Written'
  <2>1. CASE Begin(c)
    BY <2>1 DEF Begin, Goto, Written
  <2>2. CASE ReadPairs(c)
    BY <2>2 DEF ReadPairs, Goto, Written
  <2>3. CASE Verify(c)
    BY <2>3 DEF Verify, FrozenOk, Written
  <2>4. CASE FindBaseline(c)
    BY <2>4 DEF FindBaseline, Goto, Written
  <2>5. CASE HashFiles(c)
    BY <2>5 DEF HashFiles, Written
  <2>6. CASE CreateBaseline(c)
    BY <2>6 DEF CreateBaseline, Goto, Written, TypeOK
  <2>7. CASE WriteBaseline(c)
    BY <2>7 DEF WriteBaseline, Written
  <2>8. CASE Ask(c)
    BY <2>8 DEF Ask, Written, paid
  <2>9. CASE NextStage(c)
    BY <2>9 DEF NextStage, Goto, Written
  <2>10. CASE Stop(c)
    BY <2>10 DEF Stop, Goto, Written
  <2> QED
    BY <1>4, <2>1, <2>2, <2>3, <2>4, <2>5, <2>6, <2>7, <2>8, <2>9, <2>10 DEF CommandStep
<1>5. CASE UNCHANGED vars
  BY <1>5 DEF vars, Written, paid
<1> QED
  BY <1>1, <1>2, <1>3, <1>4, <1>5, StepCases

LEMMA PaidStep ==
  ASSUME TypeOK, Creation, Written, PaidUnderABaseline, [Next]_vars PROVE PaidUnderABaseline'
<1>1. CASE PrepareStep
  BY <1>1, PrepareEffect DEF PaidUnderABaseline, paid, records
<1>2. CASE EditLabels
  BY <1>2 DEF EditLabels, PaidUnderABaseline, paid, records
<1>3. CASE DeleteTornBaseline
  BY <1>3 DEF DeleteTornBaseline, PaidUnderABaseline, Written
<1>4. ASSUME NEW c \in Commands, CommandStep(c) PROVE PaidUnderABaseline'
  <2>1. CASE Begin(c)
    BY <2>1 DEF Begin, Goto, PaidUnderABaseline, records
  <2>2. CASE ReadPairs(c)
    BY <2>2 DEF ReadPairs, Goto, PaidUnderABaseline, records
  <2>3. CASE Verify(c)
    BY <2>3 DEF Verify, FrozenOk, PaidUnderABaseline, records
  <2>4. CASE FindBaseline(c)
    BY <2>4 DEF FindBaseline, Goto, PaidUnderABaseline, records
  <2>5. CASE HashFiles(c)
    BY <2>5 DEF HashFiles, Goto, PaidUnderABaseline, records
  <2>6. CASE CreateBaseline(c)
    BY <2>6 DEF CreateBaseline, Goto, PaidUnderABaseline, TypeOK, records
  <2>7. CASE WriteBaseline(c)
    BY <2>7 DEF WriteBaseline, PaidUnderABaseline
  <2>8. CASE Ask(c)
    BY <2>8 DEF Ask, PaidUnderABaseline, Written, Creation, TypeOK, Baselines, paid
  <2>9. CASE NextStage(c)
    BY <2>9 DEF NextStage, Goto, PaidUnderABaseline, records
  <2>10. CASE Stop(c)
    BY <2>10 DEF Stop, Goto, PaidUnderABaseline, records
  <2> QED
    BY <1>4, <2>1, <2>2, <2>3, <2>4, <2>5, <2>6, <2>7, <2>8, <2>9, <2>10 DEF CommandStep
<1>5. CASE UNCHANGED vars
  BY <1>5 DEF vars, PaidUnderABaseline, paid, records
<1> QED
  BY <1>1, <1>2, <1>3, <1>4, <1>5, StepCases

LEMMA OfPairsStep ==
  ASSUME TypeOK, Creation, OfPairs, [Next]_vars PROVE OfPairs'
<1>1. CASE PrepareStep
  BY <1>1, PrepareEffect, FrozenAssumption DEF OfPairs, Early, paid, records
<1>2. CASE EditLabels
  BY <1>2 DEF EditLabels, OfPairs, paid, records
<1>3. CASE DeleteTornBaseline
  BY <1>3, FrozenAssumption DEF DeleteTornBaseline, OfPairs, paid
<1>4. ASSUME NEW c \in Commands, CommandStep(c) PROVE OfPairs'
  <2>1. CASE Begin(c)
    BY <2>1 DEF Begin, Goto, OfPairs, disk, records
  <2>2. CASE ReadPairs(c)
    BY <2>2 DEF ReadPairs, Goto, OfPairs, TypeOK, disk, records
  <2>3. CASE Verify(c)
    BY <2>3 DEF Verify, Goto, FrozenOk, Snapshot, OfPairs, disk, records
  <2>4. CASE FindBaseline(c)
    BY <2>4 DEF FindBaseline, Goto, OfPairs, disk, records
  <2>5. CASE HashFiles(c)
    BY <2>5 DEF HashFiles, Goto, Snapshot, OfPairs, Creation, TypeOK, disk
  <2>6. CASE CreateBaseline(c)
    BY <2>6, FrozenAssumption DEF CreateBaseline, Goto, OfPairs, Creation, TypeOK,
                                  disk, records
  <2>7. CASE WriteBaseline(c)
    BY <2>7 DEF WriteBaseline, Goto, OfPairs, TypeOK, disk, records
  <2>8. CASE Ask(c)
    BY <2>8 DEF Ask, RecordLabel, RecordOther, OfPairs, disk, paid
  <2>9. CASE NextStage(c)
    BY <2>9 DEF NextStage, Goto, OfPairs, TypeOK, disk, records
  <2>10. CASE Stop(c)
    BY <2>10 DEF Stop, Goto, OfPairs, TypeOK, disk, records
  <2> QED
    BY <1>4, <2>1, <2>2, <2>3, <2>4, <2>5, <2>6, <2>7, <2>8, <2>9, <2>10 DEF CommandStep
<1>5. CASE UNCHANGED vars
  BY <1>5 DEF vars, OfPairs, disk, paid, records
<1> QED
  BY <1>1, <1>2, <1>3, <1>4, <1>5, StepCases

LEMMA LabelledStep ==
  ASSUME TypeOK, Creation, Labelled, [Next]_vars PROVE Labelled'
<1> SUFFICES ASSUME Orderly' PROVE Labelled'
  BY DEF Labelled
<1>0. Orderly
  BY MishapsGrow DEF Orderly
<1>1. CASE PrepareStep
  <2>1. /\ UNCHANGED <<labels, baseline, paid, records>>
        /\ UNCHANGED <<pairs, shown, keys>> \/ \A c \in Commands : ~Early(c)
    BY <1>1, PrepareEffect DEF Orderly
  <2>2. preparing.at # "idle" \/ preparing'.at # "idle" => labels = None
    <3>1. CASE PrepareBegins
      BY <3>1 DEF PrepareBegins, Held, Orderly
    <3>2. CASE ~PrepareBegins
      BY <1>0, <1>1, <3>2 DEF PrepareStep, PreparePairs, PrepareShown, PrepareKeys,
                              PrepareKilled, Labelled
    <3> QED
      BY <3>1, <3>2
  <2>3. labels \in Contents => UNCHANGED shown
    <3>1. CASE PrepareBegins
      BY <3>1 DEF PrepareBegins, disk
    <3>2. CASE ~PrepareBegins
      BY <1>1, <2>2, <3>2, FrozenAssumption DEF PrepareStep, PreparePairs,
                                                PrepareShown, PrepareKeys,
                                                PrepareKilled
    <3> QED
      BY <3>1, <3>2
  <2> QED
    BY <1>0, <2>1, <2>2, <2>3 DEF Labelled, Early, paid
<1>2. CASE EditLabels
  BY <1>2, FrozenAssumption DEF EditLabels, Labelled, Orderly, paid
<1>3. CASE DeleteTornBaseline
  BY <1>3 DEF DeleteTornBaseline, Labelled, Orderly, disk, paid
<1>4. ASSUME NEW c \in Commands, CommandStep(c) PROVE Labelled'
  <2>1. CASE Begin(c)
    BY <2>1 DEF Begin, Goto, NoLabelProblems, Labelled, Orderly, disk
  <2>2. CASE ReadPairs(c)
    BY <2>2 DEF ReadPairs, Goto, Labelled, Orderly, disk
  <2>3. CASE Verify(c)
    BY <2>3 DEF Verify, Goto, Labelled, Orderly, disk
  <2>4. CASE FindBaseline(c)
    BY <2>4 DEF FindBaseline, Goto, Labelled, Orderly, disk
  <2>5. CASE HashFiles(c)
    BY <2>5 DEF HashFiles, Goto, LabelsCover, Snapshot, Labelled, Orderly, TypeOK, disk
  <2>6. CASE CreateBaseline(c)
    BY <2>6 DEF CreateBaseline, Goto, Labelled, Orderly, TypeOK, disk
  <2>7. CASE WriteBaseline(c)
    BY <2>7 DEF WriteBaseline, Goto, Labelled, Orderly, TypeOK, disk
  <2>8. CASE Ask(c)
    BY <2>8 DEF Ask, Labelled, Orderly, disk, paid
  <2>9. CASE NextStage(c)
    BY <2>9 DEF NextStage, Goto, Labelled, Orderly, Creation, disk
  <2>10. CASE Stop(c)
    BY <2>10 DEF Stop, Goto, Labelled, Orderly, TypeOK, disk
  <2> QED
    BY <1>4, <2>1, <2>2, <2>3, <2>4, <2>5, <2>6, <2>7, <2>8, <2>9, <2>10 DEF CommandStep
<1>5. CASE UNCHANGED vars
  BY <1>5 DEF vars, Labelled, Orderly, disk, paid
<1> QED
  BY <1>1, <1>2, <1>3, <1>4, <1>5, StepCases

-----------------------------------------------------------------------------
(* The theorems *)

LEMMA IInvStep == IInv /\ [Next]_vars => IInv'
BY TypeStep, CreationStep, WrittenStep, PaidStep, OfPairsStep, LabelledStep DEF IInv

LEMMA IInvAlways == Spec => []IInv
BY InitIInv, IInvStep, PTL DEF Spec

(* Every variable of the working directory keeps its type.                  *)
THEOREM TypeCorrect == Spec => []TypeOK
<1>1. IInv => TypeOK
  BY DEF IInv
<1> QED
  BY <1>1, IInvAlways, PTL

(* Records of paid calls have a baseline behind them, unless a command was  *)
(* stopped while it wrote it.                                               *)
THEOREM Paid == Spec => []PaidUnderABaseline
<1>1. IInv => PaidUnderABaseline
  BY DEF IInv
<1> QED
  BY <1>1, IInvAlways, PTL

(* A verdict of "ok" means that the judge's records are about the pairs on  *)
(* disk, unless a prepare overtook a command.                               *)
THEOREM Judged == Spec => []OkMeansJudged
<1>1. IInv => OkMeansJudged
  BY DEF IInv, OfPairs, OkMeansJudged, FrozenOk, Snapshot
<1> QED
  BY <1>1, IInvAlways, PTL

(* A verdict of "ok" with a baseline means that the labels are of the pairs *)
(* the keys name, unless a prepare was forced or overlapped.                *)
THEOREM Attached == Spec => []LabelsAreOfTheKeys
<1>1. IInv => LabelsAreOfTheKeys
  BY DEF IInv, Labelled, Orderly, LabelsAreOfTheKeys, FrozenOk, Snapshot
<1> QED
  BY <1>1, IInvAlways, PTL

(* A whole baseline never changes.                                          *)
THEOREM Final == Spec => BaselineIsFinal
<1>1. ASSUME Creation, [Next]_vars, baseline.state = "whole" PROVE baseline' = baseline
  <2>1. CASE PrepareStep
    BY <2>1, PrepareEffect
  <2>2. CASE EditLabels
    BY <2>2 DEF EditLabels
  <2>3. CASE DeleteTornBaseline
    BY <1>1, <2>3 DEF DeleteTornBaseline
  <2>4. ASSUME NEW c \in Commands, CommandStep(c) PROVE baseline' = baseline
    <3>1. at[c] # "created"
      BY <1>1 DEF Creation
    <3> QED
      BY <1>1, <2>4, <3>1 DEF CommandStep, Begin, ReadPairs, Verify, FindBaseline,
                              HashFiles,
                              CreateBaseline, WriteBaseline, Ask, NextStage, Stop
  <2>5. CASE UNCHANGED vars
    BY <2>5 DEF vars
  <2> QED
    BY <1>1, <2>1, <2>2, <2>3, <2>4, <2>5, StepCases
<1>2. IInv /\ [Next]_vars => [baseline.state = "whole" => baseline' = baseline]_vars
  BY <1>1 DEF IInv
<1> QED
  BY <1>2, IInvAlways, PTL DEF Spec, BaselineIsFinal
=============================================================================
