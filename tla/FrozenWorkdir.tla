--------------------------- MODULE FrozenWorkdir ---------------------------
(***************************************************************************)
(* The working directory of the memory benchmark: `prepare` writes pairs,  *)
(* the author labels some of them, and the paid commands freeze all of it  *)
(* in a baseline before their first call and compare it from then on       *)
(* (src/scripts/wmb/retrieval_bench.py cmd_prepare, assistant_label_-      *)
(* problems, frozen_verdict, take_baseline, run_stage, cmd_judge,          *)
(* cmd_questions).                                                         *)
(*                                                                         *)
(* Each paid command has a lock of its own, so that commands of different  *)
(* names overlap; `prepare` and the author have none.  A file is the       *)
(* content of the prepare it comes from, a digest is the content, and the  *)
(* keys of the decisive pairs ("d001", "d002", ...) are the same for every *)
(* content.  Only `judge` asks about pairs.                                *)
(***************************************************************************)
EXTENDS Naturals

CONSTANTS
  Contents,  \* what a prepare may compute
  None,      \* no file, or one cut short that no reader accepts
  Partial,   \* a label file that does not cover the decisive keys
  Commands,  \* the paid commands
  Judge,     \* the one of them that asks about pairs
  MaxPrepares, \* bound: runs of prepare
  MaxEdits   \* bound: changes of the label file

ASSUME FrozenAssumption ==
  /\ None \notin Contents /\ Partial \notin Contents /\ None # Partial
  /\ Judge \in Commands
  /\ MaxPrepares \in Nat /\ MaxEdits \in Nat

VARIABLES
  pairs,     \* pairs.json, with prep.json and vectors.npz
  shown,     \* decisive.json: what the author reads
  keys,      \* decisive_keys.json: which pairs these are
  labels,    \* decisive_assistant.json: the content whose pairs were labelled
  baseline,  \* budget_baseline.json
  at,        \* per command: how far it is
  mine,      \* per command: the pairs it read for its stage
  digests,   \* per command: what it hashed for the baseline
  preparing, \* how far the prepare is, and what it computes
  judged,    \* the contents whose pairs have records in labels.jsonl
  others,    \* whether another record file holds a record
  prepares,  \* history: runs of prepare so far
  edits,     \* history: changes of the label file so far
  mishaps    \* history: what went wrong between the actors

disk == <<pairs, shown, keys, labels>>
paid == <<at, mine, digests>>
records == <<judged, others>>
counts == <<prepares, edits>>
vars == <<disk, baseline, paid, preparing, records, counts, mishaps>>

Digests == [pairs : Contents, shown : Contents, keys : Contents, labels : Contents]
Nothing == [pairs |-> None, shown |-> None, keys |-> None, labels |-> None]
Snapshot == [pairs |-> pairs, shown |-> shown, keys |-> keys, labels |-> labels]

(* "empty": created, nothing written yet; "torn": written in part.          *)
Baselines == [state : {"none", "empty", "torn"}, of : {Nothing}]
               \cup [state : {"whole"}, of : Digests]

(* A command between its first look at the labels and its baseline.         *)
Early(c) == at[c] \in {"ready", "read", "verified", "hashed", "created"}

TypeOK ==
  /\ pairs \in Contents \cup {None}
  /\ shown \in Contents \cup {None}
  /\ keys \in Contents \cup {None}
  /\ labels \in Contents \cup {None, Partial}
  /\ baseline \in Baselines
  /\ at \in [Commands -> {"idle", "ready", "read", "verified", "hashed", "created", "asking"}]
  /\ mine \in [Commands -> Contents \cup {None}]
  /\ digests \in [Commands -> Digests \cup {Nothing}]
  /\ preparing \in [at : {"idle", "computing", "pairs", "shown"}, new : Contents \cup {None}]
  /\ judged \subseteq Contents /\ others \in BOOLEAN
  /\ prepares \in 0 .. MaxPrepares /\ edits \in 0 .. MaxEdits
  /\ mishaps \subseteq {"forced", "overtaken", "relabelled", "cut"}

Init ==
  /\ pairs = None /\ shown = None /\ keys = None /\ labels = None
  /\ baseline = [state |-> "none", of |-> Nothing]
  /\ at = [c \in Commands |-> "idle"]
  /\ mine = [c \in Commands |-> None]
  /\ digests = [c \in Commands |-> Nothing]
  /\ preparing = [at |-> "idle", new |-> None]
  /\ judged = {} /\ others = FALSE
  /\ prepares = 0 /\ edits = 0 /\ mishaps = {}

-----------------------------------------------------------------------------
(* prepare *)

(* PREPARE_GUARDS: files with something in them that depend on the pairs.   *)
Held == labels # None \/ baseline.state \in {"torn", "whole"} \/ judged # {} \/ others

(* It is refused when something depends on the pairs, unless it is forced;  *)
(* then it computes for minutes.                                            *)
PrepareBegins ==
  /\ preparing.at = "idle"
  /\ prepares < MaxPrepares
  /\ prepares' = prepares + 1
  /\ \E force \in BOOLEAN, new \in Contents :
       /\ Held => force
       /\ preparing' = [at |-> "computing", new |-> new]
       /\ mishaps' = IF Held THEN mishaps \cup {"forced"} ELSE mishaps
  /\ UNCHANGED <<disk, baseline, paid, records, edits>>

Overtakes ==
  mishaps' = IF \E c \in Commands : Early(c) THEN mishaps \cup {"overtaken"} ELSE mishaps

PreparePairs ==
  /\ preparing.at = "computing"
  /\ pairs' = preparing.new
  /\ preparing' = [preparing EXCEPT !.at = "pairs"]
  /\ Overtakes
  /\ UNCHANGED <<shown, keys, labels, baseline, paid, records, counts>>

PrepareShown ==
  /\ preparing.at = "pairs"
  /\ shown' = preparing.new
  /\ preparing' = [preparing EXCEPT !.at = "shown"]
  /\ Overtakes
  /\ UNCHANGED <<pairs, keys, labels, baseline, paid, records, counts>>

PrepareKeys ==
  /\ preparing.at = "shown"
  /\ keys' = preparing.new
  /\ preparing' = [at |-> "idle", new |-> None]
  /\ Overtakes
  /\ UNCHANGED <<pairs, shown, labels, baseline, paid, records, counts>>

(* Killed between two files, or while it writes one.                        *)
PrepareKilled ==
  /\ preparing.at # "idle"
  /\ preparing' = [at |-> "idle", new |-> None]
  /\ \/ UNCHANGED <<pairs, shown, keys, mishaps>>
     \/ /\ preparing.at = "computing" /\ pairs' = None /\ Overtakes
        /\ UNCHANGED <<shown, keys>>
     \/ /\ preparing.at = "pairs" /\ shown' = None /\ Overtakes
        /\ UNCHANGED <<pairs, keys>>
     \/ /\ preparing.at = "shown" /\ keys' = None /\ Overtakes
        /\ UNCHANGED <<pairs, shown>>
  /\ UNCHANGED <<labels, baseline, paid, records, counts>>

-----------------------------------------------------------------------------
(* The author *)

(* The label file is written for the pairs that decisive.json shows, begun, *)
(* or deleted.                                                              *)
EditLabels ==
  /\ edits < MaxEdits
  /\ edits' = edits + 1
  /\ \/ shown # None /\ labels' \in {shown, Partial}
     \/ labels' = None
  /\ mishaps' = IF preparing.at = "idle" THEN mishaps ELSE mishaps \cup {"relabelled"}
  /\ UNCHANGED <<pairs, shown, keys, baseline, paid, preparing, records, prepares>>

(* A baseline that cannot be read stops every command; the author deletes   *)
(* it when none is running.                                                 *)
DeleteTornBaseline ==
  /\ baseline.state \in {"empty", "torn"}
  /\ \A c \in Commands : at[c] = "idle"
  /\ baseline' = [state |-> "none", of |-> Nothing]
  /\ UNCHANGED <<disk, paid, preparing, records, counts, mishaps>>

-----------------------------------------------------------------------------
(* The paid commands *)

Goto(c, label) == at' = [at EXCEPT ![c] = label]

(* One valid label for every decisive key: the digest of the keys is all    *)
(* that is compared, and it is the same for every content.                  *)
LabelsCover == keys # None /\ labels \in Contents

(* Mutant: the pairs of the keys are not compared with those shown.         *)
NoLabelProblemsByKeys == LabelsCover

(* assistant_label_problems with notes and briefs: and the keys are of the  *)
(* pairs that decisive.json shows.  Where there are keys, prepare has       *)
(* written that file before: if shown is None it was cut short, and its     *)
(* invalid JSON is a problem, too.                                          *)
NoLabelProblems == LabelsCover /\ keys = shown

(* The checks before the lock, and the lock of this command.                *)
Begin(c) ==
  /\ at[c] = "idle"
  /\ NoLabelProblems
  /\ Goto(c, "ready")
  /\ UNCHANGED <<disk, baseline, mine, digests, preparing, records, counts, mishaps>>

(* judge_pairs, before run_stage; no other command asks about pairs.        *)
ReadPairs(c) ==
  /\ at[c] = "ready"
  /\ IF c = Judge THEN pairs # None /\ mine' = [mine EXCEPT ![c] = pairs] ELSE UNCHANGED mine
  /\ Goto(c, "read")
  /\ UNCHANGED <<disk, baseline, digests, preparing, records, counts, mishaps>>

(* Mutant: pairs.json is not among the frozen files.                        *)
FrozenOkForgetsPairs ==
  \/ baseline.state = "none" /\ judged = {} /\ ~others
  \/ baseline.state = "whole" /\ baseline.of = [Snapshot EXCEPT !.pairs = baseline.of.pairs]

(* frozen_verdict: the files are those of the baseline; without one there   *)
(* is no record of a paid call.  It raises on one that cannot be read.      *)
FrozenOk ==
  \/ baseline.state = "none" /\ judged = {} /\ ~others
  \/ baseline.state = "whole" /\ baseline.of = Snapshot

(* run_stage up to the preflight, the budget and the proxy willing.         *)
Verify(c) ==
  /\ at[c] = "read"
  /\ FrozenOk
  /\ Goto(c, "verified")
  /\ UNCHANGED <<disk, baseline, mine, digests, preparing, records, counts, mishaps>>

(* take_baseline: the file exists, whatever is in it.                       *)
FindBaseline(c) ==
  /\ at[c] = "verified"
  /\ baseline.state # "none"
  /\ Goto(c, "asking")
  /\ UNCHANGED <<disk, baseline, mine, digests, preparing, records, counts, mishaps>>

(* Mutant: the labels and the files are not looked at once more.            *)
HashWhatIsThere(c) ==
  /\ at[c] = "verified"
  /\ baseline.state = "none"
  /\ digests' = [digests EXCEPT ![c] = Snapshot]
  /\ Goto(c, "hashed")
  /\ UNCHANGED <<disk, baseline, mine, preparing, records, counts, mishaps>>

(* Mutant: only the judge takes a baseline.                                 *)
HashForTheJudge(c) ==
  /\ at[c] = "verified"
  /\ baseline.state = "none"
  /\ LabelsCover /\ pairs # None /\ shown # None
  /\ IF c = Judge THEN digests' = [digests EXCEPT ![c] = Snapshot] /\ Goto(c, "hashed")
     ELSE UNCHANGED digests /\ Goto(c, "asking")
  /\ UNCHANGED <<disk, baseline, mine, preparing, records, counts, mishaps>>

(* Without one the labels are looked at once more, but not what they were   *)
(* shown for, and all the files are hashed.                                 *)
HashFiles(c) ==
  /\ at[c] = "verified"
  /\ baseline.state = "none"
  /\ LabelsCover /\ pairs # None /\ shown # None
  /\ digests' = [digests EXCEPT ![c] = Snapshot]
  /\ Goto(c, "hashed")
  /\ UNCHANGED <<disk, baseline, mine, preparing, records, counts, mishaps>>

(* Mutant: the baseline is opened with "w".                                 *)
CreateOverwriting(c) ==
  /\ at[c] = "hashed"
  /\ baseline' = [state |-> "empty", of |-> Nothing]
  /\ Goto(c, "created")
  /\ UNCHANGED <<disk, mine, digests, preparing, records, counts, mishaps>>

(* Opened with "x": another command may have taken it a moment ago.         *)
CreateBaseline(c) ==
  /\ at[c] = "hashed"
  /\ IF baseline.state = "none"
     THEN baseline' = [state |-> "empty", of |-> Nothing] /\ Goto(c, "created")
     ELSE UNCHANGED baseline /\ Goto(c, "asking")
  /\ UNCHANGED <<disk, mine, digests, preparing, records, counts, mishaps>>

WriteBaseline(c) ==
  /\ at[c] = "created"
  /\ baseline' = [state |-> "whole", of |-> digests[c]]
  /\ digests' = [digests EXCEPT ![c] = Nothing]
  /\ Goto(c, "asking")
  /\ UNCHANGED <<disk, mine, preparing, records, counts, mishaps>>

(* run_judge: a record of labels.jsonl is about the pairs that were read.   *)
RecordLabel(c) == judged' = judged \cup {mine[c]} /\ UNCHANGED others

(* A question, an answer or an audit: what they ask is not in these files.  *)
RecordOther == others' = TRUE /\ UNCHANGED judged

(* A reply is recorded.                                                     *)
Ask(c) ==
  /\ at[c] = "asking"
  /\ IF c = Judge THEN RecordLabel(c) ELSE RecordOther
  /\ UNCHANGED <<disk, baseline, paid, preparing, counts, mishaps>>

(* The next stage of the command begins with its pairs.                     *)
NextStage(c) ==
  /\ at[c] = "asking"
  /\ mine' = [mine EXCEPT ![c] = None]
  /\ Goto(c, "ready")
  /\ UNCHANGED <<disk, baseline, digests, preparing, records, counts, mishaps>>

(* The command ends, is refused by any of its checks, fails or is killed,   *)
(* also with the baseline created and not written.                          *)
Stop(c) ==
  /\ at[c] # "idle"
  /\ Goto(c, "idle")
  /\ mine' = [mine EXCEPT ![c] = None]
  /\ digests' = [digests EXCEPT ![c] = Nothing]
  /\ IF at[c] = "created"
     THEN /\ baseline' \in [state : {"empty", "torn"}, of : {Nothing}]
          /\ mishaps' = mishaps \cup {"cut"}
     ELSE UNCHANGED <<baseline, mishaps>>
  /\ UNCHANGED <<disk, preparing, records, counts>>

Next ==
  \/ PrepareBegins \/ PreparePairs \/ PrepareShown \/ PrepareKeys \/ PrepareKilled
  \/ EditLabels \/ DeleteTornBaseline
  \/ \E c \in Commands : \/ Begin(c) \/ ReadPairs(c) \/ Verify(c) \/ FindBaseline(c)
                         \/ HashFiles(c) \/ CreateBaseline(c) \/ WriteBaseline(c)
                         \/ Ask(c) \/ NextStage(c) \/ Stop(c)

Spec == Init /\ [][Next]_vars

-----------------------------------------------------------------------------
(* Properties *)

(* "Once its proxy has passed the preflight and right before its first      *)
(* call" a command takes the baseline, or finds it (take_baseline): paid    *)
(* records have one behind them that is whole or being written, unless a    *)
(* command was stopped while it wrote it.                                   *)
PaidUnderABaseline ==
  judged # {} \/ others =>
    \/ baseline.state = "whole"
    \/ \E c \in Commands : at[c] = "created"
    \/ "cut" \in mishaps

(* What the baseline says was there before the first call is never changed  *)
(* by a command that comes later.                                           *)
BaselineIsFinal == [][baseline.state = "whole" => baseline' = baseline]_vars

(* When the verdict is "ok", the records of the judge are about the pairs   *)
(* that are on disk, unless a prepare wrote while a command was between its *)
(* first check and its baseline.                                            *)
OkMeansJudged ==
  FrozenOk /\ "overtaken" \notin mishaps => judged \subseteq {pairs}

(* When the verdict is "ok" with a baseline, the labels are of the pairs    *)
(* that the keys name ("keys that were re-assigned to other pairs after the *)
(* labelling are found", assistant_label_problems), unless a prepare was    *)
(* forced, or overlapped with a command or with the labelling.              *)
LabelsAreOfTheKeys ==
  FrozenOk /\ baseline.state = "whole"
    /\ mishaps \cap {"forced", "overtaken", "relabelled"} = {} => labels = keys
=============================================================================
