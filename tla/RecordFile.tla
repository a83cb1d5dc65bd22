----------------------------- MODULE RecordFile -----------------------------
(***************************************************************************)
(* A record file: one JSON record a line, appended to, whose torn tail is  *)
(* repaired by the next append (src/scripts/wmb/contract.py load_jsonl,    *)
(* repair_tail, append_jsonl).                                             *)
(*                                                                         *)
(* A file is the sequence of the records a reader finds, and how the file  *)
(* ends: with a newline; with a complete record that misses its newline    *)
(* ("bare"); with a fragment of one ("torn"); with a fragment cut inside a *)
(* character ("split": records are written with ensure_ascii=False).       *)
(***************************************************************************)
EXTENDS Naturals, Sequences, SequencesExt

Ends == {"newline", "bare", "torn", "split"}

Files(Record) == [records : Seq(Record), end : Ends]

Empty == [records |-> <<>>, end |-> "newline"]

(* load_jsonl decodes the whole file before it looks at lines: a character  *)
(* cut in two raises where a torn line is skipped.                          *)
Readable(file) == file.end # "split"

(* Mutant: whatever is not terminated is cut off.                           *)
RepairedByCutting(file) ==
  [records |-> IF file.end = "bare" THEN Front(file.records) ELSE file.records,
   end |-> "newline"]

(* repair_tail: a complete last record gets its newline, a fragment is cut. *)
Repaired(file) == [file EXCEPT !.end = "newline"]

(* append_jsonl, with everything on disk.                                   *)
Appended(file, rows) ==
  [records |-> Repaired(file).records \o rows, end |-> "newline"]

(* append_jsonl, stopped anywhere: before the repair, or with the first n   *)
(* rows written and the next one not at all or in part.                     *)
CutShort(file, rows) ==
  LET cuts == {c \in [whole : 0 .. Len(rows), end : Ends] :
                 /\ c.end = "bare" => c.whole > 0
                 /\ c.end \in {"torn", "split"} => c.whole < Len(rows)}
  IN  {file} \cup {[records |-> Repaired(file).records \o SubSeq(rows, 1, c.whole),
                    end |-> c.end] : c \in cuts}
=============================================================================
