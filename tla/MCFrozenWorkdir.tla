-------------------------- MODULE MCFrozenWorkdir --------------------------
(* A small instance of FrozenWorkdir: two contents, and a command beside    *)
(* the judge.                                                               *)
EXTENDS FrozenWorkdir, TLC

CONSTANTS v1, v2

TwoContents == {v1, v2}
JudgeAndQuestions == {"judge", "questions"}

Sym == Permutations(TwoContents)
=============================================================================
