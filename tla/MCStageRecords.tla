--------------------------- MODULE MCStageRecords ---------------------------
(* Small instances of StageRecords: a stage of the judge, which keeps       *)
(* results without a reply, and one of those that ask once.                 *)
EXTENDS StageRecords

BothModes == {TRUE, FALSE}
=============================================================================
