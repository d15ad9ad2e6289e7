-------------------------- MODULE MCStageRecovery --------------------------
(***************************************************************************)
(* StageRecovery for TLC: one stage that may be left out, one that may     *)
(* not, and the final report.                                              *)
(***************************************************************************)
EXTENDS StageRecovery, TLC
=============================================================================
