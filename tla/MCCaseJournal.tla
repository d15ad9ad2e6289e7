--------------------------- MODULE MCCaseJournal ---------------------------
(***************************************************************************)
(* CaseJournal for TLC.  Processes and clock values are interchangeable.   *)
(***************************************************************************)
EXTENDS CaseJournal

ProcSymmetry == Permutations(Proc)
Symmetry == Permutations(Proc) \union Permutations(Stamp)
=============================================================================
