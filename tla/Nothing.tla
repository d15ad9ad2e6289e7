------------------------------ MODULE Nothing -------------------------------
(***************************************************************************)
(* The value that stands for what is not there: no file, no receipt, no    *)
(* content.  The components that one module composes share it.             *)
(***************************************************************************)
CONSTANT None
=============================================================================
