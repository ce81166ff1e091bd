------------------------------ MODULE MCKProc ------------------------------
(***************************************************************************)
(* Three records and three creations: a record is freed by kexit() and     *)
(* allocated again.  The list grows by one with each PROC_run(), so MaxLen *)
(* leaves room for three more than there are threads.                      *)
(***************************************************************************)
EXTENDS KProc
=============================================================================
