------------------------------ MODULE MCRRSched ------------------------------
(***************************************************************************)
(* Three threads, given in the configuration: enough for a removal at the  *)
(* head, in the middle and at the tail.  The links of the records are      *)
(* arbitrary, so no symmetry is declared beside the liveness property.     *)
(***************************************************************************)
EXTENDS RRSched
=============================================================================
