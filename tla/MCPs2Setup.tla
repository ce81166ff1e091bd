---------------------------- MODULE MCPs2Setup -----------------------------
(***************************************************************************)
(* Configurations with and without translation, interrupts and the clock   *)
(* of the first port; a keyboard in its default set and in another one.    *)
(***************************************************************************)
EXTENDS Ps2Setup

Found == {{0, 2, 6}, {1, 2}, {0, 6}}
AfterSelfTest == {{4, 5}, {4, 5, 6}}
=============================================================================
