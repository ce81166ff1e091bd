---------------------------- MODULE MCThreadHeap ----------------------------
(***************************************************************************)
(* MCThreadHeap.cfg: bins that hold four threads (15 in the code), so that *)
(* nine threads reach the third.  As in the code, what is left at the end  *)
(* of a bin is too short for a stack, and longer than a record.            *)
(* MCThreadHeapNull.cfg: the sizes of the code, in words of 8 bytes, pages *)
(* of 512, bins of 8192 and stacks of 512.                                 *)
(***************************************************************************)
EXTENDS ThreadHeap
=============================================================================
