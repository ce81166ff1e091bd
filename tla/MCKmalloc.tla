----------------------------- MODULE MCKmalloc -----------------------------
(***************************************************************************)
(* Bounds for the heap.  A bin is one page of 16 words and a header holds  *)
(* sizes up to 31 words (the code: 16 pages, 8192 words, and 2^29 - 1), so *)
(* that sizes split, fill, exhaust and exceed a bin.  The run about what   *)
(* krealloc() returns has bins of 32 words.                                *)
(***************************************************************************)
EXTENDS Kmalloc
=============================================================================
