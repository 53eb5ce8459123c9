--------------------------- MODULE MCRecursiveMutex ---------------------------
(* Three threads, so that two can race outside while one is inside. *)
EXTENDS RecursiveMutex
CONSTANTS t1, t2, t3
==============================================================================
