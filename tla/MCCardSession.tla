---------------------------- MODULE MCCardSession -----------------------------
(* A virtual card with a file the physical card lacks, and one they share. *)
EXTENDS CardSession
CONSTANTS rootDir, authFile, testFile, otherFile
==============================================================================
