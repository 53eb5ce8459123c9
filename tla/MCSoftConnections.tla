--------------------------- MODULE MCSoftConnections ---------------------------
(* Two threads with a handle each and two readers.  A third user would only add
   users of the same handles. *)
EXTENDS SoftConnections, TLC
CONSTANTS t1, t2, u1, u2, r1, r2
Symmetric == Permutations({t1, t2}) \union Permutations({u1, u2}) \union Permutations({r1, r2})
==============================================================================
