--------------------------- MODULE MCCardThreadPool ---------------------------
(* Two threads of which one shares the other's handle, a third that comes when
   either has left, and a second reader to be mixed up with the first. *)
EXTENDS CardThreadPool
CONSTANTS t1, t2, t3, u1, u2, u3, u4, r1, r2, h1, h2, h3

\* The PC/SC library's SCardDisconnect() never fails: what the pool does by itself.
Reliable == Next /\ ~ \E u \in Users : Connected(u) /\ DoDisconnectFails(u)
ReliableSpec == Init /\ [][Reliable]_vars
==============================================================================
