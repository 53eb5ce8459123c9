---------------------------- MODULE ReentrantLock ----------------------------
(***************************************************************************)
(* What the proxy's classes expect of a CMutex (eidtestinfralib/Mutex.h):  *)
(* a lock that one thread may take again while it holds it, and that no    *)
(* other thread can take until every one of those calls has been undone.   *)
(* depth[t] is the number of CAutoMutex objects of thread t whose          *)
(* constructor has returned and whose destructor has not.                  *)
(***************************************************************************)
EXTENDS Naturals

CONSTANT Threads

VARIABLE depth

Init == depth = [t \in Threads |-> 0]

Acquire(t) ==
  /\ \A u \in Threads \ {t} : depth[u] = 0
  /\ depth' = [depth EXCEPT ![t] = @ + 1]

Release(t) ==
  /\ depth[t] > 0
  /\ depth' = [depth EXCEPT ![t] = @ - 1]

Next == \E t \in Threads : Acquire(t) \/ Release(t)

Spec == Init /\ [][Next]_depth
==============================================================================
