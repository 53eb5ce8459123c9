--------------------------- MODULE RecursiveMutex ----------------------------
(***************************************************************************)
(* EidInfra::CMutex of eidtestinfralib/Mutex.cpp, the POSIX branches: a    *)
(* recursive mutex built from a plain pthread mutex, an owner field and a  *)
(* count.  Lock() reads m_MutexOwner WITHOUT holding the pthread mutex, so *)
(* the read races with the stores of the thread inside.  Each step below   *)
(* is one access to memory another thread can see.                         *)
(***************************************************************************)
EXTENDS Naturals

CONSTANTS
  Callers,    \* the threads that call Lock() and Unlock()
  NoThread,   \* the value 0 of m_MutexOwner, and "not locked" of the pthread mutex
  MaxDepth    \* bound: a thread nests at most this many CAutoMutex objects

ASSUME CallersAssumption == NoThread \notin Callers
ASSUME MaxDepthAssumption == MaxDepth \in Nat \ {0}

VARIABLES
  m_Mutex,           \* the thread that has the pthread mutex, or NoThread
  m_MutexOwner,
  m_MutexLockcount,
  pc,                \* where each thread is inside Lock() or Unlock(); "out" when in neither
  depth              \* CAutoMutex objects of each thread (the client's view)

mutexVars == <<m_Mutex, m_MutexOwner, m_MutexLockcount, pc, depth>>

PCs == {"out", "trylock", "compare", "block", "own", "count",
        "unlock", "disown", "uncount", "release"}

MutexInit ==
  /\ m_Mutex = NoThread
  /\ m_MutexOwner = NoThread
  /\ m_MutexLockcount = 0
  /\ pc = [t \in Callers |-> "out"]
  /\ depth = [t \in Callers |-> 0]

Goto(t, from, to) ==
  /\ pc[t] = from
  /\ pc' = [pc EXCEPT ![t] = to]

-----------------------------------------------------------------------------
\* CAutoMutex's constructor calls Lock().
CallLock(t) ==
  /\ depth[t] < MaxDepth
  /\ Goto(t, "out", "trylock")
  /\ UNCHANGED <<m_Mutex, m_MutexOwner, m_MutexLockcount, depth>>

\* pthread_mutex_trylock() fails when any thread, the caller included, has the mutex.
TryLock(t) ==
  /\ \/ /\ m_Mutex = NoThread
        /\ m_Mutex' = t
        /\ Goto(t, "trylock", "own")
     \/ /\ m_Mutex # NoThread
        /\ Goto(t, "trylock", "compare")
        /\ UNCHANGED m_Mutex
  /\ UNCHANGED <<m_MutexOwner, m_MutexLockcount, depth>>

\* pthread_equal(m_MutexOwner, pthread_self()), read without the mutex.
CompareOwner(t) ==
  /\ IF m_MutexOwner = t THEN Goto(t, "compare", "count")
                         ELSE Goto(t, "compare", "block")
  /\ UNCHANGED <<m_Mutex, m_MutexOwner, m_MutexLockcount, depth>>

\* Mutant: the thread that had to wait does not record itself as the owner.
BlockingLockUnowned(t) ==
  /\ m_Mutex = NoThread
  /\ m_Mutex' = t
  /\ Goto(t, "block", "count")
  /\ UNCHANGED <<m_MutexOwner, m_MutexLockcount, depth>>

\* pthread_mutex_lock() waits until the mutex is free.
BlockingLock(t) ==
  /\ m_Mutex = NoThread
  /\ m_Mutex' = t
  /\ Goto(t, "block", "own")
  /\ UNCHANGED <<m_MutexOwner, m_MutexLockcount, depth>>

SetOwner(t) ==
  /\ m_MutexOwner' = t
  /\ Goto(t, "own", "count")
  /\ UNCHANGED <<m_Mutex, m_MutexLockcount, depth>>

\* m_MutexLockcount++ and the return of Lock().
IncrementCount(t) ==
  /\ m_MutexLockcount' = m_MutexLockcount + 1
  /\ depth' = [depth EXCEPT ![t] = @ + 1]
  /\ Goto(t, "count", "out")
  /\ UNCHANGED <<m_Mutex, m_MutexOwner>>

-----------------------------------------------------------------------------
\* CAutoMutex's destructor calls Unlock().
CallUnlock(t) ==
  /\ depth[t] > 0
  /\ Goto(t, "out", "unlock")
  /\ UNCHANGED <<m_Mutex, m_MutexOwner, m_MutexLockcount, depth>>

\* UnlockTest with its test as a parameter, for the mutants.
UnlockAt(t, n) ==
  /\ IF m_MutexOwner = t /\ m_MutexLockcount <= n
     THEN /\ Goto(t, "unlock", "disown")
          /\ UNCHANGED <<m_MutexLockcount, depth>>
     ELSE /\ Goto(t, "unlock", "out")
          /\ m_MutexLockcount' = IF m_MutexOwner = t THEN m_MutexLockcount - 1
                                                    ELSE m_MutexLockcount
          /\ depth' = [depth EXCEPT ![t] = @ - 1]
  /\ UNCHANGED <<m_Mutex, m_MutexOwner>>

\* Mutants: the test off by one, up and down.
UnlockTestEarly(t) == UnlockAt(t, 2)
UnlockTestLate(t) == UnlockAt(t, 0)

\* Mutant: the outermost Unlock() lowers the count before the test and after it.
UnlockTestTwice(t) ==
  /\ m_MutexOwner = t
  /\ m_MutexLockcount' = m_MutexLockcount - 1
  /\ IF m_MutexLockcount <= 1 THEN Goto(t, "unlock", "disown") /\ UNCHANGED depth
                              ELSE /\ Goto(t, "unlock", "out")
                                   /\ depth' = [depth EXCEPT ![t] = @ - 1]
  /\ UNCHANGED <<m_Mutex, m_MutexOwner>>

\* The outermost Unlock() of the owner goes on to give the mutex back, an inner one
\* lowers the count and returns, and a thread that is not the owner returns at once.
UnlockTest(t) ==
  /\ IF m_MutexOwner = t /\ m_MutexLockcount <= 1
     THEN /\ Goto(t, "unlock", "disown")
          /\ UNCHANGED <<m_MutexLockcount, depth>>
     ELSE /\ Goto(t, "unlock", "out")
          /\ m_MutexLockcount' = IF m_MutexOwner = t THEN m_MutexLockcount - 1
                                                    ELSE m_MutexLockcount
          /\ depth' = [depth EXCEPT ![t] = @ - 1]
  /\ UNCHANGED <<m_Mutex, m_MutexOwner>>

\* Mutant: the owner is not cleared.
ClearOwnerForgotten(t) ==
  /\ Goto(t, "disown", "uncount")
  /\ UNCHANGED <<m_Mutex, m_MutexOwner, m_MutexLockcount, depth>>

ClearOwner(t) ==
  /\ m_MutexOwner' = NoThread
  /\ Goto(t, "disown", "uncount")
  /\ UNCHANGED <<m_Mutex, m_MutexLockcount, depth>>

DecrementCount(t) ==
  /\ m_MutexLockcount' = m_MutexLockcount - 1
  /\ Goto(t, "uncount", "release")
  /\ UNCHANGED <<m_Mutex, m_MutexOwner, depth>>

\* pthread_mutex_unlock() and the return of Unlock().
ReleaseMutex(t) ==
  /\ m_Mutex' = NoThread
  /\ depth' = [depth EXCEPT ![t] = @ - 1]
  /\ Goto(t, "release", "out")
  /\ UNCHANGED <<m_MutexOwner, m_MutexLockcount>>

-----------------------------------------------------------------------------
\* The steps of a call once it has been made.
Lock(t) ==
  TryLock(t) \/ CompareOwner(t) \/ BlockingLock(t) \/ SetOwner(t) \/ IncrementCount(t)

Unlock(t) ==
  UnlockTest(t) \/ ClearOwner(t) \/ DecrementCount(t) \/ ReleaseMutex(t)

MutexNext == \E t \in Callers : CallLock(t) \/ CallUnlock(t) \/ Lock(t) \/ Unlock(t)

MutexSpec == MutexInit /\ [][MutexNext]_mutexVars

\* Threads are scheduled, and the outermost CAutoMutex of a thread goes out of scope
\* in the end: every block that holds one is finite.  Nothing is assumed of the order
\* in which pthread_mutex_lock() serves its waiters.
Fairness ==
  \A t \in Callers : /\ WF_mutexVars(Lock(t))
                     /\ WF_mutexVars(Unlock(t))
                     /\ WF_mutexVars(CallUnlock(t))
                     /\ SF_mutexVars(depth[t] = 1 /\ CallUnlock(t))

FairSpec == MutexSpec /\ Fairness

-----------------------------------------------------------------------------
MutexTypeOK ==
  /\ m_Mutex \in Callers \union {NoThread}
  /\ m_MutexOwner \in Callers \union {NoThread}
  /\ m_MutexLockcount \in Nat
  /\ pc \in [Callers -> PCs]
  /\ depth \in [Callers -> Nat]

\* No two threads are inside the lock at once: the racy read of m_MutexOwner in
\* Lock() (Mutex.cpp:61) never lets a second thread through as if it were the owner.
MutualExclusion ==
  \A t, u \in Callers : depth[t] > 0 /\ depth[u] > 0 => t = u

\* Between its calls a thread inside the lock is the recorded owner, and the count
\* is the number of times it has to unlock: no increment or decrement is lost,
\* whatever the threads that wait outside do (Mutex.cpp:61-76, 85-95).
CountIsDepth ==
  \A t \in Callers :
    depth[t] > 0 /\ pc[t] = "out" => /\ m_MutexOwner = t
                                     /\ m_MutexLockcount = depth[t]

\* While a thread outside waits in Lock(), some thread from outside gets in: the last
\* Unlock() of the holder always hands the mutex on (Mutex.cpp:93-95).
WaitingOutside(t) == pc[t] \in {"trylock", "compare", "block"} /\ depth[t] = 0
Entering(t) == pc[t] = "count" /\ depth[t] = 0

NoLostUnlock == (\E t \in Callers : WaitingOutside(t)) ~> (\E t \in Callers : Entering(t))

\* CMutex is a reentrant lock.
Abstract == INSTANCE ReentrantLock WITH Threads <- Callers
ImplementsReentrantLock == Abstract!Spec
==============================================================================
