--------------------------- MODULE SoftTransaction ----------------------------
(***************************************************************************)
(* The Transaction of pcscproxy/Transaction.cpp as SoftCard uses it        *)
(* (SoftCard.cpp:166-221), with threads interleaved at each access to a    *)
(* shared field.  A Transaction object belongs to one SoftCard; several    *)
(* threads use one object when the card thread pool gave them one handle,  *)
(* and several objects use one system mutex when their names, built from   *)
(* the handle and clock(), are the same.  cnt++ and cnt-- are not atomic:  *)
(* a load and a store.                                                     *)
(***************************************************************************)
EXTENDS Naturals

CONSTANTS
  Threads,
  Objects,      \* Transaction objects
  Names,        \* names of the system mutex
  objectOf,     \* the object each thread uses
  nameOf,       \* the mutex name of each object
  NoThread,
  MaxDepth      \* bound: transactions a thread nests

ASSUME ConstantsAssumption ==
  /\ objectOf \in [Threads -> Objects]
  /\ nameOf \in [Objects -> Names]
  /\ NoThread \notin Threads
  /\ MaxDepth \in Nat

VARIABLES
  cnt, isJustStarted,   \* of each object
  hMutex,               \* of each name: the thread that locked it, or NoThread
  pc,                   \* where each thread is in aquire(), release() or between
  seen,                 \* the value of cnt a thread has loaded
  call,                 \* the call each thread is in
  depth                 \* transactions each thread has begun and not ended

vars == <<cnt, isJustStarted, hMutex, pc, seen, call, depth>>

Calls == {"none", "begin", "transmit", "end"}
PCs == {"out", "load", "store", "lock", "mark", "dispatch",
        "unload", "unstore", "test", "unmark", "unlock"}

Init ==
  /\ cnt = [o \in Objects |-> 0]
  /\ isJustStarted = [o \in Objects |-> FALSE]
  /\ hMutex = [n \in Names |-> NoThread]
  /\ pc = [t \in Threads |-> "out"]
  /\ seen = [t \in Threads |-> 0]
  /\ call = [t \in Threads |-> "none"]
  /\ depth = [t \in Threads |-> 0]

Mutex(t) == nameOf[objectOf[t]]

Goto(t, from, to) ==
  /\ pc[t] = from
  /\ pc' = [pc EXCEPT ![t] = to]

-----------------------------------------------------------------------------
(* The calls of the application *)

Call(t, c, to) ==
  /\ Goto(t, "out", to)
  /\ call' = [call EXCEPT ![t] = c]
  /\ UNCHANGED <<cnt, isJustStarted, hMutex, seen, depth>>

beginTransaction(t) == depth[t] < MaxDepth /\ Call(t, "begin", "load")

transmit(t) == Call(t, "transmit", "load")

endTransaction(t) == depth[t] > 0 /\ Call(t, "end", "unload")

\* justStarted(), asked before a command goes to the physical card.
firstTimeInTransaction(t) ==
  /\ pc[t] = "out"
  /\ isJustStarted[objectOf[t]]
  /\ isJustStarted' = [isJustStarted EXCEPT ![objectOf[t]] = FALSE]
  /\ UNCHANGED <<cnt, hMutex, pc, seen, call, depth>>

Return(t, from) ==
  /\ Goto(t, from, "out")
  /\ call' = [call EXCEPT ![t] = "none"]

\* aquire() returns: a begin is done, a transmit goes on to its command.
Aquired(t, from) ==
  IF call[t] = "begin"
  THEN /\ Return(t, from)
       /\ depth' = [depth EXCEPT ![t] = @ + 1]
  ELSE /\ Goto(t, from, "dispatch")
       /\ UNCHANGED <<call, depth>>

\* release() returns.
Released(t, from) ==
  /\ Return(t, from)
  /\ depth' = IF call[t] = "end" THEN [depth EXCEPT ![t] = @ - 1] ELSE depth

-----------------------------------------------------------------------------
(* Transaction::aquire() *)

LoadCnt(t, from, to) ==
  /\ Goto(t, from, to)
  /\ seen' = [seen EXCEPT ![t] = cnt[objectOf[t]]]
  /\ UNCHANGED <<cnt, isJustStarted, hMutex, call, depth>>

AquireLoad(t) == LoadCnt(t, "load", "store")

\* Mutants: cnt is tested after it has been counted up, and not tested at all.
AquireStoreThenTest(t) ==
  /\ cnt' = [cnt EXCEPT ![objectOf[t]] = seen[t] + 1]
  /\ IF seen[t] + 1 = 0 THEN Goto(t, "store", "lock") /\ UNCHANGED <<call, depth>>
                        ELSE Aquired(t, "store")
  /\ UNCHANGED <<isJustStarted, hMutex, seen>>

AquireStoreUntested(t) ==
  /\ cnt' = [cnt EXCEPT ![objectOf[t]] = seen[t] + 1]
  /\ Goto(t, "store", "lock")
  /\ UNCHANGED <<isJustStarted, hMutex, seen, call, depth>>

\* Only the thread that found 0 goes on to lock the mutex.
AquireStore(t) ==
  /\ cnt' = [cnt EXCEPT ![objectOf[t]] = seen[t] + 1]
  /\ IF seen[t] = 0 THEN Goto(t, "store", "lock") /\ UNCHANGED <<call, depth>>
                    ELSE Aquired(t, "store")
  /\ UNCHANGED <<isJustStarted, hMutex, seen>>

AquireLock(t) ==
  /\ hMutex[Mutex(t)] = NoThread
  /\ hMutex' = [hMutex EXCEPT ![Mutex(t)] = t]
  /\ Goto(t, "lock", "mark")
  /\ UNCHANGED <<cnt, isJustStarted, seen, call, depth>>

AquireMark(t) ==
  /\ isJustStarted' = [isJustStarted EXCEPT ![objectOf[t]] = TRUE]
  /\ Aquired(t, "mark")
  /\ UNCHANGED <<cnt, hMutex, seen>>

\* The body of SoftCard::transmit(), between aquire() and release().
Dispatch(t) ==
  /\ Goto(t, "dispatch", "unload")
  /\ UNCHANGED <<cnt, isJustStarted, hMutex, seen, call, depth>>

-----------------------------------------------------------------------------
(* Transaction::release() *)

ReleaseLoad(t) == LoadCnt(t, "unload", "unstore")

ReleaseStore(t) ==
  /\ cnt' = IF seen[t] > 0 THEN [cnt EXCEPT ![objectOf[t]] = seen[t] - 1] ELSE cnt
  /\ Goto(t, "unstore", "test")
  /\ UNCHANGED <<isJustStarted, hMutex, seen, call, depth>>

\* Mutant: cnt is counted down once more where it is tested.
ReleaseTestCounts(t) ==
  /\ cnt' = [cnt EXCEPT ![objectOf[t]] = @ - 1]
  /\ IF cnt[objectOf[t]] = 1 THEN Goto(t, "test", "unmark") /\ UNCHANGED <<call, depth>>
                             ELSE Released(t, "test")
  /\ UNCHANGED <<isJustStarted, hMutex, seen>>

\* cnt is read again.
ReleaseTest(t) ==
  /\ IF cnt[objectOf[t]] = 0 THEN Goto(t, "test", "unmark") /\ UNCHANGED <<call, depth>>
                             ELSE Released(t, "test")
  /\ UNCHANGED <<cnt, isJustStarted, hMutex, seen>>

\* Mutant: the mark is left.
ReleaseUnmarkForgotten(t) ==
  /\ Goto(t, "unmark", "unlock")
  /\ UNCHANGED <<cnt, isJustStarted, hMutex, seen, call, depth>>

ReleaseUnmark(t) ==
  /\ isJustStarted' = [isJustStarted EXCEPT ![objectOf[t]] = FALSE]
  /\ Goto(t, "unmark", "unlock")
  /\ UNCHANGED <<cnt, hMutex, seen, call, depth>>

\* pthread_mutex_unlock(): a default mutex on Linux is freed whoever locked it.
ReleaseUnlock(t) ==
  /\ hMutex' = [hMutex EXCEPT ![Mutex(t)] = NoThread]
  /\ Released(t, "unlock")
  /\ UNCHANGED <<cnt, isJustStarted, seen>>

-----------------------------------------------------------------------------
aquire(t) == AquireLoad(t) \/ AquireStore(t) \/ AquireLock(t) \/ AquireMark(t)

release(t) ==
  ReleaseLoad(t) \/ ReleaseStore(t) \/ ReleaseTest(t) \/ ReleaseUnmark(t) \/ ReleaseUnlock(t)

Inside(t) == aquire(t) \/ Dispatch(t) \/ release(t)

Next ==
  \E t \in Threads :
    \/ beginTransaction(t) \/ transmit(t) \/ endTransaction(t) \/ firstTimeInTransaction(t)
    \/ Inside(t)

Spec == Init /\ [][Next]_vars

\* Threads are scheduled, and an application ends the transactions it begins, the
\* outermost one too, whatever it sends in between.  A system mutex promises no order
\* among the threads that wait for it, so nothing is said of one thread's wait.
Fairness ==
  \A t \in Threads : /\ WF_vars(Inside(t))
                     /\ SF_vars(endTransaction(t))
                     /\ SF_vars(depth[t] = 1 /\ endTransaction(t))

FairSpec == Spec /\ Fairness

-----------------------------------------------------------------------------
TypeOK ==
  /\ cnt \in [Objects -> Nat]
  /\ isJustStarted \in [Objects -> BOOLEAN]
  /\ hMutex \in [Names -> Threads \union {NoThread}]
  /\ pc \in [Threads -> PCs]
  /\ seen \in [Threads -> Nat]
  /\ call \in [Threads -> Calls]
  /\ depth \in [Threads -> Nat]

\* Thread t has the card to itself: it is in a transaction whose end it has not asked
\* for, or in a command.
HasCard(t) ==
  \/ depth[t] > 0 /\ call[t] # "end"
  \/ depth[t] > 1
  \/ pc[t] = "dispatch"

\* "The other non-sleeping thread is supposed to wait on this sleeping thread"
\* (eidinfratest/SoftReaderManagerTest.cpp:39): a thread neither begins a transaction
\* nor executes a command while another thread is in a transaction.
OneThreadInTransaction ==
  \A t, u \in Threads : HasCard(t) /\ HasCard(u) => t = u

\* Once every transaction has been ended and every call has returned, the object is
\* as it was constructed: no mutex stays locked, no count stays up, and no mark is left
\* that would make a later command outside any transaction select a file on the
\* physical card (Transaction.cpp:67-93).
BackToStart ==
  (\A t \in Threads : pc[t] = "out" /\ depth[t] = 0)
    => /\ \A o \in Objects : cnt[o] = 0 /\ ~isJustStarted[o]
       /\ \A n \in Names : hMutex[n] = NoThread

\* "unblocked" (SoftReaderManagerTest.cpp:63): while a thread waits for the mutex,
\* some thread gets it.  That a second thread's SCardBeginTransaction() does not hang is
\* also what sharing one card handle is for (WinscardImpl.cpp:629-637).
Unblocked ==
  (\E t \in Threads : pc[t] = "lock") ~> (\E t \in Threads : pc[t] = "mark")
==============================================================================
