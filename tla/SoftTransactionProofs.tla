------------------------ MODULE SoftTransactionProofs -------------------------
(***************************************************************************)
(* Proofs about SoftTransaction for the threads that have a SoftCard each, *)
(* for any number of threads, of system mutexes and of nested              *)
(* transactions, whatever the interleaving.                                *)
(***************************************************************************)
EXTENDS SoftTransaction, TLAPS

\* Each thread uses a Transaction of its own.
OwnObject == \A t, u \in Threads : objectOf[t] = objectOf[u] => t = u

\* The count, what a thread remembers of it and its mark, at each place a thread can be.
Local(t) ==
  /\ pc[t] = "out" => call[t] = "none" /\ cnt[objectOf[t]] = depth[t]
  /\ pc[t] \in {"load", "store"} =>
       call[t] \in {"begin", "transmit"} /\ cnt[objectOf[t]] = depth[t]
  /\ pc[t] \in {"store", "unstore"} => seen[t] = cnt[objectOf[t]]
  /\ pc[t] \in {"lock", "mark"} =>
       call[t] \in {"begin", "transmit"} /\ depth[t] = 0 /\ cnt[objectOf[t]] = 1
  /\ pc[t] = "dispatch" => call[t] = "transmit" /\ cnt[objectOf[t]] = depth[t] + 1
  /\ pc[t] \in {"unload", "unstore"} =>
       \/ call[t] = "transmit" /\ cnt[objectOf[t]] = depth[t] + 1
       \/ call[t] = "end" /\ depth[t] > 0 /\ cnt[objectOf[t]] = depth[t]
  /\ pc[t] = "test" =>
       \/ call[t] = "transmit" /\ cnt[objectOf[t]] = depth[t]
       \/ call[t] = "end" /\ depth[t] > 0 /\ cnt[objectOf[t]] = depth[t] - 1
  /\ pc[t] \in {"unmark", "unlock"} =>
       /\ cnt[objectOf[t]] = 0
       /\ \/ call[t] = "transmit" /\ depth[t] = 0
          \/ call[t] = "end" /\ depth[t] = 1
  /\ cnt[objectOf[t]] = 0 /\ pc[t] \notin {"test", "unmark"} => ~isJustStarted[objectOf[t]]

\* Where a thread has the mutex of its object.
Holds(t) ==
  \/ cnt[objectOf[t]] > 0 /\ pc[t] # "lock"
  \/ pc[t] \in {"test", "unmark", "unlock"}

LocalInv == \A t \in Threads : Local(t)

\* The mutex is with the thread that is where one has it.
HolderInv ==
  /\ \A t \in Threads : Holds(t) <=> hMutex[Mutex(t)] = t
  /\ \A n \in Names, t \in Threads : hMutex[n] = t => n = Mutex(t)

\* An object no thread uses stays as it was constructed.
UnusedInv ==
  \A o \in Objects : (\A t \in Threads : objectOf[t] # o) => cnt[o] = 0 /\ ~isJustStarted[o]

IInv == TypeOK /\ LocalInv /\ HolderInv /\ UnusedInv

\* What a step of t leaves alone.
Frame(t) ==
  /\ \A u \in Threads \ {t} :
       pc'[u] = pc[u] /\ seen'[u] = seen[u] /\ call'[u] = call[u] /\ depth'[u] = depth[u]
  /\ \A o \in Objects \ {objectOf[t]} :
       cnt'[o] = cnt[o] /\ isJustStarted'[o] = isJustStarted[o]

\* What a step of t does with the mutex: nothing, lock it or free it.
MutexStep(t) ==
  \/ hMutex' = hMutex /\ (Holds(t)' <=> Holds(t))
  \/ /\ hMutex[Mutex(t)] = NoThread
     /\ hMutex' = [hMutex EXCEPT ![Mutex(t)] = t]
     /\ Holds(t)'
  \/ /\ Holds(t) /\ ~Holds(t)'
     /\ hMutex' = [hMutex EXCEPT ![Mutex(t)] = NoThread]

-----------------------------------------------------------------------------
\* The object of a thread and its mutex are what their names say.
LEMMA MutexType ==
  ASSUME NEW t \in Threads
  PROVE  objectOf[t] \in Objects /\ Mutex(t) \in Names
BY ConstantsAssumption DEF Mutex

\* It holds when the objects are constructed.
LEMMA InitIInv == Init => IInv
<1> SUFFICES ASSUME Init PROVE IInv
  OBVIOUS
<1>1. TypeOK
  BY DEF Init, TypeOK, PCs, Calls
<1>2. LocalInv /\ HolderInv /\ UnusedInv
  BY MutexType, ConstantsAssumption
     DEF Init, LocalInv, Local, HolderInv, Holds, UnusedInv
<1> QED BY <1>1, <1>2 DEF IInv

\* A step of t that respects the frame, keeps t's own part and uses the mutex as it
\* should preserves the invariant.
LEMMA Combine ==
  ASSUME OwnObject, IInv, NEW t \in Threads,
         TypeOK', Frame(t), Local(t)', MutexStep(t)
  PROVE  IInv'
<1>1. ASSUME NEW u \in Threads, u # t
      PROVE  (Local(u)' <=> Local(u)) /\ (Holds(u)' <=> Holds(u))
  <2>1. objectOf[u] \in Objects \ {objectOf[t]} /\ u \in Threads \ {t}
    BY <1>1, MutexType DEF OwnObject
  <2>2. /\ pc'[u] = pc[u] /\ seen'[u] = seen[u] /\ call'[u] = call[u] /\ depth'[u] = depth[u]
        /\ cnt'[objectOf[u]] = cnt[objectOf[u]]
        /\ isJustStarted'[objectOf[u]] = isJustStarted[objectOf[u]]
    BY <2>1 DEF Frame
  <2> QED BY <2>2 DEF Local, Holds
<1>2. LocalInv'
  BY <1>1 DEF IInv, LocalInv
<1>3. UnusedInv'
  BY DEF IInv, UnusedInv, Frame
<1>4. HolderInv'
  <2>1. hMutex \in [Names -> Threads \union {NoThread}] /\ Mutex(t) \in Names /\ NoThread \notin Threads
    BY MutexType, ConstantsAssumption DEF IInv, TypeOK
  <2>2. CASE hMutex' = hMutex /\ (Holds(t)' <=> Holds(t))
    BY <1>1, <2>2 DEF IInv, HolderInv, Mutex
  <2>3. CASE /\ hMutex[Mutex(t)] = NoThread
             /\ hMutex' = [hMutex EXCEPT ![Mutex(t)] = t]
             /\ Holds(t)'
    <3>1. \A n \in Names : hMutex'[n] = IF n = Mutex(t) THEN t ELSE hMutex[n]
      BY <2>1, <2>3
    <3>2. ASSUME NEW u \in Threads PROVE Holds(u)' <=> hMutex'[Mutex(u)] = u
      BY <1>1, <2>1, <2>3, <3>1, MutexType DEF IInv, HolderInv
    <3>3. \A n \in Names, u \in Threads : hMutex'[n] = u => n = Mutex(u)
      BY <3>1 DEF IInv, HolderInv
    <3> QED BY <3>2, <3>3 DEF HolderInv, Mutex
  <2>4. CASE /\ Holds(t) /\ ~Holds(t)'
             /\ hMutex' = [hMutex EXCEPT ![Mutex(t)] = NoThread]
    <3>1. \A n \in Names : hMutex'[n] = IF n = Mutex(t) THEN NoThread ELSE hMutex[n]
      BY <2>1, <2>4
    <3>2. ASSUME NEW u \in Threads PROVE Holds(u)' <=> hMutex'[Mutex(u)] = u
      BY <1>1, <2>1, <2>4, <3>1, MutexType DEF IInv, HolderInv
    <3>3. \A n \in Names, u \in Threads : hMutex'[n] = u => n = Mutex(u)
      BY <2>1, <3>1 DEF IInv, HolderInv
    <3> QED BY <3>2, <3>3 DEF HolderInv, Mutex
  <2> QED BY <2>2, <2>3, <2>4 DEF MutexStep
<1> QED BY <1>2, <1>3, <1>4 DEF IInv

-----------------------------------------------------------------------------
(* The steps of one thread *)

\* What a step of t may use of the invariant.
LEMMA Facts ==
  ASSUME IInv, NEW t \in Threads
  PROVE  /\ TypeOK /\ Local(t) /\ objectOf[t] \in Objects /\ Mutex(t) \in Names
         /\ NoThread \notin Threads
         /\ cnt[objectOf[t]] \in Nat /\ depth[t] \in Nat /\ seen[t] \in Nat
         /\ pc[t] \in PCs /\ call[t] \in Calls
         /\ Holds(t) <=> hMutex[Mutex(t)] = t
BY MutexType, ConstantsAssumption DEF IInv, LocalInv, HolderInv, TypeOK

\* A call starts.
LEMMA CallStep ==
  ASSUME OwnObject, IInv, NEW t \in Threads,
         beginTransaction(t) \/ transmit(t) \/ endTransaction(t)
  PROVE  IInv'
<1>1. PICK c \in Calls, to \in PCs :
        /\ Call(t, c, to)
        /\ to = "load" => c \in {"begin", "transmit"}
        /\ to # "load" => to = "unload" /\ c = "end" /\ depth[t] > 0
  BY DEF beginTransaction, transmit, endTransaction, PCs, Calls
<1>2. /\ pc[t] = "out" /\ pc' = [pc EXCEPT ![t] = to] /\ call' = [call EXCEPT ![t] = c]
      /\ UNCHANGED <<cnt, isJustStarted, hMutex, seen, depth>>
  BY <1>1 DEF Call, Goto
<1>3. TypeOK'
  BY <1>2 DEF IInv, TypeOK
<1>4. Frame(t)
  BY <1>2 DEF Frame, IInv, TypeOK
<1>5. pc'[t] = to /\ call'[t] = c
  BY <1>2 DEF IInv, TypeOK
<1>6. Local(t)' /\ (Holds(t)' <=> Holds(t))
  BY <1>1, <1>2, <1>5, Facts DEF Local, Holds
<1> QED BY <1>2, <1>3, <1>4, <1>6, Combine DEF MutexStep

\* The mark is used up.
LEMMA FirstTimeStep ==
  ASSUME OwnObject, IInv, NEW t \in Threads, firstTimeInTransaction(t)
  PROVE  IInv'
<1> DEFINE o == objectOf[t]
<1>1. /\ pc[t] = "out"
      /\ isJustStarted' = [isJustStarted EXCEPT ![o] = FALSE]
      /\ UNCHANGED <<cnt, hMutex, pc, seen, call, depth>>
  BY Facts DEF firstTimeInTransaction
<1>2. TypeOK'
  BY <1>1, Facts DEF TypeOK, PCs, Calls
<1>3. Frame(t)
  BY <1>1, Facts DEF Frame, TypeOK
<1>4. ~isJustStarted'[o]
  BY <1>1, Facts DEF TypeOK
<1>5. Local(t)'
  BY <1>1, <1>4, Facts DEF Local, Calls
<1>6. MutexStep(t)
  BY <1>1, <1>4, Facts DEF MutexStep, Holds, Local
<1> QED BY <1>2, <1>3, <1>5, <1>6, Combine

\* aquire() reads the count.
LEMMA AquireLoadStep ==
  ASSUME OwnObject, IInv, NEW t \in Threads, AquireLoad(t)
  PROVE  IInv'
<1> DEFINE o == objectOf[t]
<1>1. /\ pc[t] = "load" /\ pc' = [pc EXCEPT ![t] = "store"]
      /\ seen' = [seen EXCEPT ![t] = cnt[o]]
      /\ UNCHANGED <<cnt, isJustStarted, hMutex, call, depth>>
  BY Facts DEF AquireLoad, LoadCnt, Goto
<1>2. TypeOK'
  BY <1>1, Facts DEF TypeOK, PCs, Calls
<1>3. Frame(t)
  BY <1>1, Facts DEF Frame, TypeOK
<1>4. pc'[t] = "store" /\ seen'[t] = cnt[o]
  BY <1>1, Facts DEF TypeOK
<1>5. Local(t)'
  BY <1>1, <1>4, Facts DEF Local, Calls
<1>6. MutexStep(t)
  BY <1>1, <1>4, Facts DEF MutexStep, Holds, Local
<1> QED BY <1>2, <1>3, <1>5, <1>6, Combine

\* release() reads the count.
LEMMA ReleaseLoadStep ==
  ASSUME OwnObject, IInv, NEW t \in Threads, ReleaseLoad(t)
  PROVE  IInv'
<1> DEFINE o == objectOf[t]
<1>1. /\ pc[t] = "unload" /\ pc' = [pc EXCEPT ![t] = "unstore"]
      /\ seen' = [seen EXCEPT ![t] = cnt[o]]
      /\ UNCHANGED <<cnt, isJustStarted, hMutex, call, depth>>
  BY Facts DEF ReleaseLoad, LoadCnt, Goto
<1>2. TypeOK'
  BY <1>1, Facts DEF TypeOK, PCs, Calls
<1>3. Frame(t)
  BY <1>1, Facts DEF Frame, TypeOK
<1>4. pc'[t] = "unstore" /\ seen'[t] = cnt[o]
  BY <1>1, Facts DEF TypeOK
<1>5. Local(t)'
  BY <1>1, <1>4, Facts DEF Local, Calls
<1>6. MutexStep(t)
  BY <1>1, <1>4, Facts DEF MutexStep, Holds, Local
<1> QED BY <1>2, <1>3, <1>5, <1>6, Combine

\* The outermost aquire() locks the mutex.
LEMMA AquireLockStep ==
  ASSUME OwnObject, IInv, NEW t \in Threads, AquireLock(t)
  PROVE  IInv'
<1> DEFINE o == objectOf[t]
<1>1. /\ pc[t] = "lock" /\ pc' = [pc EXCEPT ![t] = "mark"]
      /\ hMutex[Mutex(t)] = NoThread /\ hMutex' = [hMutex EXCEPT ![Mutex(t)] = t]
      /\ UNCHANGED <<cnt, isJustStarted, seen, call, depth>>
  BY Facts DEF AquireLock, Goto
<1>2. TypeOK'
  BY <1>1, Facts DEF TypeOK, PCs, Calls
<1>3. Frame(t)
  BY <1>1, Facts DEF Frame, TypeOK
<1>4. pc'[t] = "mark"
  BY <1>1, Facts DEF TypeOK
<1>5. Local(t)'
  BY <1>1, <1>4, Facts DEF Local, Calls
<1>6. MutexStep(t)
  BY <1>1, <1>4, Facts DEF MutexStep, Holds, Local
<1> QED BY <1>2, <1>3, <1>5, <1>6, Combine

\* The command is executed.
LEMMA DispatchStep ==
  ASSUME OwnObject, IInv, NEW t \in Threads, Dispatch(t)
  PROVE  IInv'
<1> DEFINE o == objectOf[t]
<1>1. /\ pc[t] = "dispatch" /\ pc' = [pc EXCEPT ![t] = "unload"]
      /\ UNCHANGED <<cnt, isJustStarted, hMutex, seen, call, depth>>
  BY Facts DEF Dispatch, Goto
<1>2. TypeOK'
  BY <1>1, Facts DEF TypeOK, PCs, Calls
<1>3. Frame(t)
  BY <1>1, Facts DEF Frame, TypeOK
<1>4. pc'[t] = "unload"
  BY <1>1, Facts DEF TypeOK
<1>5. Local(t)'
  BY <1>1, <1>4, Facts DEF Local, Calls
<1>6. MutexStep(t)
  BY <1>1, <1>4, Facts DEF MutexStep, Holds, Local
<1> QED BY <1>2, <1>3, <1>5, <1>6, Combine

\* release() counts one less.
LEMMA ReleaseStoreStep ==
  ASSUME OwnObject, IInv, NEW t \in Threads, ReleaseStore(t)
  PROVE  IInv'
<1> DEFINE o == objectOf[t]
<1>1. /\ pc[t] = "unstore" /\ pc' = [pc EXCEPT ![t] = "test"]
      /\ seen[t] = cnt[o] /\ cnt[o] > 0 /\ cnt' = [cnt EXCEPT ![o] = cnt[o] - 1]
      /\ UNCHANGED <<isJustStarted, hMutex, seen, call, depth>>
  <2>1. pc[t] = "unstore" /\ seen[t] = cnt[o] /\ cnt[o] > 0
    BY Facts DEF ReleaseStore, Goto, Local
  <2> HIDE DEF o
  <2> QED BY <2>1 DEF ReleaseStore, Goto, o
<1>2. TypeOK'
  BY <1>1, Facts DEF TypeOK, PCs, Calls
<1>3. Frame(t)
  BY <1>1, Facts DEF Frame, TypeOK
<1>4. pc'[t] = "test" /\ cnt'[o] = cnt[o] - 1
  BY <1>1, Facts DEF TypeOK
<1>5. Local(t)'
  BY <1>1, <1>4, Facts DEF Local, Calls
<1>6. MutexStep(t)
  BY <1>1, <1>4, Facts DEF MutexStep, Holds, Local
<1> QED BY <1>2, <1>3, <1>5, <1>6, Combine

\* The outermost release() takes the mark away.
LEMMA ReleaseUnmarkStep ==
  ASSUME OwnObject, IInv, NEW t \in Threads, ReleaseUnmark(t)
  PROVE  IInv'
<1> DEFINE o == objectOf[t]
<1>1. /\ pc[t] = "unmark" /\ pc' = [pc EXCEPT ![t] = "unlock"]
      /\ isJustStarted' = [isJustStarted EXCEPT ![o] = FALSE]
      /\ UNCHANGED <<cnt, hMutex, seen, call, depth>>
  BY Facts DEF ReleaseUnmark, Goto
<1>2. TypeOK'
  BY <1>1, Facts DEF TypeOK, PCs, Calls
<1>3. Frame(t)
  BY <1>1, Facts DEF Frame, TypeOK
<1>4. pc'[t] = "unlock" /\ ~isJustStarted'[o]
  BY <1>1, Facts DEF TypeOK
<1>5. Local(t)'
  BY <1>1, <1>4, Facts DEF Local, Calls
<1>6. MutexStep(t)
  BY <1>1, <1>4, Facts DEF MutexStep, Holds, Local
<1> QED BY <1>2, <1>3, <1>5, <1>6, Combine

\* aquire() counts one more; only the first locks the mutex.
LEMMA AquireStoreStep ==
  ASSUME OwnObject, IInv, NEW t \in Threads, AquireStore(t)
  PROVE  IInv'
<1> DEFINE o == objectOf[t]
<1>0. pc[t] = "store" /\ seen[t] = cnt[objectOf[t]]
  <2>1. pc[t] = "store"
    BY Facts DEF AquireStore, Goto, Aquired, Return
  <2> QED BY <2>1, Facts DEF Local
<1>1. CASE cnt[objectOf[t]] = 0
  <2>1. /\ pc[t] = "store" /\ pc' = [pc EXCEPT ![t] = "lock"] /\ cnt' = [cnt EXCEPT ![o] = 1]
        /\ UNCHANGED <<isJustStarted, hMutex, seen, call, depth>>
    BY <1>0, <1>1, Facts DEF AquireStore, Goto, Aquired, Return
  <2>2. TypeOK'
    BY <2>1, Facts DEF TypeOK, PCs, Calls
  <2>3. Frame(t)
    BY <2>1, Facts DEF Frame, TypeOK
  <2>4. pc'[t] = "lock" /\ cnt'[o] = 1
    BY <2>1, Facts DEF TypeOK
  <2>5. Local(t)'
    BY <1>1, <2>1, <2>4, Facts DEF Local, Calls
  <2>6. MutexStep(t)
    BY <1>1, <2>1, <2>4, Facts DEF MutexStep, Holds, Local
  <2> QED BY <2>2, <2>3, <2>5, <2>6, Combine
<1>2. CASE cnt[objectOf[t]] > 0 /\ call[t] = "begin"
  <2>1. /\ pc[t] = "store" /\ pc' = [pc EXCEPT ![t] = "out"] /\ call' = [call EXCEPT ![t] = "none"]
        /\ cnt' = [cnt EXCEPT ![o] = cnt[o] + 1] /\ depth' = [depth EXCEPT ![t] = depth[t] + 1]
        /\ UNCHANGED <<isJustStarted, hMutex, seen>>
    BY <1>0, <1>2, Facts DEF AquireStore, Goto, Aquired, Return
  <2>2. TypeOK'
    BY <2>1, Facts DEF TypeOK, PCs, Calls
  <2>3. Frame(t)
    BY <2>1, Facts DEF Frame, TypeOK
  <2>4. /\ pc'[t] = "out" /\ call'[t] = "none" /\ cnt'[o] = cnt[o] + 1
        /\ depth'[t] = depth[t] + 1
    BY <2>1, Facts DEF TypeOK
  <2>5. Local(t)'
    BY <1>2, <2>1, <2>4, Facts DEF Local, Calls
  <2>6. MutexStep(t)
    BY <1>2, <2>1, <2>4, Facts DEF MutexStep, Holds, Local
  <2> QED BY <2>2, <2>3, <2>5, <2>6, Combine
<1>3. CASE cnt[objectOf[t]] > 0 /\ call[t] = "transmit"
  <2>1. /\ pc[t] = "store" /\ pc' = [pc EXCEPT ![t] = "dispatch"]
        /\ cnt' = [cnt EXCEPT ![o] = cnt[o] + 1]
        /\ UNCHANGED <<isJustStarted, hMutex, seen, call, depth>>
    BY <1>0, <1>3, Facts DEF AquireStore, Goto, Aquired, Return
  <2>2. TypeOK'
    BY <2>1, Facts DEF TypeOK, PCs, Calls
  <2>3. Frame(t)
    BY <2>1, Facts DEF Frame, TypeOK
  <2>4. pc'[t] = "dispatch" /\ cnt'[o] = cnt[o] + 1
    BY <2>1, Facts DEF TypeOK
  <2>5. Local(t)'
    BY <1>3, <2>1, <2>4, Facts DEF Local, Calls
  <2>6. MutexStep(t)
    BY <1>3, <2>1, <2>4, Facts DEF MutexStep, Holds, Local
  <2> QED BY <2>2, <2>3, <2>5, <2>6, Combine
<1> QED BY <1>0, <1>1, <1>2, <1>3, Facts DEF Local

\* The outermost aquire() leaves its mark.
LEMMA AquireMarkStep ==
  ASSUME OwnObject, IInv, NEW t \in Threads, AquireMark(t)
  PROVE  IInv'
<1> DEFINE o == objectOf[t]
<1>1. CASE call[t] = "begin"
  <2>1. /\ pc[t] = "mark" /\ pc' = [pc EXCEPT ![t] = "out"] /\ call' = [call EXCEPT ![t] = "none"]
        /\ isJustStarted' = [isJustStarted EXCEPT ![o] = TRUE]
        /\ depth' = [depth EXCEPT ![t] = depth[t] + 1]
        /\ UNCHANGED <<cnt, hMutex, seen>>
    BY <1>1, Facts DEF AquireMark, Goto, Aquired, Return
  <2>2. TypeOK'
    BY <2>1, Facts DEF TypeOK, PCs, Calls
  <2>3. Frame(t)
    BY <2>1, Facts DEF Frame, TypeOK
  <2>4. pc'[t] = "out" /\ call'[t] = "none" /\ depth'[t] = depth[t] + 1
    BY <2>1, Facts DEF TypeOK
  <2>5. Local(t)'
    BY <1>1, <2>1, <2>4, Facts DEF Local, Calls
  <2>6. MutexStep(t)
    BY <1>1, <2>1, <2>4, Facts DEF MutexStep, Holds, Local
  <2> QED BY <2>2, <2>3, <2>5, <2>6, Combine
<1>2. CASE call[t] = "transmit"
  <2>1. /\ pc[t] = "mark" /\ pc' = [pc EXCEPT ![t] = "dispatch"]
        /\ isJustStarted' = [isJustStarted EXCEPT ![o] = TRUE]
        /\ UNCHANGED <<cnt, hMutex, seen, call, depth>>
    BY <1>2, Facts DEF AquireMark, Goto, Aquired, Return
  <2>2. TypeOK'
    BY <2>1, Facts DEF TypeOK, PCs, Calls
  <2>3. Frame(t)
    BY <2>1, Facts DEF Frame, TypeOK
  <2>4. pc'[t] = "dispatch"
    BY <2>1, Facts DEF TypeOK
  <2>5. Local(t)'
    BY <1>2, <2>1, <2>4, Facts DEF Local, Calls
  <2>6. MutexStep(t)
    BY <1>2, <2>1, <2>4, Facts DEF MutexStep, Holds, Local
  <2> QED BY <2>2, <2>3, <2>5, <2>6, Combine
<1>3. pc[t] = "mark"
  BY DEF AquireMark, Goto, Aquired, Return
<1> QED BY <1>1, <1>2, <1>3, Facts DEF Local

\* release() returns unless it has counted down to 0.
LEMMA ReleaseTestStep ==
  ASSUME OwnObject, IInv, NEW t \in Threads, ReleaseTest(t)
  PROVE  IInv'
<1> DEFINE o == objectOf[t]
<1>1. CASE cnt[objectOf[t]] = 0
  <2>1. /\ pc[t] = "test" /\ pc' = [pc EXCEPT ![t] = "unmark"]
        /\ UNCHANGED <<cnt, isJustStarted, hMutex, seen, call, depth>>
    BY <1>1, Facts DEF ReleaseTest, Goto, Released, Return
  <2>2. TypeOK'
    BY <2>1, Facts DEF TypeOK, PCs, Calls
  <2>3. Frame(t)
    BY <2>1, Facts DEF Frame, TypeOK
  <2>4. pc'[t] = "unmark"
    BY <2>1, Facts DEF TypeOK
  <2>5. Local(t)'
    BY <1>1, <2>1, <2>4, Facts DEF Local, Calls
  <2>6. MutexStep(t)
    BY <1>1, <2>1, <2>4, Facts DEF MutexStep, Holds, Local
  <2> QED BY <2>2, <2>3, <2>5, <2>6, Combine
<1>2. CASE cnt[objectOf[t]] > 0 /\ call[t] = "end"
  <2>1. /\ pc[t] = "test" /\ pc' = [pc EXCEPT ![t] = "out"] /\ call' = [call EXCEPT ![t] = "none"]
        /\ depth[t] > 0 /\ depth' = [depth EXCEPT ![t] = depth[t] - 1]
        /\ UNCHANGED <<cnt, isJustStarted, hMutex, seen>>
    BY <1>2, Facts DEF ReleaseTest, Goto, Released, Return, Local
  <2>2. TypeOK'
    BY <2>1, Facts DEF TypeOK, PCs, Calls
  <2>3. Frame(t)
    BY <2>1, Facts DEF Frame, TypeOK
  <2>4. pc'[t] = "out" /\ call'[t] = "none" /\ depth'[t] = depth[t] - 1
    BY <2>1, Facts DEF TypeOK
  <2>5. Local(t)'
    BY <1>2, <2>1, <2>4, Facts DEF Local, Calls
  <2>6. MutexStep(t)
    BY <1>2, <2>1, <2>4, Facts DEF MutexStep, Holds, Local
  <2> QED BY <2>2, <2>3, <2>5, <2>6, Combine
<1>3. CASE cnt[objectOf[t]] > 0 /\ call[t] = "transmit"
  <2>1. /\ pc[t] = "test" /\ pc' = [pc EXCEPT ![t] = "out"] /\ call' = [call EXCEPT ![t] = "none"]
        /\ UNCHANGED <<cnt, isJustStarted, hMutex, seen, depth>>
    BY <1>3, Facts DEF ReleaseTest, Goto, Released, Return
  <2>2. TypeOK'
    BY <2>1, Facts DEF TypeOK, PCs, Calls
  <2>3. Frame(t)
    BY <2>1, Facts DEF Frame, TypeOK
  <2>4. pc'[t] = "out" /\ call'[t] = "none"
    BY <2>1, Facts DEF TypeOK
  <2>5. Local(t)'
    BY <1>3, <2>1, <2>4, Facts DEF Local, Calls
  <2>6. MutexStep(t)
    BY <1>3, <2>1, <2>4, Facts DEF MutexStep, Holds, Local
  <2> QED BY <2>2, <2>3, <2>5, <2>6, Combine
<1>4. pc[t] = "test"
  BY DEF ReleaseTest, Goto, Released, Return
<1> QED BY <1>1, <1>2, <1>3, <1>4, Facts DEF Local

\* The outermost release() frees the mutex.
LEMMA ReleaseUnlockStep ==
  ASSUME OwnObject, IInv, NEW t \in Threads, ReleaseUnlock(t)
  PROVE  IInv'
<1> DEFINE o == objectOf[t]
<1>1. CASE call[t] = "end"
  <2>1. /\ pc[t] = "unlock" /\ pc' = [pc EXCEPT ![t] = "out"] /\ call' = [call EXCEPT ![t] = "none"]
        /\ hMutex' = [hMutex EXCEPT ![Mutex(t)] = NoThread]
        /\ depth[t] = 1 /\ depth' = [depth EXCEPT ![t] = depth[t] - 1]
        /\ UNCHANGED <<cnt, isJustStarted, seen>>
    BY <1>1, Facts DEF ReleaseUnlock, Goto, Released, Return, Local
  <2>2. TypeOK'
    BY <2>1, Facts DEF TypeOK, PCs, Calls
  <2>3. Frame(t)
    BY <2>1, Facts DEF Frame, TypeOK
  <2>4. pc'[t] = "out" /\ call'[t] = "none" /\ depth'[t] = 0
    BY <2>1, Facts DEF TypeOK
  <2>5. Local(t)'
    BY <1>1, <2>1, <2>4, Facts DEF Local, Calls
  <2>6. MutexStep(t)
    BY <1>1, <2>1, <2>4, Facts DEF MutexStep, Holds, Local
  <2> QED BY <2>2, <2>3, <2>5, <2>6, Combine
<1>2. CASE call[t] = "transmit"
  <2>1. /\ pc[t] = "unlock" /\ pc' = [pc EXCEPT ![t] = "out"] /\ call' = [call EXCEPT ![t] = "none"]
        /\ hMutex' = [hMutex EXCEPT ![Mutex(t)] = NoThread]
        /\ UNCHANGED <<cnt, isJustStarted, seen, depth>>
    BY <1>2, Facts DEF ReleaseUnlock, Goto, Released, Return
  <2>2. TypeOK'
    BY <2>1, Facts DEF TypeOK, PCs, Calls
  <2>3. Frame(t)
    BY <2>1, Facts DEF Frame, TypeOK
  <2>4. pc'[t] = "out" /\ call'[t] = "none"
    BY <2>1, Facts DEF TypeOK
  <2>5. Local(t)'
    BY <1>2, <2>1, <2>4, Facts DEF Local, Calls
  <2>6. MutexStep(t)
    BY <1>2, <2>1, <2>4, Facts DEF MutexStep, Holds, Local
  <2> QED BY <2>2, <2>3, <2>5, <2>6, Combine
<1>3. pc[t] = "unlock"
  BY DEF ReleaseUnlock, Goto, Released, Return
<1> QED BY <1>1, <1>2, <1>3, Facts DEF Local

\* Every step preserves the invariant.
LEMMA NextIInv ==
  ASSUME OwnObject
  PROVE  IInv /\ [Next]_vars => IInv'
<1> SUFFICES ASSUME IInv, [Next]_vars PROVE IInv'
  OBVIOUS
<1>1. CASE UNCHANGED vars
  BY <1>1 DEF vars, IInv, TypeOK, LocalInv, Local, HolderInv, Holds, UnusedInv, Mutex
<1>2. ASSUME NEW t \in Threads, aquire(t) PROVE IInv'
  BY <1>2, OwnObject, AquireLoadStep, AquireStoreStep, AquireLockStep, AquireMarkStep DEF aquire
<1>3. ASSUME NEW t \in Threads, release(t) PROVE IInv'
  BY <1>3, OwnObject, ReleaseLoadStep, ReleaseStoreStep, ReleaseTestStep, ReleaseUnmarkStep, ReleaseUnlockStep
     DEF release
<1>4. ASSUME NEW t \in Threads,
             beginTransaction(t) \/ transmit(t) \/ endTransaction(t)
      PROVE  IInv'
  BY <1>4, OwnObject, CallStep
<1>5. ASSUME NEW t \in Threads, firstTimeInTransaction(t) \/ Dispatch(t) PROVE IInv'
  BY <1>5, OwnObject, FirstTimeStep, DispatchStep
<1> QED BY <1>1, <1>2, <1>3, <1>4, <1>5 DEF Next, Inside

\* Threads with a SoftCard each: the invariant holds in every state.
THEOREM Invariance ==
  ASSUME OwnObject
  PROVE  Spec => []IInv
BY OwnObject, InitIInv, NextIInv, PTL DEF Spec

-----------------------------------------------------------------------------
\* What the types need of any threads, those that share an object too: only a
\* transaction that was begun is ended.
EndsBegun == \A t \in Threads : call[t] = "end" => depth[t] > 0

\* A step between two accesses of aquire() or release(), whatever the objects.
LEMMA TypeStep ==
  ASSUME TypeOK, EndsBegun, NEW t \in Threads, Inside(t)
  PROVE  (TypeOK /\ EndsBegun)'
<1>1. objectOf[t] \in Objects /\ Mutex(t) \in Names
  BY MutexType
<1>2. cnt[objectOf[t]] \in Nat /\ seen[t] \in Nat /\ depth[t] \in Nat
  BY <1>1 DEF TypeOK
<1>3. CASE AquireLoad(t) \/ ReleaseLoad(t)
  BY <1>2, <1>3 DEF AquireLoad, ReleaseLoad, LoadCnt, Goto, TypeOK, EndsBegun, PCs
<1>4. CASE AquireStore(t)
  <2>1. seen[t] + 1 \in Nat /\ cnt' = [cnt EXCEPT ![objectOf[t]] = seen[t] + 1]
    BY <1>2, <1>4 DEF AquireStore
  <2>2. cnt' \in [Objects -> Nat]
    BY <2>1 DEF TypeOK
  <2> QED BY <1>2, <1>4, <2>2
           DEF AquireStore, Aquired, Return, Goto, TypeOK, EndsBegun, PCs, Calls
<1>5. CASE AquireLock(t)
  BY <1>1, <1>5 DEF AquireLock, Goto, TypeOK, EndsBegun, PCs
<1>6. CASE AquireMark(t)
  BY <1>1, <1>2, <1>6 DEF AquireMark, Aquired, Return, Goto, TypeOK, EndsBegun, PCs, Calls
<1>7. CASE Dispatch(t)
  BY <1>7 DEF Dispatch, Goto, TypeOK, EndsBegun, PCs
<1>8. CASE ReleaseStore(t)
  <2>1. cnt' \in [Objects -> Nat]
    <3>1. CASE seen[t] > 0
      <4>1. seen[t] - 1 \in Nat /\ cnt' = [cnt EXCEPT ![objectOf[t]] = seen[t] - 1]
        BY <1>2, <1>8, <3>1 DEF ReleaseStore
      <4> QED BY <4>1 DEF TypeOK
    <3>2. CASE ~(seen[t] > 0)
      BY <1>8, <3>2 DEF ReleaseStore, TypeOK
    <3> QED BY <3>1, <3>2
  <2> QED BY <1>8, <2>1 DEF ReleaseStore, Goto, TypeOK, EndsBegun, PCs
<1>9. CASE ReleaseTest(t)
  BY <1>2, <1>9 DEF ReleaseTest, Released, Return, Goto, TypeOK, EndsBegun, PCs, Calls
<1>10. CASE ReleaseUnmark(t)
  BY <1>1, <1>10 DEF ReleaseUnmark, Goto, TypeOK, EndsBegun, PCs
<1>11. CASE ReleaseUnlock(t)
  BY <1>1, <1>2, <1>11 DEF ReleaseUnlock, Released, Return, Goto, TypeOK, EndsBegun, PCs, Calls
<1> QED BY <1>3, <1>4, <1>5, <1>6, <1>7, <1>8, <1>9, <1>10, <1>11 DEF Inside, aquire, release

\* Every variable keeps its type, for threads that share an object too.
THEOREM TypeCorrect == Spec => []TypeOK
<1>1. Init => TypeOK /\ EndsBegun
  BY DEF Init, TypeOK, EndsBegun, PCs, Calls
<1>2. TypeOK /\ EndsBegun /\ [Next]_vars => (TypeOK /\ EndsBegun)'
  <2> SUFFICES ASSUME TypeOK, EndsBegun, [Next]_vars PROVE (TypeOK /\ EndsBegun)'
    OBVIOUS
  <2>1. CASE UNCHANGED vars
    BY <2>1 DEF vars, TypeOK, EndsBegun
  <2>2. ASSUME NEW t \in Threads, beginTransaction(t) \/ transmit(t) \/ endTransaction(t)
        PROVE  (TypeOK /\ EndsBegun)'
    BY <2>2 DEF beginTransaction, transmit, endTransaction, Call, Goto,
                TypeOK, EndsBegun, PCs, Calls
  <2>3. ASSUME NEW t \in Threads, firstTimeInTransaction(t) PROVE (TypeOK /\ EndsBegun)'
    BY <2>3, MutexType DEF firstTimeInTransaction, TypeOK, EndsBegun
  <2>4. ASSUME NEW t \in Threads, Inside(t) PROVE (TypeOK /\ EndsBegun)'
    BY <2>4, TypeStep
  <2> QED BY <2>1, <2>2, <2>3, <2>4 DEF Next
<1> QED BY <1>1, <1>2, PTL DEF Spec

\* Threads that each have a SoftCard, of cards with one system mutex, exclude each other:
\* what one does in a transaction no other interrupts.
THEOREM OneThreadInTransactionHolds ==
  ASSUME OwnObject,
         \A n, m \in Names : n = m
  PROVE  Spec => []OneThreadInTransaction
<1>1. IInv => OneThreadInTransaction
  <2> SUFFICES ASSUME IInv, NEW t \in Threads, NEW u \in Threads, HasCard(t), HasCard(u)
               PROVE  t = u
    BY DEF OneThreadInTransaction
  <2>1. ASSUME NEW v \in Threads, HasCard(v) PROVE Holds(v)
    BY <2>1, Facts DEF HasCard, Holds, Local, PCs
  <2>2. hMutex[Mutex(t)] = t /\ hMutex[Mutex(u)] = u
    BY <2>1, Facts
  <2>3. Mutex(t) = Mutex(u)
    BY MutexType
  <2> QED BY <2>2, <2>3
<1> QED BY OwnObject, <1>1, Invariance, PTL

\* When every transaction has been ended and every call has returned, every Transaction
\* is as it was constructed and no mutex is locked.
THEOREM BackToStartHolds ==
  ASSUME OwnObject
  PROVE  Spec => []BackToStart
<1>1. IInv => BackToStart
  <2> SUFFICES ASSUME IInv, \A t \in Threads : pc[t] = "out" /\ depth[t] = 0
               PROVE  /\ \A o \in Objects : cnt[o] = 0 /\ ~isJustStarted[o]
                      /\ \A n \in Names : hMutex[n] = NoThread
    BY DEF BackToStart
  <2>1. ASSUME NEW t \in Threads
        PROVE  cnt[objectOf[t]] = 0 /\ ~isJustStarted[objectOf[t]] /\ ~Holds(t)
    BY Facts DEF Local, Holds
  <2>2. \A o \in Objects : cnt[o] = 0 /\ ~isJustStarted[o]
    BY <2>1 DEF IInv, UnusedInv
  <2>3. \A n \in Names : hMutex[n] = NoThread
    BY <2>1 DEF IInv, HolderInv, TypeOK
  <2> QED BY <2>2, <2>3
<1> QED BY OwnObject, <1>1, Invariance, PTL

-----------------------------------------------------------------------------
(* Nobody waits without a reason *)

\* Thread t will move the mutex on: it is in aquire() or release() and not at the lock,
\* or it is in a transaction that it has to end.
Moves(t) == pc[t] # "lock" /\ (pc[t] = "out" => depth[t] > 0)

\* What a wait rests on: the mutex a thread waits for is free, or with a thread that
\* does not wait itself and has a step to make or a transaction to end.
WaitsForOne ==
  \A t \in Threads : pc[t] = "lock" =>
    \/ hMutex[Mutex(t)] = NoThread
    \/ \E u \in Threads : hMutex[Mutex(t)] = u /\ Moves(u)

\* Threads with a SoftCard each are never all at the lock, and no mutex stays with a
\* thread that is outside every transaction.  Finding 2 (Unblocked) is what happens to
\* threads that share one.
THEOREM NobodyStuck ==
  ASSUME OwnObject
  PROVE  Spec => []WaitsForOne
<1>1. IInv => WaitsForOne
  <2> SUFFICES ASSUME IInv, NEW t \in Threads, hMutex[Mutex(t)] # NoThread
               PROVE  \E u \in Threads : hMutex[Mutex(t)] = u /\ Moves(u)
    BY DEF WaitsForOne
  <2>1. PICK u \in Threads : hMutex[Mutex(t)] = u
    BY Facts DEF TypeOK
  <2>2. Holds(u)
    BY <2>1, MutexType DEF IInv, HolderInv
  <2>3. Moves(u)
    BY <2>2, Facts DEF Holds, Moves, Local
  <2> QED BY <2>1, <2>3
<1> QED BY OwnObject, <1>1, Invariance, PTL

-----------------------------------------------------------------------------
(* Transactions are a lock *)

\* The calls a thread is inside of: its transactions, less the one it is ending, and
\* the command it is executing.
Had(t) ==
  (IF call[t] = "end" THEN depth[t] - 1 ELSE depth[t]) + (IF pc[t] = "dispatch" THEN 1 ELSE 0)

held == [t \in Threads |-> Had(t)]

Lock == INSTANCE ReentrantLock WITH depth <- held

\* A thread that is inside a call has the mutex.
HadHolds == \A t \in Threads : Had(t) \in Nat /\ (Had(t) > 0 => Holds(t))

LEMMA InsideHolds == IInv => HadHolds
<1> SUFFICES ASSUME IInv, NEW t \in Threads PROVE Had(t) \in Nat /\ (Had(t) > 0 => Holds(t))
  BY DEF HadHolds
<1>1. call[t] = "end" => depth[t] > 0
  BY Facts DEF Local, PCs
<1> QED BY <1>1, Facts DEF Had, Holds, Local, PCs

\* What a step of t does to the calls it is inside of: nothing, one more while it has
\* the mutex, one less.
HadStep(t) ==
  \/ Had(t)' = Had(t)
  \/ Had(t)' = Had(t) + 1 /\ Holds(t)'
  \/ Had(t) > 0 /\ Had(t)' = Had(t) - 1

\* The calls of the application: only the start of an end counts.
LEMMA CallHad ==
  ASSUME IInv, NEW t \in Threads,
         \/ beginTransaction(t) \/ transmit(t) \/ endTransaction(t)
         \/ firstTimeInTransaction(t)
  PROVE  HadStep(t)
<1>1. pc[t] = "out" /\ call[t] = "none" /\ depth[t] \in Nat /\ depth' = depth
  BY Facts DEF Local, beginTransaction, transmit, endTransaction, Call, Goto,
               firstTimeInTransaction
<1>2. CASE beginTransaction(t) \/ transmit(t)
  <2>1. pc'[t] = "load" /\ call'[t] \in {"begin", "transmit"}
    BY <1>2, Facts DEF beginTransaction, transmit, Call, Goto, TypeOK
  <2> QED BY <1>1, <2>1 DEF HadStep, Had
<1>3. CASE endTransaction(t)
  <2>1. pc'[t] = "unload" /\ call'[t] = "end" /\ depth[t] > 0
    BY <1>3, Facts DEF endTransaction, Call, Goto, TypeOK
  <2> QED BY <1>1, <2>1 DEF HadStep, Had
<1>4. CASE firstTimeInTransaction(t)
  BY <1>4 DEF firstTimeInTransaction, HadStep, Had
<1> QED BY <1>2, <1>3, <1>4

\* aquire(): the thread is inside when it has returned.
LEMMA AquireHad ==
  ASSUME IInv, NEW t \in Threads, aquire(t)
  PROVE  HadStep(t)
<1>1. CASE AquireLoad(t) \/ AquireLock(t)
  <2>1. pc[t] # "dispatch" /\ pc'[t] # "dispatch" /\ call' = call /\ depth' = depth
    BY <1>1, Facts DEF AquireLoad, LoadCnt, AquireLock, Goto, TypeOK
  <2> QED BY <2>1 DEF HadStep, Had
<1>2. CASE AquireStore(t) \/ AquireMark(t)
  <2>1. /\ pc[t] \in {"store", "mark"}
        /\ call[t] \in {"begin", "transmit"}
        /\ depth[t] \in Nat
        /\ objectOf[t] \in Objects
    BY <1>2, Facts DEF AquireStore, AquireMark, Aquired, Return, Goto, Local
  <2>2. Had(t) = depth[t]
    BY <2>1 DEF Had
  <2>3. CASE pc'[t] = "lock"
    <3>1. call' = call /\ depth' = depth
      BY <1>2, <2>1, <2>3, Facts DEF AquireStore, AquireMark, Aquired, Return, Goto, TypeOK
    <3> QED BY <2>1, <2>2, <2>3, <3>1 DEF HadStep, Had
  <2>4. CASE pc'[t] # "lock"
    <3>1. \/ pc'[t] = "out" /\ call'[t] = "none" /\ depth'[t] = depth[t] + 1
          \/ pc'[t] = "dispatch" /\ call'[t] = "transmit" /\ depth'[t] = depth[t]
      BY <1>2, <2>1, <2>4, Facts DEF AquireStore, AquireMark, Aquired, Return, Goto, TypeOK
    <3>2. cnt'[objectOf[t]] > 0
      BY <1>2, <2>1, Facts DEF AquireStore, AquireMark, Aquired, Return, Goto, Local, TypeOK
    <3>3. Had(t)' = depth[t] + 1
      BY <2>1, <3>1 DEF Had
    <3>4. Holds(t)'
      BY <2>4, <3>2 DEF Holds
    <3> QED BY <2>2, <3>3, <3>4 DEF HadStep
  <2> QED BY <2>3, <2>4
<1> QED BY <1>1, <1>2 DEF aquire

\* The end of a command counts; what release() does after that does not.
LEMMA ReleaseHad ==
  ASSUME IInv, NEW t \in Threads, Dispatch(t) \/ release(t)
  PROVE  HadStep(t)
<1>1. CASE Dispatch(t)
  <2>1. pc[t] = "dispatch" /\ call[t] = "transmit" /\ depth[t] \in Nat
    BY <1>1, Facts DEF Dispatch, Goto, Local
  <2>2. pc'[t] = "unload" /\ call' = call /\ depth' = depth
    BY <1>1, Facts DEF Dispatch, Goto, TypeOK
  <2> QED BY <2>1, <2>2 DEF HadStep, Had
<1>2. CASE ReleaseLoad(t) \/ ReleaseStore(t) \/ ReleaseUnmark(t)
  <2>1. pc[t] # "dispatch" /\ pc'[t] # "dispatch" /\ call' = call /\ depth' = depth
    BY <1>2, Facts DEF ReleaseLoad, LoadCnt, ReleaseStore, ReleaseUnmark, Goto, TypeOK
  <2> QED BY <2>1 DEF HadStep, Had
<1>3. CASE ReleaseTest(t) \/ ReleaseUnlock(t)
  <2>1. pc[t] # "dispatch" /\ pc'[t] # "dispatch" /\ call[t] \in {"transmit", "end"}
    BY <1>3, Facts DEF ReleaseTest, ReleaseUnlock, Released, Return, Goto, Local, TypeOK
  <2>2. \/ call' = call /\ depth' = depth
        \/ call'[t] = "none" /\ depth'[t] = IF call[t] = "end" THEN depth[t] - 1 ELSE depth[t]
    BY <1>3, Facts DEF ReleaseTest, ReleaseUnlock, Released, Return, Goto, TypeOK
  <2> QED BY <2>1, <2>2 DEF HadStep, Had
<1> QED BY <1>1, <1>2, <1>3 DEF release

\* No step changes what another thread is inside of.
LEMMA OthersHad ==
  ASSUME IInv, NEW t \in Threads, NEW u \in Threads, u # t,
         \/ beginTransaction(t) \/ transmit(t) \/ endTransaction(t)
         \/ firstTimeInTransaction(t) \/ Inside(t)
  PROVE  Had(u)' = Had(u)
<1>1. pc'[u] = pc[u] /\ call'[u] = call[u] /\ depth'[u] = depth[u]
  <2>1. CASE beginTransaction(t) \/ transmit(t) \/ endTransaction(t) \/ firstTimeInTransaction(t)
    BY <2>1, Facts DEF beginTransaction, transmit, endTransaction, Call, Goto,
                       firstTimeInTransaction, TypeOK
  <2>2. CASE aquire(t)
    BY <2>2, Facts DEF aquire, AquireLoad, LoadCnt, AquireStore, AquireLock, AquireMark,
                       Aquired, Return, Goto, TypeOK
  <2>3. CASE Dispatch(t) \/ release(t)
    BY <2>3, Facts DEF Dispatch, release, ReleaseLoad, LoadCnt, ReleaseStore, ReleaseTest,
                       ReleaseUnmark, ReleaseUnlock, Released, Return, Goto, TypeOK
  <2> QED BY <2>1, <2>2, <2>3 DEF Inside
<1> QED BY <1>1 DEF Had

\* Transactions and commands of threads with a SoftCard each, of cards with one system
\* mutex, are a lock that its holder may take again (ReentrantLock), in every
\* interleaving of the steps of aquire() and release(): a thread enters only while no
\* other is inside, and only one who is inside leaves.
THEOREM TransactionsAreALock ==
  ASSUME OwnObject,
         \A n, m \in Names : n = m
  PROVE  Spec => Lock!Spec
<1>1. Init => Lock!Init
  BY DEF Init, Lock!Init, held, Had
<1>2. IInv /\ IInv' /\ HadHolds /\ HadHolds' /\ [Next]_vars => [Lock!Next]_held
  <2> SUFFICES ASSUME IInv, IInv', HadHolds, HadHolds', [Next]_vars PROVE [Lock!Next]_held
    OBVIOUS
  <2>1. CASE UNCHANGED vars
    BY <2>1 DEF vars, held, Had
  <2>2. ASSUME NEW t \in Threads,
               \/ beginTransaction(t) \/ transmit(t) \/ endTransaction(t)
               \/ firstTimeInTransaction(t) \/ Inside(t)
        PROVE  [Lock!Next]_held
    <3>1. HadStep(t)
      BY <2>2, CallHad, AquireHad, ReleaseHad DEF Inside
    <3>2. \A u \in Threads : u # t => Had(u)' = Had(u)
      BY <2>2, OthersHad
    <3>3. CASE Had(t)' = Had(t)
      <4>1. \A u \in Threads : Had(u)' = Had(u)
        BY <3>2, <3>3
      <4> QED BY <4>1 DEF held
    <3>4. CASE Had(t)' = Had(t) + 1 /\ Holds(t)'
      <4>1. ASSUME NEW u \in Threads \ {t} PROVE held[u] = 0
        <5> SUFFICES ASSUME Had(u) # 0 PROVE FALSE
          BY DEF held
        <5>1. Had(u)' = Had(u) /\ Had(u) > 0
          BY <3>2 DEF HadHolds
        <5>2. Holds(u)'
          BY <5>1 DEF HadHolds
        <5>3. hMutex'[Mutex(t)] = t /\ hMutex'[Mutex(u)] = u
          BY <3>4, <5>2 DEF IInv, HolderInv, Mutex
        <5> QED BY <5>3, MutexType
      <4>2. held' = [held EXCEPT ![t] = @ + 1]
        BY <3>2, <3>4 DEF held
      <4> QED BY <4>1, <4>2 DEF Lock!Next, Lock!Acquire
    <3>5. CASE Had(t) > 0 /\ Had(t)' = Had(t) - 1
      <4>1. held[t] > 0 /\ held' = [held EXCEPT ![t] = @ - 1]
        BY <3>2, <3>5 DEF held
      <4> QED BY <4>1 DEF Lock!Next, Lock!Release
    <3> QED BY <3>1, <3>3, <3>4, <3>5 DEF HadStep
  <2> QED BY <2>1, <2>2 DEF Next
<1> QED BY OwnObject, <1>1, <1>2, InsideHolds, Invariance, PTL DEF Spec, Lock!Spec
==============================================================================
