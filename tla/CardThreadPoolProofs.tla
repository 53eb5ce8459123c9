------------------------- MODULE CardThreadPoolProofs -------------------------
(***************************************************************************)
(* The pool of card handles keeps its promise for any number of threads,   *)
(* users, readers and handles.  HandlesUsable is not inductive: that a     *)
(* disconnect closes nobody else's handle rests on the counter being the   *)
(* number of users (CounterExact) and on a handle outside the pool having  *)
(* one user only (PrivateHandle), and these rest on each reader having at  *)
(* most one entry (EntryUnique), whose handle is open (EntryConnected).    *)
(***************************************************************************)
EXTENDS CardThreadPool, FiniteSetTheorems, TLAPS

UsersOf(h) == {u \in Users : handle[u] = h}

InPool(h) == \E e \in readerThreadHandles : e.handle = h

EntryConnected ==
  \A e \in readerThreadHandles : connectedTo[e.handle] = e.reader

EntryUnique ==
  \A e, f \in readerThreadHandles : e.reader = f.reader => e = f

CounterExact ==
  \A e \in readerThreadHandles : e.counter = Cardinality(UsersOf(e.handle))

PrivateHandle ==
  \A u, v \in Users :
    handle[u] = handle[v] /\ handle[u] # NoHandle /\ ~InPool(handle[u]) => u = v

PoolInv == EntryConnected /\ EntryUnique /\ CounterExact /\ PrivateHandle

IInv == TypeOK /\ PoolInv /\ HandlesUsable /\ NoLeak

-----------------------------------------------------------------------------
(* The sets of users *)

LEMMA UsersOfFinite ==
  ASSUME NEW h
  PROVE  IsFiniteSet(UsersOf(h)) /\ Cardinality(UsersOf(h)) \in Nat
<1>1. UsersOf(h) \in SUBSET Users
  BY DEF UsersOf
<1>2. IsFiniteSet(UsersOf(h))
  BY <1>1, UsersAssumption, FS_Subset
<1>3. QED
  BY <1>2, FS_CardinalityType

\* How the set of users of a handle follows a connect or disconnect of user u.
LEMMA UsersOfNext ==
  ASSUME TypeOK, NEW u \in Users, NEW h,
         handle' = [handle EXCEPT ![u] = h]
  PROVE  \A k : UsersOf(k)' = IF k = h THEN UsersOf(k) \union {u} ELSE UsersOf(k) \ {u}
  BY DEF TypeOK, UsersOf

\* Handles of different entries differ.
LEMMA EntryHandles ==
  ASSUME EntryConnected, EntryUnique,
         NEW e \in readerThreadHandles, NEW f \in readerThreadHandles, e.handle = f.handle
  PROVE  e = f
  BY DEF EntryConnected, EntryUnique

\* A user whose disconnect gives the handle back to the library is its only user.
LEMMA LastUser ==
  ASSUME IInv, NEW u \in Users, Connected(u), Forget(handle[u])
  PROVE  UsersOf(handle[u]) = {u}
<1>0. u \in UsersOf(handle[u])
  BY DEF UsersOf
<1>1. CASE InPool(handle[u])
  <2>1. PICK e \in readerThreadHandles : e.handle = handle[u]
    BY <1>1 DEF InPool
  <2>2. Cardinality(UsersOf(handle[u])) = 1
    BY <2>1 DEF IInv, PoolInv, CounterExact, Forget
  <2>3. PICK x : UsersOf(handle[u]) = {x}
    BY <2>2, UsersOfFinite, FS_Singleton
  <2>4. QED
    BY <1>0, <2>3
<1>2. CASE ~InPool(handle[u])
  BY <1>2 DEF IInv, PoolInv, PrivateHandle, UsersOf, Connected
<1>3. QED
  BY <1>1, <1>2

\* Before a handle is given out by the library nobody has it.
LEMMA FreshHandle ==
  ASSUME TypeOK, HandlesUsable, NEW h \in Handles, connectedTo[h] = NoReader
  PROVE  UsersOf(h) = {}
  BY NullAssumption DEF TypeOK, HandlesUsable, UsersOf, Connected

-----------------------------------------------------------------------------
(* Each outcome of the two functions preserves the invariant *)

LEMMA InitIInv == Init => IInv
  BY NullAssumption
     DEF Init, IInv, TypeOK, PoolInv, EntryConnected, EntryUnique, CounterExact,
         PrivateHandle, HandlesUsable, NoLeak, Connected

LEMMA UseThisHandleIInv ==
  ASSUME IInv, NEW t \in Threads, NEW u \in Users, NEW r \in Readers,
         ~Connected(u), g_listReadersCalled' = TRUE, UseThisHandle(t, u, r)
  PROVE  IInv'
<1> USE NullAssumption DEF IInv, PoolInv
<1>1. PICK e \in readerThreadHandles : GetCardHandle(t, r, e) /\ Receive(u, r, e.handle)
  BY DEF UseThisHandle
<1> DEFINE f == [e EXCEPT !.counter = @ + 1]
<1>2. /\ e.reader = r
      /\ readerThreadHandles' = (readerThreadHandles \ {e}) \union {f}
      /\ handle' = [handle EXCEPT ![u] = e.handle]
      /\ szReader' = [szReader EXCEPT ![u] = r]
      /\ connectedTo' = connectedTo /\ connectedBy' = connectedBy
  BY <1>1 DEF GetCardHandle, EntriesOf, Receive, UseThisHandle
<1>3. /\ e \in ReaderThreadHandle
      /\ f \in ReaderThreadHandle
      /\ f.reader = r /\ f.handle = e.handle /\ f.counter = e.counter + 1
  BY <1>2 DEF TypeOK, ReaderThreadHandle
<1> HIDE DEF f
<1>4. TypeOK'
  BY <1>2, <1>3 DEF TypeOK, ReaderThreadHandle
<1>5. EntryConnected' /\ EntryUnique'
  BY <1>2, <1>3 DEF EntryConnected, EntryUnique
<1>6. \A k : UsersOf(k)' = IF k = e.handle THEN UsersOf(k) \union {u} ELSE UsersOf(k) \ {u}
  BY <1>2, UsersOfNext
<1>7. u \notin UsersOf(e.handle)
  BY <1>3 DEF UsersOf, Connected, ReaderThreadHandle
<1>8. CounterExact'
  <2>1. Cardinality(UsersOf(e.handle)') = Cardinality(UsersOf(e.handle)) + 1
    BY <1>6, <1>7, UsersOfFinite, FS_AddElement
  <2>2. f.counter = Cardinality(UsersOf(f.handle)')
    BY <2>1, <1>3 DEF CounterExact
  <2>3. ASSUME NEW g \in readerThreadHandles \ {e}
        PROVE  g.counter = Cardinality(UsersOf(g.handle)')
    <3>1. g.handle # e.handle
      BY <2>3, EntryHandles
    <3>2. u \notin UsersOf(g.handle)
      BY DEF UsersOf, Connected, TypeOK, ReaderThreadHandle
    <3>3. UsersOf(g.handle)' = UsersOf(g.handle)
      BY <1>6, <3>1, <3>2
    <3>4. QED
      BY <3>3 DEF CounterExact
  <2>4. QED
    BY <2>2, <2>3, <1>2 DEF CounterExact, UsersOf
<1>9. PrivateHandle'
  <2>1. \A k : InPool(k)' <=> InPool(k)
    BY <1>2, <1>3 DEF InPool
  <2>2. InPool(e.handle)
    BY DEF InPool
  <2>3. QED
    BY <1>2, <2>1, <2>2 DEF PrivateHandle, TypeOK
<1>10. HandlesUsable'
  BY <1>2, <1>3 DEF HandlesUsable, Connected, TypeOK, EntryConnected
<1>11. NoLeak'
  BY <1>2, <1>3 DEF NoLeak, TypeOK, Connected
<1>12. QED
  BY <1>4, <1>5, <1>8, <1>9, <1>10, <1>11

LEMMA DoConnectIInv ==
  ASSUME IInv, NEW t \in Threads, NEW u \in Users, NEW r \in Readers,
         ~Connected(u), g_listReadersCalled' = TRUE, DoConnect(t, u, r)
  PROVE  IInv'
<1> USE NullAssumption DEF IInv, PoolInv
<1>1. PICK h \in Handles :
        /\ connectedTo[h] = NoReader
        /\ connectedTo' = [connectedTo EXCEPT ![h] = r]
        /\ connectedBy' = [connectedBy EXCEPT ![h] = t]
        /\ handle' = [handle EXCEPT ![u] = h]
        /\ szReader' = [szReader EXCEPT ![u] = r]
        /\ IF EntriesOf(r) = {} THEN addCardHandle(t, r, h)
                                ELSE UNCHANGED readerThreadHandles
  BY DEF DoConnect, Receive
<1>2. \A k : UsersOf(k)' = IF k = h THEN UsersOf(k) \union {u} ELSE UsersOf(k) \ {u}
  BY <1>1, UsersOfNext
<1>3. UsersOf(h) = {}
  BY <1>1, FreshHandle
<1>4. /\ UsersOf(h)' = {u}
      /\ \A k : k # h /\ k # NoHandle => UsersOf(k)' = UsersOf(k)
  BY <1>2, <1>3 DEF UsersOf, Connected
<1>5. \A e \in readerThreadHandles : e.handle # h /\ e.handle # NoHandle
  BY <1>1 DEF EntryConnected, TypeOK, ReaderThreadHandle
<1>6. HandlesUsable'
  BY <1>1, <1>3 DEF HandlesUsable, Connected, TypeOK, UsersOf
<1>7. NoLeak'
  BY <1>1 DEF NoLeak, TypeOK, Connected
<1>8. CASE EntriesOf(r) = {}
  <2> DEFINE e0 == [reader |-> r, threadID |-> t, handle |-> h, counter |-> 1]
  <2>1. readerThreadHandles' = readerThreadHandles \union {e0}
    BY <1>1, <1>8 DEF addCardHandle
  <2>2. /\ e0 \in ReaderThreadHandle
        /\ e0.reader = r /\ e0.handle = h /\ e0.counter = 1
    BY DEF ReaderThreadHandle
  <2> HIDE DEF e0
  <2>3. TypeOK'
    BY <1>1, <2>1, <2>2 DEF TypeOK
  <2>4. EntryConnected'
    BY <1>1, <1>5, <2>1, <2>2 DEF EntryConnected, TypeOK
  <2>5. EntryUnique'
    BY <1>8, <2>1, <2>2 DEF EntryUnique, EntriesOf
  <2>6. CounterExact'
    <3>1. e0.counter = Cardinality(UsersOf(e0.handle)')
      BY <1>4, <2>2, FS_Singleton
    <3>2. ASSUME NEW g \in readerThreadHandles
          PROVE  g.counter = Cardinality(UsersOf(g.handle)')
      BY <1>4, <1>5 DEF CounterExact
    <3>3. QED
      BY <3>1, <3>2, <2>1 DEF CounterExact, UsersOf
  <2>7. PrivateHandle'
    <3>1. InPool(h)' /\ \A k : k # h => (InPool(k)' <=> InPool(k))
      BY <2>1, <2>2 DEF InPool
    <3>2. QED
      BY <1>1, <3>1 DEF PrivateHandle, TypeOK
  <2>8. QED
    BY <2>3, <2>4, <2>5, <2>6, <2>7, <1>6, <1>7
<1>9. CASE EntriesOf(r) # {}
  <2>1. readerThreadHandles' = readerThreadHandles
    BY <1>1, <1>9
  <2>2. TypeOK'
    BY <1>1, <2>1 DEF TypeOK
  <2>3. EntryConnected' /\ EntryUnique'
    BY <1>1, <1>5, <2>1 DEF EntryConnected, EntryUnique, TypeOK
  <2>4. CounterExact'
    <3>1. ASSUME NEW g \in readerThreadHandles
          PROVE  g.counter = Cardinality(UsersOf(g.handle)')
      BY <1>4, <1>5 DEF CounterExact
    <3>2. QED
      BY <3>1, <2>1 DEF CounterExact, UsersOf
  <2>5. PrivateHandle'
    <3>1. \A v \in Users : handle[v] # h
      BY <1>3 DEF UsersOf
    <3>2. \A k : InPool(k)' <=> InPool(k)
      BY <2>1 DEF InPool
    <3>3. QED
      BY <1>1, <3>1, <3>2 DEF PrivateHandle, TypeOK
  <2>6. QED
    BY <2>2, <2>3, <2>4, <2>5, <1>6, <1>7
<1>10. QED
  BY <1>8, <1>9

LEMMA StaysConnectedIInv ==
  ASSUME IInv, NEW u \in Users, Connected(u), StaysConnected(u),
         UNCHANGED g_listReadersCalled
  PROVE  IInv'
<1> USE NullAssumption DEF IInv, PoolInv
<1>1. PICK e \in readerThreadHandles :
        /\ e.handle = handle[u]
        /\ e.counter # 1
        /\ readerThreadHandles' =
             (readerThreadHandles \ {e}) \union {[e EXCEPT !.counter = @ - 1]}
  BY DEF StaysConnected, CountDown
<1>2. /\ handle' = [handle EXCEPT ![u] = NoHandle]
      /\ szReader' = [szReader EXCEPT ![u] = NoReader]
      /\ connectedTo' = connectedTo /\ connectedBy' = connectedBy
  BY DEF StaysConnected, Receive
<1>3. /\ UsersOf(e.handle)' = UsersOf(e.handle) \ {u}
      /\ u \in UsersOf(e.handle)
      /\ \A k : k # e.handle /\ k # NoHandle => UsersOf(k)' = UsersOf(k)
      /\ e.handle # NoHandle
  <2>1. \A k : UsersOf(k)' = IF k = NoHandle THEN UsersOf(k) \union {u}
                                            ELSE UsersOf(k) \ {u}
    BY <1>2, UsersOfNext
  <2>2. u \in UsersOf(e.handle) /\ e.handle # NoHandle
    BY <1>1 DEF UsersOf, Connected
  <2>3. \A k : k # e.handle => u \notin UsersOf(k)
    BY <1>1 DEF UsersOf
  <2>4. QED
    BY <2>1, <2>2, <2>3
<1>4. Cardinality(UsersOf(e.handle)') = Cardinality(UsersOf(e.handle)) - 1
  BY <1>3, UsersOfFinite, FS_RemoveElement
<1>5. e.counter = Cardinality(UsersOf(e.handle)) /\ e.counter > 1
  <2>1. UsersOf(e.handle) # {}
    BY <1>3
  <2>2. Cardinality(UsersOf(e.handle)) # 0
    BY <2>1, UsersOfFinite, FS_EmptySet
  <2>3. QED
    BY <1>1, <2>2, UsersOfFinite DEF CounterExact
<1> DEFINE f == [e EXCEPT !.counter = @ - 1]
<1>6. /\ e \in ReaderThreadHandle
      /\ f \in ReaderThreadHandle
      /\ f.reader = e.reader /\ f.handle = e.handle /\ f.counter = e.counter - 1
      /\ readerThreadHandles' = (readerThreadHandles \ {e}) \union {f}
  BY <1>1, <1>5 DEF TypeOK, ReaderThreadHandle
<1> HIDE DEF f
<1>7. TypeOK'
  BY <1>2, <1>6 DEF TypeOK
<1>8. EntryConnected' /\ EntryUnique'
  BY <1>2, <1>6 DEF EntryConnected, EntryUnique
<1>9. CounterExact'
  <2>1. f.counter = Cardinality(UsersOf(f.handle)')
    BY <1>4, <1>5, <1>6
  <2>2. ASSUME NEW g \in readerThreadHandles \ {e}
        PROVE  g.counter = Cardinality(UsersOf(g.handle)')
    <3>1. g.handle # e.handle
      BY <2>2, EntryHandles
    <3>2. g.handle # NoHandle
      BY DEF TypeOK, ReaderThreadHandle
    <3>3. QED
      BY <1>3, <3>1, <3>2 DEF CounterExact
  <2>3. QED
    BY <2>1, <2>2, <1>6 DEF CounterExact, UsersOf
<1>10. PrivateHandle'
  <2>1. \A k : InPool(k)' <=> InPool(k)
    BY <1>6 DEF InPool
  <2>2. QED
    BY <1>2, <2>1 DEF PrivateHandle, TypeOK
<1>11. HandlesUsable'
  BY <1>2 DEF HandlesUsable, Connected, TypeOK
<1>12. NoLeak'
  <2>1. PICK v \in UsersOf(e.handle)' : TRUE
    <3>1. UsersOf(e.handle)' # {}
      <4>1. Cardinality(UsersOf(e.handle)') # 0
        BY <1>4, <1>5, UsersOfFinite
      <4>2. QED
        BY <4>1, FS_EmptySet, Zenon
    <3>2. QED
      BY <3>1
  <2>2. v \in Users /\ handle'[v] = e.handle
    BY <2>1 DEF UsersOf
  <2>3. ASSUME NEW h \in Handles, connectedTo'[h] # NoReader
        PROVE  \E w \in Users : handle'[w] = h
    <3>1. PICK w \in Users : handle[w] = h
      BY <2>3, <1>2 DEF NoLeak
    <3>2. QED
      BY <3>1, <2>2, <1>1, <1>2 DEF TypeOK
  <2>4. QED
    BY <2>3 DEF NoLeak
<1>13. QED
  BY <1>7, <1>8, <1>9, <1>10, <1>11, <1>12

\* Once the handle has left the pool its only user has it for itself.
LEMMA ForgetInv ==
  ASSUME IInv, NEW u \in Users, Connected(u), Forget(handle[u])
  PROVE  /\ readerThreadHandles' = {e \in readerThreadHandles : e.handle # handle[u]}
         /\ \A k : k # handle[u] => (InPool(k)' <=> InPool(k))
         /\ \A v \in Users : handle[v] = handle[u] => v = u
<1>1. UsersOf(handle[u]) = {u}
  BY LastUser
<1>2. QED
  BY <1>1 DEF Forget, InPool, UsersOf

LEMMA DoDisconnectIInv ==
  ASSUME IInv, NEW u \in Users, Connected(u), DoDisconnect(u),
         UNCHANGED g_listReadersCalled
  PROVE  IInv'
<1> USE NullAssumption DEF IInv, PoolInv
<1>1. /\ handle' = [handle EXCEPT ![u] = NoHandle]
      /\ szReader' = [szReader EXCEPT ![u] = NoReader]
      /\ connectedTo' = [connectedTo EXCEPT ![handle[u]] = NoReader]
      /\ connectedBy' = [connectedBy EXCEPT ![handle[u]] = NoThread]
      /\ Forget(handle[u])
  BY DEF DoDisconnect, Receive
<1>2. /\ readerThreadHandles' = {e \in readerThreadHandles : e.handle # handle[u]}
      /\ \A k : k # handle[u] => (InPool(k)' <=> InPool(k))
      /\ \A v \in Users : handle[v] = handle[u] => v = u
  BY <1>1, ForgetInv
<1>3. \A k : k # handle[u] /\ k # NoHandle => UsersOf(k)' = UsersOf(k)
  BY <1>1 DEF UsersOf, TypeOK
<1>4. TypeOK'
  BY <1>1, <1>2 DEF TypeOK, Connected
<1>5. EntryConnected' /\ EntryUnique'
  BY <1>1, <1>2 DEF EntryConnected, EntryUnique, TypeOK, ReaderThreadHandle
<1>6. CounterExact'
  <2>1. ASSUME NEW g \in readerThreadHandles'
        PROVE  g.counter = Cardinality(UsersOf(g.handle)')
    <3>1. g \in readerThreadHandles /\ g.handle # handle[u] /\ g.handle # NoHandle
      BY <1>2 DEF TypeOK, ReaderThreadHandle
    <3>2. QED
      BY <1>3, <3>1 DEF CounterExact
  <2>2. QED
    BY <2>1 DEF CounterExact, UsersOf
<1>7. PrivateHandle'
  BY <1>1, <1>2 DEF PrivateHandle, TypeOK
<1>8. HandlesUsable' /\ NoLeak'
  BY <1>1, <1>2 DEF HandlesUsable, NoLeak, Connected, TypeOK
<1>9. QED
  BY <1>4, <1>5, <1>6, <1>7, <1>8

LEMMA DoDisconnectFailsIInv ==
  ASSUME IInv, NEW u \in Users, Connected(u), DoDisconnectFails(u),
         UNCHANGED g_listReadersCalled
  PROVE  IInv'
<1> USE DEF IInv, PoolInv
<1>1. /\ UNCHANGED <<handle, szReader, connectedTo, connectedBy>>
      /\ readerThreadHandles' = {e \in readerThreadHandles : e.handle # handle[u]}
      /\ \A k : k # handle[u] => (InPool(k)' <=> InPool(k))
      /\ \A v \in Users : handle[v] = handle[u] => v = u
  BY ForgetInv DEF DoDisconnectFails
<1>2. TypeOK' /\ EntryConnected' /\ EntryUnique' /\ HandlesUsable' /\ NoLeak'
  BY <1>1 DEF TypeOK, EntryConnected, EntryUnique, HandlesUsable, NoLeak, Connected
<1>3. CounterExact'
  BY <1>1 DEF CounterExact, UsersOf
<1>4. PrivateHandle'
  BY <1>1 DEF PrivateHandle
<1>5. QED
  BY <1>2, <1>3, <1>4

LEMMA NextIInv == IInv /\ [Next]_vars => IInv'
<1> SUFFICES ASSUME IInv, [Next]_vars PROVE IInv'
  OBVIOUS
<1>1. ASSUME NEW u \in Users, NEW t \in Threads, NEW r \in Readers,
             SCardConnect_Threading(t, u, r)
      PROVE  IInv'
  <2>1. CASE UseThisHandle(t, u, r)
    BY <1>1, <2>1, UseThisHandleIInv DEF SCardConnect_Threading
  <2>2. CASE DoConnect(t, u, r)
    BY <1>1, <2>2, DoConnectIInv DEF SCardConnect_Threading
  <2>3. CASE DoConnectFails(t, r)
    BY <1>1, <2>3
       DEF SCardConnect_Threading, DoConnectFails, IInv, PoolInv, TypeOK, EntryConnected,
           EntryUnique, CounterExact, PrivateHandle, HandlesUsable, NoLeak, Connected,
           UsersOf, InPool
  <2>4. QED
    BY <1>1, <2>1, <2>2, <2>3 DEF SCardConnect_Threading
<1>2. ASSUME NEW u \in Users, SCardDisconnect_Threading(u) PROVE IInv'
  BY <1>2, StaysConnectedIInv, DoDisconnectIInv, DoDisconnectFailsIInv
     DEF SCardDisconnect_Threading
<1>3. CASE UNCHANGED vars
  BY <1>3 DEF vars, IInv, PoolInv, TypeOK, EntryConnected, EntryUnique, CounterExact,
              PrivateHandle, HandlesUsable, NoLeak, Connected, UsersOf, InPool
<1>4. QED
  BY <1>1, <1>2, <1>3 DEF Next

LEMMA SpecIInv == Spec => []IInv
  BY InitIInv, NextIInv, PTL DEF Spec

-----------------------------------------------------------------------------
\* Type correctness: an entry's counter stays a natural number, so the unsigned
\* long of WinscardImpl.h:60 never wraps below zero.
THEOREM TypeCorrect == Spec => []TypeOK
<1>1. IInv => TypeOK
  BY DEF IInv
<1>2. QED
  BY <1>1, SpecIInv, PTL

\* No user ever has its handle closed by somebody else, whatever threads connect,
\* disconnect and fail (WinscardImpl.cpp:642-764).
THEOREM HandlesUsableHolds == Spec => []HandlesUsable
<1>1. IInv => HandlesUsable
  BY DEF IInv
<1>2. QED
  BY <1>1, SpecIInv, PTL

\* No connection outlives the last of its users (WinscardImpl.cpp:743-764).
THEOREM NoLeakHolds == Spec => []NoLeak
<1>1. IInv => NoLeak
  BY DEF IInv
<1>2. QED
  BY <1>1, SpecIInv, PTL

\* The pool implements HandleSharing: sharing a pooled handle is a Share step,
\* a connect an Open step, and a disconnect gives the handle back to the library
\* exactly when no other user has it.
THEOREM Refinement == Spec => ImplementsHandleSharing
<1> USE NullAssumption
<1>1. Init => Sharing!Init
  BY DEF Init, Sharing!Init
<1>2. IInv /\ [Next]_vars => [Sharing!Next]_(Sharing!vars)
  <2> SUFFICES ASSUME IInv, [Next]_vars PROVE [Sharing!Next]_(Sharing!vars)
    OBVIOUS
  <2>1. ASSUME NEW u \in Users, NEW t \in Threads, NEW r \in Readers,
               SCardConnect_Threading(t, u, r)
        PROVE  [Sharing!Next]_(Sharing!vars)
    <3>1. CASE UseThisHandle(t, u, r)
      <4>1. PICK e \in readerThreadHandles : GetCardHandle(t, r, e) /\ Receive(u, r, e.handle)
        BY <3>1 DEF UseThisHandle
      <4>2. e.handle \in Handles /\ connectedTo[e.handle] = r
        BY <4>1 DEF GetCardHandle, EntriesOf, IInv, PoolInv, EntryConnected, TypeOK,
                    ReaderThreadHandle
      <4>3. Sharing!Share(u, r, e.handle)
        BY <2>1, <3>1, <4>1, <4>2
           DEF UseThisHandle, SCardConnect_Threading, Connected, Receive, Sharing!Share,
               Sharing!Give
      <4>4. QED
        BY <4>2, <4>3 DEF Sharing!Next
    <3>2. CASE DoConnect(t, u, r)
      BY <2>1, <3>2 DEF DoConnect, SCardConnect_Threading, Connected, Receive, Sharing!Open,
                        Sharing!Give, Sharing!Next
    <3>3. CASE DoConnectFails(t, r)
      BY <3>3 DEF DoConnectFails, Sharing!vars
    <3>4. QED
      BY <2>1, <3>1, <3>2, <3>3 DEF SCardConnect_Threading
  <2>2. ASSUME NEW u \in Users, SCardDisconnect_Threading(u)
        PROVE  [Sharing!Next]_(Sharing!vars)
    <3>1. CASE StaysConnected(u)
      <4>1. PICK e \in readerThreadHandles : e.handle = handle[u] /\ e.counter # 1
        BY <3>1 DEF StaysConnected, CountDown
      <4>2. \E v \in Users \ {u} : handle[v] = handle[u]
        <5>1. Cardinality(UsersOf(handle[u])) # 1
          BY <4>1 DEF IInv, PoolInv, CounterExact
        <5>2. UsersOf(handle[u]) # {u}
          BY <5>1, FS_Singleton
        <5>3. QED
          BY <5>2 DEF UsersOf
      <4>3. Sharing!Close(u)
        BY <2>2, <3>1, <4>2
           DEF StaysConnected, SCardDisconnect_Threading, Connected, Receive, Sharing!Close
      <4>4. QED
        BY <4>3 DEF Sharing!Next
    <3>2. CASE DoDisconnect(u)
      <4>1. \A v \in Users : handle[v] = handle[u] => v = u
        BY <2>2, <3>2, ForgetInv DEF DoDisconnect, SCardDisconnect_Threading
      <4>2. Sharing!Close(u)
        BY <2>2, <3>2, <4>1
           DEF DoDisconnect, SCardDisconnect_Threading, Connected, Receive, Sharing!Close
      <4>3. QED
        BY <4>2 DEF Sharing!Next
    <3>3. CASE DoDisconnectFails(u)
      BY <3>3 DEF DoDisconnectFails, Sharing!vars
    <3>4. QED
      BY <2>2, <3>1, <3>2, <3>3 DEF SCardDisconnect_Threading
  <2>3. CASE UNCHANGED vars
    BY <2>3 DEF vars, Sharing!vars
  <2>4. QED
    BY <2>1, <2>2, <2>3 DEF Next
<1>3. QED
  BY <1>1, <1>2, SpecIInv, PTL DEF Spec, ImplementsHandleSharing, Sharing!Spec
==============================================================================
