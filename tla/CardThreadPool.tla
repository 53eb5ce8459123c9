---------------------------- MODULE CardThreadPool ----------------------------
(***************************************************************************)
(* SCardConnect_Threading(), SCardDisconnect_Threading() and the           *)
(* CardThreadPool of pcscproxy/WinscardImpl.cpp on Linux and Mac OS.  Two  *)
(* threads that connect to one reader get one card handle, because         *)
(* PC/SC-lite hangs when two of its connections to a card both begin a     *)
(* transaction (WinscardImpl.cpp:629-640).  But for the listing of the     *)
(* readers, which only sets a flag that nothing here reads, both functions *)
(* run under cardThreadPoolMutex, so each is one step.                     *)
(*                                                                         *)
(* The vector readerThreadHandles is a set here: its order matters only to *)
(* entries of the same reader or the same handle, and the invariant        *)
(* EntryUnique of CardThreadPoolProofs says there are none.                *)
(***************************************************************************)
EXTENDS Naturals, FiniteSets

CONSTANTS
  Threads,
  Users,      \* the SCARDHANDLE variables of the application's threads
  Readers,    \* hard reader names
  Handles,    \* bound: the hard handles the PC/SC library can give out at a time
  NoReader, NoHandle, NoThread

ASSUME UsersAssumption == IsFiniteSet(Users)
ASSUME NullAssumption ==
  NoReader \notin Readers /\ NoHandle \notin Handles /\ NoThread \notin Threads

VARIABLES
  readerThreadHandles,
  handle,         \* what phCard received, for each user that is connected
  szReader,       \* the reader that user asked for
  connectedTo,    \* PC/SC library: the reader each hard handle is connected to
  connectedBy,    \* PC/SC library: the thread that made that connection
  g_listReadersCalled

vars == <<readerThreadHandles, handle, szReader, connectedTo, connectedBy,
          g_listReadersCalled>>

ReaderThreadHandle ==
  [reader : Readers, threadID : Threads, handle : Handles, counter : Nat]

Init ==
  /\ readerThreadHandles = {}
  /\ handle = [u \in Users |-> NoHandle]
  /\ szReader = [u \in Users |-> NoReader]
  /\ connectedTo = [h \in Handles |-> NoReader]
  /\ connectedBy = [h \in Handles |-> NoThread]
  /\ g_listReadersCalled = FALSE

Connected(u) == handle[u] # NoHandle

Receive(u, r, h) ==
  /\ handle' = [handle EXCEPT ![u] = h]
  /\ szReader' = [szReader EXCEPT ![u] = r]

-----------------------------------------------------------------------------
(* CardThreadPool *)

EntriesOf(r) == {e \in readerThreadHandles : e.reader = r}

\* Mutant: the new user is not counted.
GetCardHandleUncounted(t, r, e) ==
  /\ e \in EntriesOf(r)
  /\ e.threadID # t
  /\ UNCHANGED readerThreadHandles

\* GetCardHandle() answers CTP_USE_THIS_HANDLE and counts one more user.
GetCardHandle(t, r, e) ==
  /\ e \in EntriesOf(r)
  /\ e.threadID # t
  /\ readerThreadHandles' =
       (readerThreadHandles \ {e}) \union {[e EXCEPT !.counter = @ + 1]}

\* GetCardHandle() answers CTP_DO_CONNECT or CTP_DO_CONNECT_AND_ADD.
MayConnect(t, r) == \A e \in EntriesOf(r) : e.threadID = t

\* Mutant: the user that connects is not counted.
addCardHandleUncounted(t, r, h) ==
  readerThreadHandles' = readerThreadHandles \union
    {[reader |-> r, threadID |-> t, handle |-> h, counter |-> 0]}

addCardHandle(t, r, h) ==
  readerThreadHandles' = readerThreadHandles \union
    {[reader |-> r, threadID |-> t, handle |-> h, counter |-> 1]}

\* Mutant: an entry is kept until its counter is 0.
CountDownToZero(h) ==
  \E e \in readerThreadHandles :
    /\ e.handle = h
    /\ e.counter # 0
    /\ readerThreadHandles' =
         (readerThreadHandles \ {e}) \union {[e EXCEPT !.counter = @ - 1]}

\* disconnect() answers CTP_DONT_DISCONNECT: others use the handle still.
CountDown(h) ==
  \E e \in readerThreadHandles :
    /\ e.handle = h
    /\ e.counter # 1
    /\ readerThreadHandles' =
         (readerThreadHandles \ {e}) \union {[e EXCEPT !.counter = @ - 1]}

\* Mutant: the first user to disconnect disconnects them all.
ForgetAtOnce(h) ==
  readerThreadHandles' = {e \in readerThreadHandles : e.handle # h}

\* disconnect() answers CTP_DO_DISCONNECT: the last user of an entry, which is
\* erased, or a handle that is not in the pool.
Forget(h) ==
  /\ \A e \in readerThreadHandles : e.handle = h => e.counter = 1
  /\ readerThreadHandles' = {e \in readerThreadHandles : e.handle # h}

-----------------------------------------------------------------------------
(* SCardConnect_Threading(): thread t connects to reader r, for user u *)

UseThisHandle(t, u, r) ==
  /\ \E e \in readerThreadHandles : GetCardHandle(t, r, e) /\ Receive(u, r, e.handle)
  /\ UNCHANGED <<connectedTo, connectedBy>>

\* pSCardConnect() may fail, and then nothing is recorded.
DoConnectFails(t, r) ==
  /\ MayConnect(t, r)
  /\ UNCHANGED <<readerThreadHandles, handle, szReader, connectedTo, connectedBy>>

DoConnect(t, u, r) ==
  /\ MayConnect(t, r)
  /\ \E h \in Handles :
       /\ connectedTo[h] = NoReader
       /\ connectedTo' = [connectedTo EXCEPT ![h] = r]
       /\ connectedBy' = [connectedBy EXCEPT ![h] = t]
       /\ Receive(u, r, h)
       /\ IF EntriesOf(r) = {} THEN addCardHandle(t, r, h)
                               ELSE UNCHANGED readerThreadHandles

SCardConnect_Threading(t, u, r) ==
  /\ ~Connected(u)
  /\ g_listReadersCalled' = TRUE
  /\ \/ UseThisHandle(t, u, r)
     \/ DoConnect(t, u, r)
     \/ DoConnectFails(t, r)

-----------------------------------------------------------------------------
(* SCardDisconnect_Threading() of the handle that u has; any thread may call *)

StaysConnected(u) ==
  /\ CountDown(handle[u])
  /\ Receive(u, NoReader, NoHandle)
  /\ UNCHANGED <<connectedTo, connectedBy>>

DoDisconnect(u) ==
  /\ Forget(handle[u])
  /\ connectedTo' = [connectedTo EXCEPT ![handle[u]] = NoReader]
  /\ connectedBy' = [connectedBy EXCEPT ![handle[u]] = NoThread]
  /\ Receive(u, NoReader, NoHandle)

\* pSCardDisconnect() may fail, after the entry has been erased; the application
\* still has the handle and may call again.
DoDisconnectFails(u) ==
  /\ Forget(handle[u])
  /\ UNCHANGED <<handle, szReader, connectedTo, connectedBy>>

SCardDisconnect_Threading(u) ==
  /\ Connected(u)
  /\ \/ StaysConnected(u)
     \/ DoDisconnect(u)
     \/ DoDisconnectFails(u)
  /\ UNCHANGED g_listReadersCalled

Next ==
  \E u \in Users :
    \/ \E t \in Threads, r \in Readers : SCardConnect_Threading(t, u, r)
    \/ SCardDisconnect_Threading(u)

Spec == Init /\ [][Next]_vars

-----------------------------------------------------------------------------
TypeOK ==
  /\ readerThreadHandles \subseteq ReaderThreadHandle
  /\ handle \in [Users -> Handles \union {NoHandle}]
  /\ szReader \in [Users -> Readers \union {NoReader}]
  /\ connectedTo \in [Handles -> Readers \union {NoReader}]
  /\ connectedBy \in [Handles -> Threads \union {NoThread}]
  /\ g_listReadersCalled \in BOOLEAN

\* A handle that SCardConnect() returned is connected, to the reader that was asked
\* for, until its user disconnects: no disconnect by another thread, of a handle it
\* shared or of one of its own, and no failed call, closes it under a user
\* (WinscardImpl.cpp:705-764).
HandlesUsable ==
  \A u \in Users : Connected(u) => /\ connectedTo[handle[u]] = szReader[u]
                                   /\ szReader[u] # NoReader

\* No connection outlives its users: the counter never keeps a handle open that
\* nobody can disconnect any more (WinscardImpl.cpp:750-758).
NoLeak ==
  \A h \in Handles : connectedTo[h] # NoReader => \E u \in Users : handle[u] = h

\* "Our solution is to allow only 1 thread to do an SCardConnect() for each reader"
\* (WinscardImpl.cpp:637): the connections to a reader were all made by one thread.
OneThreadConnects ==
  \A h, k \in Handles :
    connectedTo[h] # NoReader /\ connectedTo[h] = connectedTo[k]
      => connectedBy[h] = connectedBy[k]

\* The pool keeps the promise of SCardConnect() and SCardDisconnect().
Sharing == INSTANCE HandleSharing
ImplementsHandleSharing == Sharing!Spec
==============================================================================
