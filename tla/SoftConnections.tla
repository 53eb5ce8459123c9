---------------------------- MODULE SoftConnections ----------------------------
(***************************************************************************)
(* Connections to virtual readers, made and used by several threads: the   *)
(* SoftReaders and SoftCards of pcscproxy/SoftReaderManager.cpp and        *)
(* SoftReader.cpp, the calls of WinscardImpl.cpp that look one up and go   *)
(* on with the pointer, and the pool of hard handles (CardThreadPool)      *)
(* below them.  A list of the readers deletes the SoftReaders whose        *)
(* physical reader is not in it, with their SoftCards.                     *)
(*                                                                         *)
(* A lookup holds the srMutex of SoftReaderManager.cpp only as long as it  *)
(* searches; the call then waits for the PC/SC library and uses the        *)
(* pointer again.  Using an object that has been deleted since is          *)
(* undefined: here the memory still has its old contents, or (a behaviour  *)
(* that just stops) the process ends.                                      *)
(*                                                                         *)
(* The application calls as it should: one call at a time with a handle.   *)
(***************************************************************************)
EXTENDS Naturals, FiniteSets

CONSTANTS
  Threads, Users, Readers, Handles,   \* as in CardThreadPool
  NoReader, NoHandle, NoThread,
  NoUser,
  OFFSET,     \* 0xe1d000
  MaxCards    \* bound: the SoftCards that are made

\* "Let's hope hard SCARDHANDLEs are either more or less then 0xe1d000 apart from each
\* other.." (SoftReader.cpp:63)
ASSUME OffsetAssumption ==
  /\ Handles \subseteq Nat /\ OFFSET \in Nat /\ MaxCards \in Nat
  /\ \A h, k \in Handles : h + OFFSET # k
ASSUME UsersAssumption == IsFiniteSet(Users) /\ Users # {} /\ Readers # {}
ASSUME NullAssumption ==
  /\ NoReader \notin Readers /\ NoHandle \notin Nat
  /\ NoThread \notin Threads /\ NoUser \notin Users

VARIABLES
  readerThreadHandles, handle, szReader, connectedTo, connectedBy,
  g_listReadersCalled,  \* as in CardThreadPool
  present,     \* PC/SC library: the readers that are plugged in
  softReaders, \* the hard names of SoftReaderManager::readers
  softCards,   \* itsSoftCards of all soft readers; a later one has a higher id
  born,        \* the SoftCards made so far
  virtual,     \* the users that connected to a virtual reader
  call,        \* the call each thread is in
  causes       \* history: how a call may have lost its object

pool == <<readerThreadHandles, handle, szReader, connectedTo, connectedBy,
          g_listReadersCalled>>
vars == <<pool, present, softReaders, softCards, born, virtual, call, causes>>

Pool == INSTANCE CardThreadPool

SoftCard == [id : 1..MaxCards, reader : Readers, hard : Handles]

\* A call, for a user, with a pointer to the SoftReader or to the SoftCard (and so
\* its SoftReader); "gone" and card 0 say that the object has been deleted.
Idle == [pc |-> "idle", user |-> NoUser, reader |-> NoReader, gone |-> FALSE,
         card |-> 0, hard |-> NoHandle, names |-> {}]

Init ==
  /\ Pool!Init
  /\ present = Readers
  /\ softReaders = {}
  /\ softCards = {}
  /\ born = 0
  /\ virtual = {}
  /\ call = [t \in Threads |-> Idle]
  /\ causes = {}

HasCard(t) == call[t].pc \in {"calling", "disconnecting", "removing"}
Dangling(t) == call[t].gone \/ (HasCard(t) /\ call[t].card = 0)
Free(u) == \A t \in Threads : call[t].user # u

Enter(t, c) == call[t] = Idle /\ call' = [call EXCEPT ![t] = c]
Goto(t, pc) == call' = [call EXCEPT ![t].pc = pc]
Return(t) == call' = [call EXCEPT ![t] = Idle]

-----------------------------------------------------------------------------
(* SoftReader *)

\* The SCARDHANDLE that the application got.
SCARDHANDLE(u) == IF u \in virtual THEN handle[u] + OFFSET ELSE handle[u]

\* What getSoftCard() may answer: the first SoftCard of the first SoftReader that has
\* one with this handle.
Matching(hCard) == {c \in softCards : c.hard + OFFSET = hCard}
Oldest(cards) == {c \in cards : \A d \in cards : d.reader = c.reader => c.id <= d.id}
getSoftCard(hCard) == Oldest(Matching(hCard))

\* Mutant: two SoftCards are made.
createSoftCards(r, h) ==
  /\ born + 2 <= MaxCards
  /\ softCards' = softCards \union
       {[id |-> i, reader |-> r, hard |-> h] : i \in {born + 1, born + 2}}
  /\ born' = born + 2

\* Mutant: the handle of the virtual card is taken for that of the physical one.
createSoftCardOfSoft(r, h) ==
  /\ born < MaxCards
  /\ softCards' = softCards \union {[id |-> born + 1, reader |-> r, hard |-> h + OFFSET]}
  /\ born' = born + 1

createSoftCard(r, h) ==
  /\ born < MaxCards
  /\ softCards' = softCards \union {[id |-> born + 1, reader |-> r, hard |-> h]}
  /\ born' = born + 1

\* Mutant: the SoftCard of a closed handle stays.
disconnectNone(r, h) == {}

\* Mutant: the oldest SoftCard of the reader, whatever its handle.
disconnectAny(r, h) == Oldest({c \in softCards : c.reader = r})

\* SoftReader::disconnect() deletes the first SoftCard with this handle.
disconnect(r, h) == Oldest({c \in softCards : c.reader = r /\ c.hard = h})

\* t's call ends, and the calls of others lose what they point to.
Delete(t, readers, cards) ==
  /\ softCards' = softCards \ cards
  /\ call' = [s \in Threads |->
       IF s = t THEN Idle
       ELSE [call[s] EXCEPT
              !.gone = @ \/ call[s].reader \in readers,
              !.card = IF \E c \in cards : c.id = @ THEN 0 ELSE @]]

-----------------------------------------------------------------------------
(* SCardListReaders() and SoftReaderManager::createSoftReaders() *)

pSCardListReaders(t) ==
  /\ Enter(t, [Idle EXCEPT !.pc = "listing", !.names = present])
  /\ g_listReadersCalled' = TRUE
  /\ UNCHANGED <<readerThreadHandles, handle, szReader, connectedTo, connectedBy,
                 present, softReaders, softCards, born, virtual, causes>>

createSoftReaders(t) ==
  LET hardnames == call[t].names
      absent == softReaders \ hardnames
  IN /\ call[t].pc = "listing"
     /\ Delete(t, absent, {c \in softCards : c.reader \in absent})
     /\ softReaders' = hardnames
     /\ causes' = IF absent = {} THEN causes ELSE causes \union {"removed"}
     /\ UNCHANGED <<pool, present, born, virtual>>

-----------------------------------------------------------------------------
(* SCardConnect() *)

\* A virtual reader has been found by its name.
LookUpReader(t, u, r) ==
  /\ ~Pool!Connected(u) /\ Free(u)
  /\ r \in softReaders
  /\ Enter(t, [Idle EXCEPT !.pc = "connecting", !.user = u, !.reader = r])
  /\ UNCHANGED <<pool, present, softReaders, softCards, born, virtual, causes>>

\* SCardConnect_Threading(), whose connect fails when the reader is not there.
Connected(t, u, r) ==
  /\ \/ Pool!UseThisHandle(t, u, r) /\ causes' = causes \union {"shared"}
     \/ /\ r \in present
        /\ Pool!DoConnect(t, u, r)
        /\ causes' = IF \E s \in Threads : call[s].hard = handle'[u]
                     THEN causes \union {"reused"} ELSE causes
  /\ g_listReadersCalled' = TRUE

HardConnect(t) ==
  LET u == call[t].user
  IN /\ call[t].pc = "connecting"
     /\ \/ /\ Connected(t, u, call[t].reader)
           /\ virtual' = virtual \union {u}
           /\ Goto(t, "creating")
        \/ /\ Pool!DoConnectFails(t, call[t].reader) /\ g_listReadersCalled' = TRUE
           /\ Return(t)
           /\ UNCHANGED <<virtual, causes>>
     /\ UNCHANGED <<present, softReaders, softCards, born>>

\* A SoftCard that is added to a deleted SoftReader will not be found.
CreateSoftCard(t) ==
  /\ call[t].pc = "creating"
  /\ IF call[t].gone THEN UNCHANGED <<softCards, born>>
     ELSE createSoftCard(call[t].reader, handle[call[t].user])
  /\ Return(t)
  /\ UNCHANGED <<pool, present, softReaders, virtual, causes>>

\* A real reader has no SoftReader with its name.
ConnectReal(t, u, r) ==
  /\ ~Pool!Connected(u) /\ Free(u)
  /\ call[t] = Idle
  /\ Connected(t, u, r)
  /\ virtual' = virtual \ {u}
  /\ UNCHANGED <<present, softReaders, softCards, born, call>>

-----------------------------------------------------------------------------
(* SCardBeginTransaction(), SCardEndTransaction(), SCardTransmit() and SCardStatus()
   with a virtual card; SCardGetAttrib() and SCardControl() use the SoftCard once. *)

LookUpCard(t, u, pc) ==
  /\ Pool!Connected(u) /\ Free(u)
  /\ \E c \in getSoftCard(SCARDHANDLE(u)) :
       Enter(t, [Idle EXCEPT !.pc = pc, !.user = u, !.reader = c.reader,
                             !.card = c.id, !.hard = c.hard])
  /\ UNCHANGED <<pool, present, softReaders, softCards, born, virtual, causes>>

UseCard(t) ==
  /\ call[t].pc = "calling"
  /\ Return(t)
  /\ UNCHANGED <<pool, present, softReaders, softCards, born, virtual, causes>>

-----------------------------------------------------------------------------
(* SCardDisconnect().  Without a SoftCard the handle of a virtual reader goes to the
   PC/SC library as it is, which does not know it. *)

\* Mutant: the pool is not asked.
HardDisconnectAtOnce(t) ==
  LET h == handle[call[t].user]
  IN /\ call[t].pc = "disconnecting"
     /\ Pool!Receive(call[t].user, NoReader, NoHandle)
     /\ connectedTo' = [connectedTo EXCEPT ![h] = NoReader]
     /\ connectedBy' = [connectedBy EXCEPT ![h] = NoThread]
     /\ virtual' = virtual \ {call[t].user}
     /\ Goto(t, "removing")
     /\ UNCHANGED <<readerThreadHandles, g_listReadersCalled, present, softReaders,
                    softCards, born, causes>>

HardDisconnect(t) ==
  LET u == call[t].user
  IN /\ call[t].pc = "disconnecting"
     /\ \/ /\ Pool!StaysConnected(u) \/ Pool!DoDisconnect(u)
           /\ virtual' = virtual \ {u}
           /\ Goto(t, "removing")
        \/ Pool!DoDisconnectFails(u) /\ Return(t) /\ UNCHANGED virtual
     /\ UNCHANGED <<g_listReadersCalled, present, softReaders, softCards, born, causes>>

DeleteSoftCard(t) ==
  /\ call[t].pc = "removing"
  /\ Delete(t, {}, IF call[t].gone THEN {} ELSE disconnect(call[t].reader, call[t].hard))
  /\ UNCHANGED <<pool, present, softReaders, born, virtual, causes>>

DisconnectReal(t, u) ==
  /\ Pool!Connected(u) /\ Free(u)
  /\ u \notin virtual
  /\ call[t] = Idle
  /\ Pool!SCardDisconnect_Threading(u)
  /\ UNCHANGED <<present, softReaders, softCards, born, virtual, call, causes>>

-----------------------------------------------------------------------------
Plug(r) ==
  /\ present' \in {present \union {r}, present \ {r}}
  /\ UNCHANGED <<pool, softReaders, softCards, born, virtual, call, causes>>

Next ==
  \/ \E t \in Threads :
       \/ pSCardListReaders(t) \/ createSoftReaders(t)
       \/ HardConnect(t) \/ CreateSoftCard(t)
       \/ UseCard(t)
       \/ HardDisconnect(t) \/ DeleteSoftCard(t)
       \/ \E u \in Users :
            \/ LookUpCard(t, u, "calling") \/ LookUpCard(t, u, "disconnecting")
            \/ DisconnectReal(t, u)
            \/ \E r \in Readers : LookUpReader(t, u, r) \/ ConnectReal(t, u, r)
  \/ \E r \in Readers : Plug(r)

Spec == Init /\ [][Next]_vars

-----------------------------------------------------------------------------
Call ==
  [pc : {"idle", "listing", "connecting", "creating", "calling", "disconnecting", "removing"},
   user : Users \union {NoUser}, reader : Readers \union {NoReader}, gone : BOOLEAN,
   card : 0..MaxCards, hard : Handles \union {NoHandle}, names : SUBSET Readers]

TypeOK ==
  /\ Pool!TypeOK
  /\ present \subseteq Readers /\ softReaders \subseteq Readers
  /\ softCards \subseteq SoftCard /\ born \in 0..MaxCards
  /\ virtual \subseteq Users
  /\ call \in [Threads -> Call]
  /\ causes \subseteq {"removed", "shared", "reused"}

\* A call loses the SoftReader or SoftCard it points to in three ways only: a list
\* removed a reader, two threads share a hard handle, or the PC/SC library gave out
\* a handle again before the SoftCard of its former connection was deleted
\* (WinscardImpl.cpp:129-145, SoftReader.cpp:70-84).
ObjectsKept == \A t \in Threads : Dangling(t) => causes # {}

\* While no reader is removed and no handle given out too soon there is a SoftCard for
\* each user of a hard handle that connected to the virtual reader, and none for one who
\* has left, in whatever order threads that share the handle connect and disconnect
\* (SoftReader.cpp:59-84).
OneCardPerUser ==
  causes \subseteq {"shared"} =>
    \A h \in Handles :
      Cardinality({c \in softCards : c.hard = h})
        = Cardinality({u \in virtual : handle[u] = h /\ \A t \in Threads :
                         call[t].user = u => call[t].pc # "creating"})
          + Cardinality({t \in Threads : call[t].pc = "removing" /\ call[t].hard = h})

\* getSoftCard() finds no SoftCard for a handle of a real reader; and for one of a
\* virtual reader it finds a SoftCard of that reader, even when lists have deleted and
\* made SoftReaders, as long as no handle is given out too soon
\* (SoftReaderManager.cpp:226-238).
RightCard ==
  \A u \in Users : Pool!Connected(u) =>
    \A c \in Matching(SCARDHANDLE(u)) :
      u \in virtual /\ ("reused" \notin causes => c.reader = szReader[u])

\* The virtual readers use the pool as applications with real readers do: whatever
\* threads do here is something the pool allows, so that what is true of its handles
\* stays true (WinscardImpl.cpp:104, 138).
ImplementsCardThreadPool == Pool!Spec
==============================================================================
