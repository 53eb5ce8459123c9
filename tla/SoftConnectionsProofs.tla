------------------------- MODULE SoftConnectionsProofs -------------------------
(***************************************************************************)
(* Every step is one that CardThreadPool allows, or none, so the invariant *)
(* of CardThreadPoolProofs holds here too.  For that a call must know that *)
(* its user is still as it found it: no other call is for the same user.   *)
(***************************************************************************)
EXTENDS SoftConnections, FiniteSetTheorems, TLAPS

PoolP == INSTANCE CardThreadPoolProofs

\* A connected user is one that keeps its handle; a list comes first.
FlagInv ==
  ~g_listReadersCalled => readerThreadHandles = {} /\ \A u \in Users : handle[u] = NoHandle

CallInv(t) ==
  /\ call[t].pc \notin {"idle", "listing"} => call[t].user \in Users /\ call[t].reader \in Readers
  /\ call[t].pc = "connecting" => ~Pool!Connected(call[t].user)
  /\ call[t].pc \in {"creating", "calling", "disconnecting"} => Pool!Connected(call[t].user)
  /\ call[t].pc \in {"disconnecting", "removing"} => call[t].hard \in Handles

OwnUser ==
  \A s, t \in Threads : call[s].user = call[t].user /\ call[s].user # NoUser => s = t

IInv == TypeOK /\ FlagInv /\ (\A t \in Threads : CallInv(t)) /\ OwnUser

-----------------------------------------------------------------------------
(* The pool *)

LEMMA SameNext == Pool!Next <=> PoolP!Next
  BY DEF Pool!Next, Pool!SCardConnect_Threading, Pool!SCardDisconnect_Threading,
     Pool!UseThisHandle, Pool!DoConnect, Pool!DoConnectFails, Pool!StaysConnected,
     Pool!DoDisconnect, Pool!DoDisconnectFails, Pool!Connected, Pool!Receive,
     Pool!GetCardHandle, Pool!MayConnect, Pool!addCardHandle, Pool!EntriesOf,
     Pool!CountDown, Pool!Forget,
     PoolP!Next, PoolP!SCardConnect_Threading, PoolP!SCardDisconnect_Threading,
     PoolP!UseThisHandle, PoolP!DoConnect, PoolP!DoConnectFails, PoolP!StaysConnected,
     PoolP!DoDisconnect, PoolP!DoDisconnectFails, PoolP!Connected, PoolP!Receive,
     PoolP!GetCardHandle, PoolP!MayConnect, PoolP!addCardHandle, PoolP!EntriesOf,
     PoolP!CountDown, PoolP!Forget

LEMMA PoolAssumptions ==
  /\ IsFiniteSet(Users)
  /\ NoReader \notin Readers /\ NoHandle \notin Handles /\ NoThread \notin Threads
  BY UsersAssumption, NullAssumption, OffsetAssumption

LEMMA PoolStep == PoolP!IInv /\ [Pool!Next]_pool => PoolP!IInv'
<1>0. PoolP!UsersAssumption /\ PoolP!NullAssumption
  BY PoolAssumptions DEF PoolP!UsersAssumption, PoolP!NullAssumption, PoolP!IsFiniteSet, IsFiniteSet
<1>1. PoolP!IInv /\ [PoolP!Next]_(PoolP!vars) => PoolP!IInv'
  BY <1>0, PoolP!NextIInv
<1>2. QED
  BY <1>1, SameNext DEF pool, PoolP!vars

LEMMA PoolPromises == PoolP!IInv => Pool!TypeOK /\ Pool!HandlesUsable /\ Pool!NoLeak
  BY DEF PoolP!IInv, PoolP!TypeOK, PoolP!HandlesUsable, PoolP!NoLeak, PoolP!Connected,
     PoolP!ReaderThreadHandle, Pool!TypeOK, Pool!HandlesUsable, Pool!NoLeak,
     Pool!Connected, Pool!ReaderThreadHandle

LEMMA PoolInit == Pool!Init => PoolP!IInv
<1>1. PoolP!UsersAssumption /\ PoolP!NullAssumption
  BY PoolAssumptions DEF PoolP!UsersAssumption, PoolP!NullAssumption, PoolP!IsFiniteSet, IsFiniteSet
<1>2. Pool!Init => PoolP!Init
  BY DEF Pool!Init, PoolP!Init
<1>3. QED
  BY <1>1, <1>2, PoolP!InitIInv

\* What the steps of the pool do to the variables that the calls read.
LEMMA PoolSteps ==
  ASSUME Pool!TypeOK, NEW t \in Threads, NEW u \in Users, NEW r \in Readers
  PROVE  /\ Connected(t, u, r)
              => /\ handle' \in [Users -> Handles \union {NoHandle}]
                 /\ handle'[u] # NoHandle
                 /\ \A v \in Users \ {u} : handle'[v] = handle[v]
         /\ Pool!StaysConnected(u) \/ Pool!DoDisconnect(u) \/ Pool!DoDisconnectFails(u)
              => /\ handle' \in [Users -> Handles \union {NoHandle}]
                 /\ \A v \in Users \ {u} : handle'[v] = handle[v]
  BY PoolAssumptions
     DEF Connected, Pool!TypeOK, Pool!UseThisHandle, Pool!DoConnect, Pool!Receive,
         Pool!Connected, Pool!GetCardHandle, Pool!EntriesOf, Pool!ReaderThreadHandle,
         Pool!StaysConnected, Pool!DoDisconnect, Pool!DoDisconnectFails

-----------------------------------------------------------------------------
(* Types *)

LEMMA IdleType == Idle \in Call /\ Idle.pc = "idle" /\ Idle.user = NoUser
  BY OffsetAssumption DEF Idle, Call

LEMMA DeleteType ==
  ASSUME TypeOK, NEW t \in Threads, NEW readers, NEW cards, Delete(t, readers, cards)
  PROVE  /\ softCards' \subseteq SoftCard
         /\ call' \in [Threads -> Call]
         /\ call'[t] = Idle
         /\ \A s \in Threads \ {t} :
              /\ call'[s].pc = call[s].pc /\ call'[s].user = call[s].user
              /\ call'[s].reader = call[s].reader /\ call'[s].hard = call[s].hard
<1> DEFINE gone(s) == call[s].gone \/ call[s].reader \in readers
          id(s) == IF \E c \in cards : c.id = call[s].card THEN 0 ELSE call[s].card
          after(s) == [call[s] EXCEPT !.gone = gone(s), !.card = id(s)]
<1>1. softCards' \subseteq SoftCard
  BY DEF TypeOK, Delete
<1>2. call' = [s \in Threads |-> IF s = t THEN Idle ELSE after(s)]
  BY DEF Delete
<1>3. ASSUME NEW s \in Threads
      PROVE  /\ after(s) \in Call
             /\ after(s).pc = call[s].pc /\ after(s).user = call[s].user
             /\ after(s).reader = call[s].reader /\ after(s).hard = call[s].hard
  <2>1. call[s] \in Call
    BY DEF TypeOK
  <2>2. gone(s) \in BOOLEAN
    OBVIOUS
  <2>3. id(s) \in 0..MaxCards
    BY <2>1, OffsetAssumption DEF Call
  <2> HIDE DEF gone, id
  <2>4. QED
    BY <2>1, <2>2, <2>3 DEF Call
<1> HIDE DEF after
<1>4. QED
  BY <1>1, <1>2, <1>3, IdleType

LEMMA EnterType ==
  ASSUME TypeOK, NEW t \in Threads, NEW c \in Call, Enter(t, c)
  PROVE  /\ call' \in [Threads -> Call]
         /\ call[t] = Idle /\ call'[t] = c
         /\ \A s \in Threads \ {t} : call'[s] = call[s]
  BY DEF TypeOK, Enter

LEMMA GotoType ==
  ASSUME TypeOK, NEW t \in Threads, NEW pc \in {"creating", "removing"}, Goto(t, pc)
  PROVE  /\ call' \in [Threads -> Call]
         /\ call'[t].pc = pc /\ call'[t].user = call[t].user
         /\ call'[t].reader = call[t].reader /\ call'[t].hard = call[t].hard
         /\ \A s \in Threads \ {t} : call'[s] = call[s]
  BY DEF TypeOK, Goto, Call

LEMMA ReturnType ==
  ASSUME TypeOK, NEW t \in Threads, Return(t)
  PROVE  /\ call' \in [Threads -> Call]
         /\ call'[t] = Idle
         /\ \A s \in Threads \ {t} : call'[s] = call[s]
  BY IdleType DEF TypeOK, Return

-----------------------------------------------------------------------------
(* The calls *)

\* A call for nobody, or with its user's handle and SoftCards as they were, keeps
\* CallInv; so does a thread that has no call.
LEMMA CallsKept ==
  ASSUME IInv, call' \in [Threads -> Call], UNCHANGED handle,
         \A s \in Threads :
           \/ call'[s] = Idle
           \/ /\ call'[s].pc = call[s].pc /\ call'[s].user = call[s].user
              /\ call'[s].reader = call[s].reader /\ call'[s].hard = call[s].hard
  PROVE  (\A s \in Threads : CallInv(s)') /\ OwnUser'
<1>1. ASSUME NEW s \in Threads PROVE CallInv(s)'
  BY IdleType DEF IInv, CallInv, Pool!Connected
<1>2. OwnUser'
  BY IdleType DEF IInv, OwnUser
<1>3. QED
  BY <1>1, <1>2

LEMMA ListStep ==
  ASSUME IInv, NEW t \in Threads, pSCardListReaders(t)
  PROVE  IInv' /\ [Pool!Next]_pool
<1> USE DEF IInv, pSCardListReaders
<1> DEFINE c == [Idle EXCEPT !.pc = "listing", !.names = present]
<1>1. c \in Call /\ c.pc = "listing" /\ c.user = NoUser
  BY IdleType DEF TypeOK, Idle, Call
<1> HIDE DEF c
<1>2. Enter(t, c)
  BY DEF c
<1>3. /\ call' \in [Threads -> Call]
      /\ call[t] = Idle /\ call'[t] = c
      /\ \A s \in Threads \ {t} : call'[s] = call[s]
  BY <1>1, <1>2, EnterType
<1>4. TypeOK'
  BY <1>3 DEF TypeOK, Pool!TypeOK, Pool!ReaderThreadHandle
<1>5. \A s \in Threads : CallInv(s)'
  BY <1>1, <1>3 DEF CallInv, Pool!Connected
<1>6. OwnUser'
  BY <1>1, <1>3, IdleType DEF OwnUser
<1>7. FlagInv'
  BY DEF FlagInv
<1>8. [Pool!Next]_pool
  <2>1. CASE g_listReadersCalled
    BY <2>1 DEF pool, TypeOK, Pool!TypeOK
  <2>2. CASE ~g_listReadersCalled
    <3>1. PICK u \in Users, r \in Readers : TRUE
      BY UsersAssumption
    <3>2. Pool!SCardConnect_Threading(t, u, r)
      BY <2>2 DEF FlagInv, Pool!SCardConnect_Threading, Pool!Connected,
                  Pool!DoConnectFails, Pool!MayConnect, Pool!EntriesOf
    <3>3. QED
      BY <3>2 DEF Pool!Next
  <2>3. QED
    BY <2>1, <2>2
<1>9. QED
  BY <1>4, <1>5, <1>6, <1>7, <1>8

LEMMA CreateReadersStep ==
  ASSUME IInv, NEW t \in Threads, createSoftReaders(t)
  PROVE  IInv' /\ [Pool!Next]_pool
<1> USE DEF IInv
<1> DEFINE absent == softReaders \ call[t].names
           cards == {c \in softCards : c.reader \in absent}
<1>1. /\ Delete(t, absent, cards)
      /\ softReaders' = call[t].names
      /\ causes' \in {causes, causes \union {"removed"}}
      /\ UNCHANGED <<pool, present, born, virtual>>
  BY DEF createSoftReaders
<1> HIDE DEF absent, cards
<1>2. /\ softCards' \subseteq SoftCard
      /\ call' \in [Threads -> Call]
      /\ call'[t] = Idle
      /\ \A s \in Threads \ {t} :
           /\ call'[s].pc = call[s].pc /\ call'[s].user = call[s].user
           /\ call'[s].reader = call[s].reader /\ call'[s].hard = call[s].hard
  BY <1>1, DeleteType
<1>3. TypeOK'
  BY <1>1, <1>2 DEF TypeOK, Pool!TypeOK, pool, Call, Pool!ReaderThreadHandle
<1>4. FlagInv'
  BY <1>1 DEF FlagInv, pool
<1>5. QED
  BY <1>1, <1>2, <1>3, <1>4, CallsKept DEF pool

\* A call begins that has no effect on anything else.
LEMMA BeginStep ==
  ASSUME IInv, NEW t \in Threads, NEW c \in Call, Enter(t, c),
         c.user \in Users, Free(c.user), c.reader \in Readers,
         \/ c.pc = "connecting" /\ ~Pool!Connected(c.user)
         \/ c.pc \in {"calling", "disconnecting"} /\ Pool!Connected(c.user) /\ c.hard \in Handles,
         UNCHANGED <<pool, present, softReaders, softCards, born, virtual, causes>>
  PROVE  IInv' /\ [Pool!Next]_pool
<1> USE DEF IInv
<1>1. /\ call' \in [Threads -> Call]
      /\ call[t] = Idle /\ call'[t] = c
      /\ \A s \in Threads \ {t} : call'[s] = call[s]
  BY EnterType
<1>2. TypeOK'
  BY <1>1 DEF TypeOK, Pool!TypeOK, pool, Pool!ReaderThreadHandle
<1>3. FlagInv'
  BY DEF FlagInv, pool
<1>4. \A s \in Threads : CallInv(s)'
  BY <1>1 DEF CallInv, Pool!Connected, pool
<1>5. OwnUser'
  BY <1>1 DEF OwnUser, Free
<1>6. QED
  BY <1>2, <1>3, <1>4, <1>5

LEMMA LookUpReaderStep ==
  ASSUME IInv, NEW t \in Threads, NEW u \in Users, NEW r \in Readers, LookUpReader(t, u, r)
  PROVE  IInv' /\ [Pool!Next]_pool
<1> DEFINE c == [Idle EXCEPT !.pc = "connecting", !.user = u, !.reader = r]
<1>1. c \in Call /\ c.pc = "connecting" /\ c.user = u /\ c.reader = r
  BY IdleType DEF Idle, Call
<1>2. Enter(t, c)
  BY DEF LookUpReader
<1> HIDE DEF c
<1>3. QED
  BY <1>1, <1>2, BeginStep DEF LookUpReader

LEMMA LookUpCardStep ==
  ASSUME IInv, NEW t \in Threads, NEW u \in Users, NEW pc \in {"calling", "disconnecting"},
         LookUpCard(t, u, pc)
  PROVE  IInv' /\ [Pool!Next]_pool
<1>1. PICK sc \in softCards :
        Enter(t, [Idle EXCEPT !.pc = pc, !.user = u, !.reader = sc.reader,
                              !.card = sc.id, !.hard = sc.hard])
  BY DEF LookUpCard, getSoftCard, Oldest, Matching
<1> DEFINE c == [Idle EXCEPT !.pc = pc, !.user = u, !.reader = sc.reader,
                             !.card = sc.id, !.hard = sc.hard]
<1>2. sc.id \in 0..MaxCards /\ sc.reader \in Readers /\ sc.hard \in Handles
  BY OffsetAssumption DEF IInv, TypeOK, SoftCard
<1>3. c \in Call /\ c.pc = pc /\ c.user = u /\ c.reader = sc.reader /\ c.hard = sc.hard
  BY <1>2 DEF Idle, Call
<1>4. Enter(t, c)
  BY <1>1
<1>5. c.reader \in Readers /\ c.hard \in Handles
  BY <1>2, <1>3
<1> HIDE DEF c
<1>6. QED
  BY <1>3, <1>4, <1>5, BeginStep DEF LookUpCard

\* A call ends that has changed nothing but SoftCards.
LEMMA EndStep ==
  ASSUME IInv, NEW t \in Threads, Return(t), UNCHANGED <<pool, present, softReaders, virtual, causes>>,
         softCards' \subseteq SoftCard, born' \in 0..MaxCards
  PROVE  IInv' /\ [Pool!Next]_pool
<1> USE DEF IInv
<1>1. /\ call' \in [Threads -> Call]
      /\ call'[t] = Idle
      /\ \A s \in Threads \ {t} : call'[s] = call[s]
  BY ReturnType
<1>2. TypeOK'
  BY <1>1 DEF TypeOK, Pool!TypeOK, pool, Pool!ReaderThreadHandle
<1>3. FlagInv'
  BY DEF FlagInv, pool
<1>4. QED
  BY <1>1, <1>2, <1>3, CallsKept DEF pool

LEMMA CreateSoftCardStep ==
  ASSUME IInv, NEW t \in Threads, CreateSoftCard(t)
  PROVE  IInv' /\ [Pool!Next]_pool
<1>1. softCards' \subseteq SoftCard /\ born' \in 0..MaxCards
  <2>1. call[t].reader \in Readers /\ handle[call[t].user] \in Handles
    BY DEF IInv, CallInv, CreateSoftCard, Pool!Connected, TypeOK, Pool!TypeOK
  <2>2. CASE call[t].gone
    BY <2>2 DEF CreateSoftCard, IInv, TypeOK
  <2>3. CASE ~call[t].gone
    <3>1. createSoftCard(call[t].reader, handle[call[t].user])
      BY <2>3 DEF CreateSoftCard
    <3>2. born + 1 \in 1..MaxCards
      BY <3>1, OffsetAssumption DEF createSoftCard, IInv, TypeOK
    <3>3. QED
      BY <3>1, <3>2, <2>1, OffsetAssumption DEF createSoftCard, SoftCard, IInv, TypeOK
  <2>4. QED
    BY <2>2, <2>3
<1>2. QED
  BY <1>1, EndStep DEF CreateSoftCard

LEMMA UseCardStep ==
  ASSUME IInv, NEW t \in Threads, UseCard(t)
  PROVE  IInv' /\ [Pool!Next]_pool
  BY EndStep DEF UseCard, IInv, TypeOK

LEMMA DeleteSoftCardStep ==
  ASSUME IInv, NEW t \in Threads, DeleteSoftCard(t)
  PROVE  IInv' /\ [Pool!Next]_pool
<1> USE DEF IInv
<1> DEFINE cards == IF call[t].gone THEN {} ELSE disconnect(call[t].reader, call[t].hard)
<1>1. Delete(t, {}, cards) /\ UNCHANGED <<pool, present, softReaders, born, virtual, causes>>
  BY DEF DeleteSoftCard
<1> HIDE DEF cards
<1>2. /\ softCards' \subseteq SoftCard
      /\ call' \in [Threads -> Call]
      /\ call'[t] = Idle
      /\ \A s \in Threads \ {t} :
           /\ call'[s].pc = call[s].pc /\ call'[s].user = call[s].user
           /\ call'[s].reader = call[s].reader /\ call'[s].hard = call[s].hard
  BY <1>1, DeleteType
<1>3. TypeOK'
  BY <1>1, <1>2 DEF TypeOK, Pool!TypeOK, pool, Pool!ReaderThreadHandle
<1>4. FlagInv'
  BY <1>1 DEF FlagInv, pool
<1>5. QED
  BY <1>1, <1>2, <1>3, <1>4, CallsKept DEF pool

-----------------------------------------------------------------------------
(* The calls that change the pool *)

LEMMA PoolTypeNext ==
  ASSUME PoolP!IInv, [Pool!Next]_pool
  PROVE  Pool!TypeOK'
<1>1. PoolP!IInv'
  BY PoolStep
<1>2. QED
  BY <1>1 DEF PoolP!IInv, PoolP!TypeOK, PoolP!ReaderThreadHandle, Pool!TypeOK,
              Pool!ReaderThreadHandle

\* A call that changes only the handle of its own user takes nothing from the others.
LEMMA OthersKept ==
  ASSUME IInv, NEW t \in Threads, NEW u \in Users,
         \A v \in Users \ {u} : handle'[v] = handle[v],
         \A s \in Threads \ {t} : call'[s] = call[s] /\ call[s].user # u
  PROVE  \A s \in Threads \ {t} : CallInv(s)'
  BY DEF IInv, CallInv, Pool!Connected

LEMMA HardConnectStep ==
  ASSUME IInv, PoolP!IInv, NEW t \in Threads, HardConnect(t)
  PROVE  IInv' /\ [Pool!Next]_pool
<1> USE DEF IInv
<1> DEFINE u == call[t].user
           r == call[t].reader
<1>1. /\ u \in Users /\ r \in Readers /\ ~Pool!Connected(u)
      /\ g_listReadersCalled' = TRUE
      /\ UNCHANGED <<present, softReaders, softCards, born>>
  BY DEF CallInv, HardConnect, Connected
<1>2. \A s \in Threads \ {t} : call[s].user # u
  BY <1>1, NullAssumption DEF OwnUser
<1>3. CASE Connected(t, u, r) /\ virtual' = virtual \union {u} /\ Goto(t, "creating")
  <2>1. Pool!Next
    BY <1>1, <1>3 DEF Pool!Next, Pool!SCardConnect_Threading, Connected
  <2>2. Pool!TypeOK'
    BY <2>1, PoolTypeNext
  <2>3. /\ call' \in [Threads -> Call]
        /\ call'[t].pc = "creating" /\ call'[t].user = u
        /\ call'[t].reader = r /\ call'[t].hard = call[t].hard
        /\ \A s \in Threads \ {t} : call'[s] = call[s]
    BY <1>3, GotoType
  <2>4. handle'[u] # NoHandle /\ \A v \in Users \ {u} : handle'[v] = handle[v]
    <3>1. Pool!TypeOK
      BY DEF TypeOK
    <3> HIDE DEF u, r
    <3>2. QED
      BY <1>1, <1>3, <3>1, PoolSteps
  <2>5. causes' \subseteq {"removed", "shared", "reused"}
    BY <1>3 DEF Connected, TypeOK
  <2>6. TypeOK'
    BY <1>1, <1>3, <2>2, <2>3, <2>5 DEF TypeOK
  <2>7. CallInv(t)'
    BY <1>1, <2>3, <2>4 DEF CallInv, Pool!Connected
  <2>8. \A s \in Threads \ {t} : CallInv(s)'
    BY <1>1, <1>2, <2>3, <2>4, OthersKept
  <2>9. OwnUser'
    BY <2>3 DEF OwnUser
  <2>10. QED
    BY <1>1, <2>1, <2>6, <2>7, <2>8, <2>9 DEF FlagInv
<1>4. CASE Pool!DoConnectFails(t, r) /\ Return(t) /\ UNCHANGED <<virtual, causes>>
  <2>1. Pool!Next
    BY <1>1, <1>4 DEF Pool!Next, Pool!SCardConnect_Threading
  <2>2. Pool!TypeOK' /\ UNCHANGED handle
    BY <1>4, <2>1, PoolTypeNext DEF Pool!DoConnectFails
  <2>3. /\ call' \in [Threads -> Call]
        /\ call'[t] = Idle
        /\ \A s \in Threads \ {t} : call'[s] = call[s]
    BY <1>4, ReturnType
  <2>4. TypeOK'
    BY <1>1, <1>4, <2>2, <2>3 DEF TypeOK
  <2>5. QED
    BY <1>1, <2>1, <2>2, <2>3, <2>4, CallsKept DEF FlagInv
<1>5. QED
  BY <1>3, <1>4 DEF HardConnect

LEMMA ConnectRealStep ==
  ASSUME IInv, PoolP!IInv, NEW t \in Threads, NEW u \in Users, NEW r \in Readers,
         ConnectReal(t, u, r)
  PROVE  IInv' /\ [Pool!Next]_pool
<1> USE DEF IInv
<1>1. Pool!Next
  BY DEF ConnectReal, Pool!Next, Pool!SCardConnect_Threading, Connected
<1>2. Pool!TypeOK'
  BY <1>1, PoolTypeNext
<1>3. \A v \in Users \ {u} : handle'[v] = handle[v]
  BY PoolSteps DEF TypeOK, ConnectReal
<1>4. TypeOK'
  BY <1>2 DEF TypeOK, ConnectReal, Connected
<1>5. \A s \in Threads : CallInv(s)'
  BY <1>3 DEF CallInv, Pool!Connected, ConnectReal, Free
<1>6. OwnUser' /\ FlagInv'
  BY DEF OwnUser, FlagInv, ConnectReal, Connected
<1>7. QED
  BY <1>1, <1>4, <1>5, <1>6

LEMMA HardDisconnectStep ==
  ASSUME IInv, PoolP!IInv, NEW t \in Threads, HardDisconnect(t)
  PROVE  IInv' /\ [Pool!Next]_pool
<1> USE DEF IInv
<1> DEFINE u == call[t].user
<1>1. /\ u \in Users /\ Pool!Connected(u) /\ call[t].reader \in Readers
      /\ UNCHANGED <<g_listReadersCalled, present, softReaders, softCards, born, causes>>
  BY DEF CallInv, HardDisconnect
<1>2. \A s \in Threads \ {t} : call[s].user # u
  BY <1>1, NullAssumption DEF OwnUser
<1>3. Pool!Next
  BY <1>1 DEF HardDisconnect, Pool!Next, Pool!SCardDisconnect_Threading
<1>4. Pool!TypeOK'
  BY <1>3, PoolTypeNext
<1>5. \A v \in Users \ {u} : handle'[v] = handle[v]
  BY <1>1, PoolSteps, UsersAssumption DEF TypeOK, HardDisconnect
<1>6. FlagInv'
  BY <1>1 DEF FlagInv, Pool!Connected
<1>7. CASE virtual' = virtual \ {u} /\ Goto(t, "removing")
  <2>1. /\ call' \in [Threads -> Call]
        /\ call'[t].pc = "removing" /\ call'[t].user = u
        /\ call'[t].reader = call[t].reader /\ call'[t].hard = call[t].hard
        /\ \A s \in Threads \ {t} : call'[s] = call[s]
    BY <1>7, GotoType
  <2>2. TypeOK'
    BY <1>1, <1>4, <1>7, <2>1 DEF TypeOK
  <2>3. CallInv(t)'
    BY <1>1, <2>1 DEF CallInv, HardDisconnect
  <2>4. \A s \in Threads \ {t} : CallInv(s)'
    BY <1>1, <1>2, <1>5, <2>1, OthersKept
  <2>5. OwnUser'
    BY <2>1 DEF OwnUser
  <2>6. QED
    BY <1>3, <1>6, <2>2, <2>3, <2>4, <2>5
<1>8. CASE Pool!DoDisconnectFails(u) /\ Return(t) /\ UNCHANGED virtual
  <2>1. /\ call' \in [Threads -> Call]
        /\ call'[t] = Idle
        /\ \A s \in Threads \ {t} : call'[s] = call[s]
    BY <1>8, ReturnType
  <2>2. TypeOK' /\ UNCHANGED handle
    BY <1>1, <1>4, <1>8, <2>1 DEF TypeOK, Pool!DoDisconnectFails
  <2>3. QED
    BY <1>3, <1>6, <2>1, <2>2, CallsKept
<1>9. QED
  BY <1>7, <1>8 DEF HardDisconnect

LEMMA DisconnectRealStep ==
  ASSUME IInv, PoolP!IInv, NEW t \in Threads, NEW u \in Users, DisconnectReal(t, u)
  PROVE  IInv' /\ [Pool!Next]_pool
<1> USE DEF IInv
<1>1. Pool!Next
  BY DEF DisconnectReal, Pool!Next
<1>2. Pool!TypeOK'
  BY <1>1, PoolTypeNext
<1>3. \A v \in Users \ {u} : handle'[v] = handle[v]
  BY PoolSteps, UsersAssumption DEF TypeOK, DisconnectReal, Pool!SCardDisconnect_Threading
<1>4. TypeOK'
  BY <1>2 DEF TypeOK, DisconnectReal
<1>5. \A s \in Threads : CallInv(s)'
  BY <1>3 DEF CallInv, Pool!Connected, DisconnectReal, Free
<1>6. OwnUser' /\ FlagInv'
  BY DEF OwnUser, FlagInv, DisconnectReal, Pool!Connected, Pool!SCardDisconnect_Threading
<1>7. QED
  BY <1>1, <1>4, <1>5, <1>6

LEMMA PlugStep ==
  ASSUME IInv, NEW r \in Readers, Plug(r)
  PROVE  IInv' /\ [Pool!Next]_pool
<1> USE DEF IInv
<1>1. TypeOK'
  BY DEF TypeOK, Plug, Pool!TypeOK, pool, Pool!ReaderThreadHandle
<1>2. QED
  BY <1>1 DEF Plug, pool, FlagInv, CallInv, Pool!Connected, OwnUser

-----------------------------------------------------------------------------
(* The invariant *)

LEMMA InitIInv == Init => IInv /\ PoolP!IInv
<1> SUFFICES ASSUME Init PROVE IInv /\ PoolP!IInv
  OBVIOUS
<1>1. PoolP!IInv
  BY PoolInit DEF Init
<1>2. Pool!TypeOK
  BY <1>1, PoolPromises
<1>3. TypeOK
  BY <1>2, IdleType, OffsetAssumption DEF Init, TypeOK
<1>4. FlagInv /\ (\A t \in Threads : CallInv(t)) /\ OwnUser
  BY IdleType DEF Init, FlagInv, CallInv, OwnUser, Pool!Init
<1>5. QED
  BY <1>1, <1>3, <1>4 DEF IInv

LEMMA NextIInv == IInv /\ PoolP!IInv /\ [Next]_vars => IInv' /\ [Pool!Next]_pool
<1> SUFFICES ASSUME IInv, PoolP!IInv, [Next]_vars PROVE IInv' /\ [Pool!Next]_pool
  OBVIOUS
<1>1. ASSUME NEW t \in Threads,
             pSCardListReaders(t) \/ createSoftReaders(t) \/ HardConnect(t)
               \/ CreateSoftCard(t) \/ UseCard(t) \/ HardDisconnect(t) \/ DeleteSoftCard(t)
      PROVE  IInv' /\ [Pool!Next]_pool
  BY <1>1, ListStep, CreateReadersStep, HardConnectStep, CreateSoftCardStep, UseCardStep,
     HardDisconnectStep, DeleteSoftCardStep
<1>2. ASSUME NEW t \in Threads, NEW u \in Users,
             LookUpCard(t, u, "calling") \/ LookUpCard(t, u, "disconnecting")
               \/ DisconnectReal(t, u)
      PROVE  IInv' /\ [Pool!Next]_pool
  BY <1>2, LookUpCardStep, DisconnectRealStep
<1>3. ASSUME NEW t \in Threads, NEW u \in Users, NEW r \in Readers,
             LookUpReader(t, u, r) \/ ConnectReal(t, u, r)
      PROVE  IInv' /\ [Pool!Next]_pool
  BY <1>3, LookUpReaderStep, ConnectRealStep
<1>4. ASSUME NEW r \in Readers, Plug(r) PROVE IInv' /\ [Pool!Next]_pool
  BY <1>4, PlugStep
<1>5. CASE UNCHANGED vars
  <2> USE <1>5 DEF vars, IInv
  <2>1. TypeOK'
    BY DEF TypeOK, Pool!TypeOK, pool, Pool!ReaderThreadHandle
  <2>2. QED
    BY <2>1 DEF pool, FlagInv, CallInv, Pool!Connected, OwnUser
<1>6. QED
  BY <1>1, <1>2, <1>3, <1>4, <1>5 DEF Next

LEMMA SpecIInv == Spec => [](IInv /\ PoolP!IInv)
<1>1. IInv /\ PoolP!IInv /\ [Next]_vars => (IInv /\ PoolP!IInv)'
  BY NextIInv, PoolStep
<1>2. QED
  BY InitIInv, <1>1, PTL DEF Spec

-----------------------------------------------------------------------------
\* Type correctness, for any number of threads, users, readers and handles.
THEOREM TypeCorrect == Spec => []TypeOK
<1>1. IInv => TypeOK
  BY DEF IInv
<1>2. QED
  BY <1>1, SpecIInv, PTL

\* The virtual readers use the pool as CardThreadPool says it is used: by one step of
\* it at a time, whatever threads, lists and plugged readers do (WinscardImpl.cpp:96-152).
THEOREM Refinement == Spec => ImplementsCardThreadPool
<1>1. Init => Pool!Init
  BY DEF Init
<1>2. IInv /\ PoolP!IInv /\ [Next]_vars => [Pool!Next]_(Pool!vars)
  BY NextIInv DEF pool, Pool!vars
<1>3. QED
  BY <1>1, <1>2, SpecIInv, PTL DEF Spec, ImplementsCardThreadPool, Pool!Spec

-----------------------------------------------------------------------------
(* Pointers.  Until one of the three causes has happened, each hard handle has one *)
(* user, each SoftCard belongs to one connection, and a call has a pointer to the  *)
(* SoftCard of its own user, which nobody else deletes.                            *)

Unshared ==
  \A u, v \in Users : handle[u] = handle[v] /\ handle[u] # NoHandle => u = v

Removing(t, h) == call[t].pc = "removing" /\ call[t].hard = h

Owned ==
  /\ \A c \in softCards : \/ \E u \in virtual : handle[u] = c.hard
                          \/ \E t \in Threads : Removing(t, c.hard)
  /\ \A c, d \in softCards : c.hard = d.hard \/ c.id = d.id => c = d
  /\ \A c \in softCards : c.id <= born

CardCall(t) ==
  /\ HasCard(t) => \E c \in softCards :
       c.id = call[t].card /\ c.hard = call[t].hard /\ c.reader = call[t].reader
  /\ call[t].pc \in {"calling", "disconnecting"}
       => call[t].user \in virtual /\ handle[call[t].user] = call[t].hard
  /\ call[t].pc = "removing" =>
       /\ \A u \in Users : handle[u] # call[t].hard
       /\ \A s \in Threads : Removing(s, call[t].hard) => s = t

ReaderCall(t) ==
  /\ ~call[t].gone
  /\ call[t].pc = "creating" =>
       /\ call[t].user \in virtual
       /\ \A c \in softCards : c.hard # handle[call[t].user]

ObjCore == Unshared /\ Owned /\ \A t \in Threads : CardCall(t) /\ ReaderCall(t)

ObjInv == causes = {} => ObjCore

Strong == IInv /\ PoolP!IInv /\ ObjInv

\* Only steps of SCardConnect() and of lists are causes.
LEMMA CausesGrow == ASSUME TypeOK, Next PROVE causes' = {} => causes = {}
<1>1. ASSUME NEW t \in Threads,
             \/ createSoftReaders(t)
             \/ \E u \in Users, r \in Readers : ConnectReal(t, u, r)
      PROVE  causes' = {} => causes = {}
  <2>1. CASE createSoftReaders(t)
    BY <2>1 DEF createSoftReaders
  <2>2. CASE \E u \in Users, r \in Readers : Connected(t, u, r)
    BY <2>2 DEF Connected
  <2> QED BY <1>1, <2>1, <2>2 DEF ConnectReal
<1>2. ASSUME NEW t \in Threads, HardConnect(t) PROVE causes' = {} => causes = {}
  <2>1. CASE Connected(t, call[t].user, call[t].reader)
    BY <2>1 DEF Connected
  <2>2. CASE causes' = causes
    BY <2>2
  <2> QED BY <1>2, <2>1, <2>2 DEF HardConnect
<1>3. ASSUME NEW t \in Threads,
             \/ pSCardListReaders(t) \/ CreateSoftCard(t) \/ UseCard(t)
             \/ HardDisconnect(t) \/ DeleteSoftCard(t)
      PROVE  causes' = causes
  BY <1>3 DEF pSCardListReaders, CreateSoftCard, UseCard, HardDisconnect, DeleteSoftCard
<1>4. ASSUME NEW t \in Threads, NEW u \in Users,
             \/ LookUpCard(t, u, "calling") \/ LookUpCard(t, u, "disconnecting")
             \/ DisconnectReal(t, u)
             \/ \E r \in Readers : LookUpReader(t, u, r)
      PROVE  causes' = causes
  BY <1>4 DEF LookUpCard, DisconnectReal, LookUpReader
<1>5. ASSUME NEW r \in Readers, Plug(r) PROVE causes' = causes
  BY <1>5 DEF Plug
<1> QED BY <1>1, <1>2, <1>3, <1>4, <1>5 DEF Next

LEMMA SameCall ==
  ASSUME NEW c \in Call, NEW gone, NEW card
  PROVE  LET d == [c EXCEPT !.gone = gone, !.card = card]
         IN /\ d.pc = c.pc /\ d.user = c.user /\ d.reader = c.reader /\ d.hard = c.hard
            /\ d.gone = gone /\ d.card = card
  BY DEF Call

\* What a deletion of SoftCards leaves of the calls of others.
LEMMA DeleteCalls ==
  ASSUME TypeOK, NEW t \in Threads, NEW cards, Delete(t, {}, cards)
  PROVE  /\ softCards' = softCards \ cards
         /\ call'[t] = Idle
         /\ \A s \in Threads \ {t} :
              /\ call'[s].pc = call[s].pc /\ call'[s].user = call[s].user
              /\ call'[s].reader = call[s].reader /\ call'[s].hard = call[s].hard
              /\ call'[s].gone = call[s].gone
              /\ (\A c \in cards : c.id # call[s].card) => call'[s].card = call[s].card
<1>1. softCards' = softCards \ cards /\ call'[t] = Idle
  BY DEF Delete
<1>2. ASSUME NEW s \in Threads \ {t}
      PROVE  /\ call'[s].pc = call[s].pc /\ call'[s].user = call[s].user
             /\ call'[s].reader = call[s].reader /\ call'[s].hard = call[s].hard
             /\ call'[s].gone = call[s].gone
             /\ (\A c \in cards : c.id # call[s].card) => call'[s].card = call[s].card
  <2> DEFINE gone == call[s].gone \/ call[s].reader \in {}
             card == IF \E c \in cards : c.id = call[s].card THEN 0 ELSE call[s].card
  <2>1. call'[s] = [call[s] EXCEPT !.gone = gone, !.card = card]
    BY DEF Delete
  <2>2. call[s] \in Call /\ call[s].gone \in BOOLEAN
    BY DEF TypeOK, Call
  <2>3. gone = call[s].gone
    BY <2>2
  <2>4. (\A c \in cards : c.id # call[s].card) => card = call[s].card
    OBVIOUS
  <2> HIDE DEF gone, card
  <2>5. QED
    BY <2>1, <2>2, <2>3, <2>4, SameCall
<1>3. QED
  BY <1>1, <1>2

\* Steps that end or begin a call without a pointer and leave the rest alone.
LEMMA SameObjects ==
  ASSUME IInv, ObjCore, NEW t \in Threads,
         \/ call'[t] = Idle
         \/ call'[t].pc \in {"listing", "connecting"} /\ ~call'[t].gone,
         call[t].pc # "removing",
         \A s \in Threads \ {t} :
           /\ call'[s].pc = call[s].pc /\ call'[s].user = call[s].user
           /\ call'[s].reader = call[s].reader /\ call'[s].hard = call[s].hard
           /\ call'[s].gone = call[s].gone /\ call'[s].card = call[s].card,
         UNCHANGED <<handle, softCards, born, virtual>>
  PROVE  ObjCore'
<1> USE DEF ObjCore
<1>0. Idle.pc = "idle" /\ ~Idle.gone
  BY DEF Idle
<1>1. Unshared'
  BY DEF Unshared
<1>2. \A s \in Threads : \A h : Removing(s, h)' <=> Removing(s, h)
  BY <1>0 DEF Removing
<1>3. Owned'
  BY <1>2 DEF Owned
<1>4. ASSUME NEW s \in Threads PROVE CardCall(s)'
  BY <1>0, <1>2 DEF CardCall, HasCard
<1>5. ASSUME NEW s \in Threads PROVE ReaderCall(s)'
  BY <1>0 DEF ReaderCall
<1>6. QED
  BY <1>1, <1>3, <1>4, <1>5

LEMMA ListObj ==
  ASSUME IInv, ObjCore, NEW t \in Threads, pSCardListReaders(t)
  PROVE  ObjCore'
<1> DEFINE c == [Idle EXCEPT !.pc = "listing", !.names = present]
<1>1. c \in Call /\ c.pc = "listing"
  BY IdleType DEF IInv, TypeOK, Idle, Call
<1>2. c.gone = FALSE
  BY DEF Idle
<1>3. Enter(t, c)
  BY DEF pSCardListReaders
<1> HIDE DEF c
<1>4. call[t] = Idle /\ call'[t] = c /\ \A s \in Threads \ {t} : call'[s] = call[s]
  BY <1>1, <1>3, EnterType DEF IInv
<1>5. QED
  BY <1>1, <1>2, <1>4, SameObjects, IdleType DEF pSCardListReaders

LEMMA LookUpReaderObj ==
  ASSUME IInv, ObjCore, NEW t \in Threads, NEW u \in Users, NEW r \in Readers,
         LookUpReader(t, u, r)
  PROVE  ObjCore'
<1> DEFINE c == [Idle EXCEPT !.pc = "connecting", !.user = u, !.reader = r]
<1>1. c \in Call /\ c.pc = "connecting"
  BY IdleType DEF Idle, Call
<1>2. c.gone = FALSE
  BY DEF Idle
<1>3. Enter(t, c)
  BY DEF LookUpReader
<1> HIDE DEF c
<1>4. call[t] = Idle /\ call'[t] = c /\ \A s \in Threads \ {t} : call'[s] = call[s]
  BY <1>1, <1>3, EnterType DEF IInv
<1>5. QED
  BY <1>1, <1>2, <1>4, SameObjects, IdleType DEF LookUpReader, pool

LEMMA UseCardObj ==
  ASSUME IInv, ObjCore, NEW t \in Threads, UseCard(t)
  PROVE  ObjCore'
<1>1. call'[t] = Idle /\ \A s \in Threads \ {t} : call'[s] = call[s]
  BY ReturnType DEF IInv, UseCard
<1>2. QED
  BY <1>1, SameObjects DEF UseCard, pool

\* A list that removes no reader deletes nothing.
LEMMA CreateReadersObj ==
  ASSUME IInv, ObjCore, NEW t \in Threads, createSoftReaders(t), causes' = {}
  PROVE  ObjCore'
<1>1. softReaders \ call[t].names = {} /\ call[t].pc = "listing"
  BY DEF createSoftReaders
<1>2. Delete(t, {}, {}) /\ UNCHANGED <<handle, born, virtual>>
  <2>1. {c \in softCards : c.reader \in {}} = {}
    OBVIOUS
  <2>2. QED
    BY <1>1, <2>1 DEF createSoftReaders, pool
<1>3. QED
  BY <1>1, <1>2, DeleteCalls, SameObjects DEF IInv

LEMMA LookUpCardObj ==
  ASSUME IInv, ObjCore, NEW t \in Threads, NEW u \in Users,
         NEW pc \in {"calling", "disconnecting"}, LookUpCard(t, u, pc)
  PROVE  ObjCore'
<1> USE DEF ObjCore
<1>1. PICK sc \in softCards :
        /\ sc.hard + OFFSET = SCARDHANDLE(u)
        /\ Enter(t, [Idle EXCEPT !.pc = pc, !.user = u, !.reader = sc.reader,
                                 !.card = sc.id, !.hard = sc.hard])
  BY DEF LookUpCard, getSoftCard, Oldest, Matching
<1> DEFINE c == [Idle EXCEPT !.pc = pc, !.user = u, !.reader = sc.reader,
                             !.card = sc.id, !.hard = sc.hard]
<1>2. sc.id \in 0..MaxCards /\ sc.reader \in Readers /\ sc.hard \in Handles
  BY OffsetAssumption DEF IInv, TypeOK, SoftCard
<1>3. /\ c \in Call /\ c.pc = pc /\ c.user = u /\ c.reader = sc.reader
      /\ c.hard = sc.hard /\ c.card = sc.id
  BY <1>2 DEF Idle, Call
<1>4. c.gone = FALSE
  BY DEF Idle
<1>5. u \in virtual /\ handle[u] = sc.hard
  <2>1. handle[u] \in Handles
    BY DEF LookUpCard, Pool!Connected, IInv, TypeOK, Pool!TypeOK
  <2>2. u \in virtual
    BY <1>1, <1>2, <2>1, OffsetAssumption DEF SCARDHANDLE
  <2>3. QED
    BY <1>1, <1>2, <2>1, <2>2, OffsetAssumption DEF SCARDHANDLE
<1>6. Enter(t, c)
  BY <1>1
<1> HIDE DEF c
<1>7. call[t] = Idle /\ call'[t] = c /\ \A s \in Threads \ {t} : call'[s] = call[s]
  BY <1>3, <1>6, EnterType DEF IInv
<1>8. UNCHANGED <<handle, softCards, born, virtual>>
  BY DEF LookUpCard, pool
<1>9. \A s \in Threads : \A h : Removing(s, h)' <=> Removing(s, h)
  BY <1>3, <1>7, IdleType DEF Removing
<1>10. Unshared' /\ Owned'
  BY <1>8, <1>9 DEF Unshared, Owned
<1>11. CardCall(t)'
  BY <1>3, <1>5, <1>7, <1>8 DEF CardCall, HasCard
<1>12. ASSUME NEW s \in Threads \ {t} PROVE CardCall(s)'
  BY <1>7, <1>8, <1>9 DEF CardCall, HasCard
<1>13. ASSUME NEW s \in Threads PROVE ReaderCall(s)'
  BY <1>3, <1>4, <1>7, <1>8 DEF ReaderCall
<1>14. QED
  BY <1>10, <1>11, <1>12, <1>13

LEMMA CreateSoftCardObj ==
  ASSUME IInv, ObjCore, NEW t \in Threads, CreateSoftCard(t)
  PROVE  ObjCore'
<1> USE DEF ObjCore
<1> DEFINE u == call[t].user
           new == [id |-> born + 1, reader |-> call[t].reader, hard |-> handle[u]]
<1>1. call[t].pc = "creating" /\ ~call[t].gone /\ u \in virtual
      /\ \A c \in softCards : c.hard # handle[u]
  BY DEF CreateSoftCard, ReaderCall
<1>2. softCards' = softCards \union {new} /\ born' = born + 1
      /\ UNCHANGED <<handle, virtual>>
  BY <1>1 DEF CreateSoftCard, createSoftCard, pool
<1>3. call'[t] = Idle /\ \A s \in Threads \ {t} : call'[s] = call[s]
  BY ReturnType DEF IInv, CreateSoftCard
<1>4. \A s \in Threads : \A h : Removing(s, h)' <=> Removing(s, h)
  BY <1>1, <1>3, IdleType DEF Removing
<1>5. Unshared'
  BY <1>2 DEF Unshared
<1>6. Owned'
  <2>1. \A c \in softCards : c.id \in Nat /\ c.id <= born
    BY DEF IInv, TypeOK, SoftCard, Owned
  <2>2. born \in Nat
    BY DEF IInv, TypeOK
  <2>3. new.id = born + 1 /\ new.hard = handle[u]
    OBVIOUS
  <2> HIDE DEF new
  <2>4. \A c \in softCards' : \/ \E v \in virtual' : handle'[v] = c.hard
                              \/ \E s \in Threads : Removing(s, c.hard)'
    BY <1>1, <1>2, <1>4, <2>3 DEF Owned
  <2>5. \A c, d \in softCards' : c.hard = d.hard \/ c.id = d.id => c = d
    BY <1>1, <1>2, <2>1, <2>2, <2>3 DEF Owned
  <2>6. \A c \in softCards' : c.id <= born'
    BY <1>2, <2>1, <2>2, <2>3
  <2>7. QED
    BY <2>4, <2>5, <2>6 DEF Owned
<1>7. CardCall(t)' /\ ReaderCall(t)'
  BY <1>3, IdleType DEF CardCall, ReaderCall, HasCard, Idle
<1>8. ASSUME NEW s \in Threads \ {t} PROVE CardCall(s)'
  BY <1>2, <1>3, <1>4 DEF CardCall, HasCard
<1>9. ASSUME NEW s \in Threads \ {t} PROVE ReaderCall(s)'
  <2>1. CASE call[s].pc = "creating"
    <3>1. call[s].user \in Users /\ u \in Users /\ call[s].user # u
      BY <1>1, <2>1, NullAssumption DEF IInv, CallInv, OwnUser
    <3>2. handle[call[s].user] # handle[u]
      BY <1>1, <2>1, <3>1 DEF Unshared, IInv, CallInv, Pool!Connected
    <3>3. QED
      BY <1>2, <1>3, <2>1, <3>2 DEF ReaderCall
  <2>2. CASE call[s].pc # "creating"
    BY <1>3, <2>2 DEF ReaderCall
  <2>3. QED
    BY <2>1, <2>2
<1>10. QED
  BY <1>5, <1>6, <1>7, <1>8, <1>9

\* A handle that the PC/SC library gives out is nobody's, and no call still has it.
LEMMA NewHandle ==
  ASSUME IInv, PoolP!IInv, NEW t \in Threads, NEW u \in Users, NEW r \in Readers,
         Connected(t, u, r), causes' = {}
  PROVE  /\ handle'[u] \in Handles
         /\ \A v \in Users : handle[v] # handle'[u]
         /\ \A s \in Threads : call[s].hard # handle'[u]
         /\ \A v \in Users \ {u} : handle'[v] = handle[v]
<1>1. Pool!DoConnect(t, u, r) /\ \A s \in Threads : call[s].hard # handle'[u]
  BY DEF Connected
<1>2. handle \in [Users -> Handles \union {NoHandle}]
  BY DEF IInv, TypeOK, Pool!TypeOK
<1>3. PICK h \in Handles : connectedTo[h] = NoReader /\ handle' = [handle EXCEPT ![u] = h]
  BY <1>1 DEF Pool!DoConnect, Pool!Receive
<1>4. ASSUME NEW v \in Users, handle[v] = h PROVE FALSE
  <2>1. Pool!Connected(v)
    BY <1>4, PoolAssumptions DEF Pool!Connected
  <2>2. QED
    BY <1>3, <1>4, <2>1, PoolPromises DEF Pool!HandlesUsable
<1>5. QED
  BY <1>1, <1>2, <1>3, <1>4

\* What a new connection of a free user changes for the others.
LEMMA ConnectedObj ==
  ASSUME IInv, PoolP!IInv, ObjCore, NEW t \in Threads, NEW u \in Users, NEW r \in Readers,
         Connected(t, u, r), causes' = {}, ~Pool!Connected(u),
         UNCHANGED <<softCards, born>>,
         virtual' \ {u} = virtual \ {u},
         \A s \in Threads :
           /\ Removing(s, call[s].hard)' <=> Removing(s, call[s].hard)
           /\ call[s].user # u => call'[s] = call[s]
           /\ call'[s].hard = call[s].hard
  PROVE  /\ Unshared' /\ Owned'
         /\ \A s \in Threads : call[s].user # u => CardCall(s)' /\ ReaderCall(s)'
<1> USE DEF ObjCore
<1>1. /\ handle'[u] \in Handles
      /\ \A v \in Users : handle[v] # handle'[u]
      /\ \A s \in Threads : call[s].hard # handle'[u]
      /\ \A v \in Users \ {u} : handle'[v] = handle[v]
  BY NewHandle
<1>2. handle[u] = NoHandle /\ NoHandle \notin Handles
  BY PoolAssumptions DEF Pool!Connected
<1>3. Unshared'
  BY <1>1 DEF Unshared
<1>4. \A s \in Threads : \A h : Removing(s, h)' <=> Removing(s, h)
  BY DEF Removing
<1>5. Owned'
  <2>1. \A c \in softCards : c.hard \in Handles
    BY DEF IInv, TypeOK, SoftCard
  <2>2. ASSUME NEW c \in softCards, NEW v \in virtual, handle[v] = c.hard
        PROVE  v \in virtual' /\ handle'[v] = c.hard
    <3>1. v # u /\ v \in Users
      BY <1>2, <2>1, <2>2 DEF IInv, TypeOK
    <3>2. QED
      BY <1>1, <2>2, <3>1
  <2>3. QED
    BY <1>4, <2>2 DEF Owned
<1>6. ASSUME NEW s \in Threads, call[s].user # u PROVE CardCall(s)' /\ ReaderCall(s)'
  <2>1. call'[s] = call[s]
    BY <1>6
  <2>2. CardCall(s)'
    <3>1. call[s].pc \in {"calling", "disconnecting"} => call[s].user \in Users \ {u}
      BY <1>6 DEF IInv, CallInv
    <3>2. call[s].pc \in {"calling", "disconnecting"}
            => call[s].user \in virtual' /\ handle'[call[s].user] = call[s].hard
      BY <1>1, <3>1 DEF CardCall
    <3>3. call[s].pc = "removing" =>
            /\ \A v \in Users : handle'[v] # call[s].hard
            /\ \A q \in Threads : Removing(q, call[s].hard)' => q = s
      BY <1>1, <1>4 DEF CardCall
    <3>4. QED
      BY <2>1, <3>2, <3>3 DEF CardCall, HasCard
  <2>3. ReaderCall(s)'
    <3>1. call[s].pc = "creating" => call[s].user \in Users \ {u}
      BY <1>6 DEF IInv, CallInv
    <3>2. QED
      BY <1>1, <2>1, <3>1 DEF ReaderCall
  <2>4. QED
    BY <2>2, <2>3
<1>7. QED
  BY <1>3, <1>5, <1>6

LEMMA HardConnectObj ==
  ASSUME IInv, PoolP!IInv, ObjCore, NEW t \in Threads, HardConnect(t), causes' = {}
  PROVE  ObjCore'
<1> USE DEF ObjCore
<1> DEFINE u == call[t].user
           r == call[t].reader
<1>1. /\ u \in Users /\ r \in Readers /\ ~Pool!Connected(u)
      /\ call[t].pc = "connecting"
      /\ UNCHANGED <<softCards, born>>
  BY DEF HardConnect, IInv, CallInv
<1>2. CASE Connected(t, u, r) /\ virtual' = virtual \union {u} /\ Goto(t, "creating")
  <2>1. /\ call'[t].pc = "creating" /\ call'[t].user = u
        /\ call'[t].reader = r /\ call'[t].hard = call[t].hard
        /\ \A s \in Threads \ {t} : call'[s] = call[s]
    BY <1>2, GotoType DEF IInv
  <2>2. call'[t].gone = call[t].gone
    BY <1>2 DEF Goto, IInv, TypeOK, Call
  <2>3. \A s \in Threads \ {t} : call[s].user # u
    BY <1>1, NullAssumption DEF IInv, OwnUser
  <2>4. \A s \in Threads : /\ Removing(s, call[s].hard)' <=> Removing(s, call[s].hard)
                           /\ call[s].user # u => call'[s] = call[s]
                           /\ call'[s].hard = call[s].hard
    BY <1>1, <2>1, <2>3 DEF Removing
  <2>5. virtual' \ {u} = virtual \ {u}
    BY <1>2
  <2>6. /\ Unshared' /\ Owned'
        /\ \A s \in Threads : call[s].user # u => CardCall(s)' /\ ReaderCall(s)'
    BY <1>1, <1>2, <2>4, <2>5, ConnectedObj
  <2>7. CardCall(t)'
    BY <2>1 DEF CardCall, HasCard
  <2>8. ReaderCall(t)'
    <3>1. /\ \A v \in Users : handle[v] # handle'[u]
          /\ \A s \in Threads : call[s].hard # handle'[u]
      BY <1>1, <1>2, NewHandle
    <3>2. \A c \in softCards : c.hard # handle'[u]
      BY <3>1 DEF Owned, Removing, IInv, TypeOK
    <3>3. QED
      BY <1>1, <1>2, <2>1, <2>2, <3>2 DEF ReaderCall
  <2>9. QED
    BY <2>3, <2>6, <2>7, <2>8
<1>3. CASE Pool!DoConnectFails(t, r) /\ Return(t) /\ UNCHANGED virtual
  <2>1. call'[t] = Idle /\ \A s \in Threads \ {t} : call'[s] = call[s]
    BY <1>3, ReturnType DEF IInv
  <2>2. UNCHANGED handle
    BY <1>3 DEF Pool!DoConnectFails
  <2>3. QED
    BY <1>1, <1>3, <2>1, <2>2, SameObjects
<1>4. QED
  BY <1>2, <1>3 DEF HardConnect

LEMMA ConnectRealObj ==
  ASSUME IInv, PoolP!IInv, ObjCore, NEW t \in Threads, NEW u \in Users, NEW r \in Readers,
         ConnectReal(t, u, r), causes' = {}
  PROVE  ObjCore'
<1> USE DEF ObjCore
<1>1. /\ Connected(t, u, r) /\ ~Pool!Connected(u) /\ virtual' = virtual \ {u}
      /\ UNCHANGED <<softCards, born, call>>
      /\ \A s \in Threads : call[s].user # u
  BY DEF ConnectReal, Free
<1>2. \A s \in Threads : Removing(s, call[s].hard)' <=> Removing(s, call[s].hard)
  BY <1>1 DEF Removing
<1>3. virtual' \ {u} = virtual \ {u}
  BY <1>1
<1>4. QED
  BY <1>1, <1>2, <1>3, ConnectedObj
LEMMA Left ==
  ASSUME IInv, NEW u \in Users,
         \/ Pool!StaysConnected(u) \/ Pool!DoDisconnect(u)
  PROVE  handle'[u] = NoHandle /\ \A v \in Users \ {u} : handle'[v] = handle[v]
  BY DEF IInv, TypeOK, Pool!TypeOK, Pool!StaysConnected, Pool!DoDisconnect, Pool!Receive

LEMMA HardDisconnectObj ==
  ASSUME IInv, PoolP!IInv, ObjCore, NEW t \in Threads, HardDisconnect(t)
  PROVE  ObjCore'
<1> USE DEF ObjCore
<1> DEFINE u == call[t].user
           h == call[t].hard
<1>1. /\ call[t].pc = "disconnecting" /\ u \in Users /\ u \in virtual /\ handle[u] = h
      /\ h \in Handles /\ NoHandle \notin Handles
      /\ UNCHANGED <<softCards, born>>
  BY PoolAssumptions DEF HardDisconnect, IInv, CallInv, CardCall
<1>2. \A s \in Threads \ {t} : call[s].user # u
  BY <1>1, NullAssumption DEF IInv, OwnUser
<1>3. CASE /\ Pool!StaysConnected(u) \/ Pool!DoDisconnect(u)
           /\ virtual' = virtual \ {u} /\ Goto(t, "removing")
  <2>1. /\ call'[t].pc = "removing" /\ call'[t].user = u
        /\ call'[t].reader = call[t].reader /\ call'[t].hard = h
        /\ \A s \in Threads \ {t} : call'[s] = call[s]
    BY <1>3, GotoType DEF IInv
  <2>2. call'[t].gone = call[t].gone /\ call'[t].card = call[t].card
    BY <1>3 DEF Goto, IInv, TypeOK, Call
  <2>3. handle'[u] = NoHandle /\ \A v \in Users \ {u} : handle'[v] = handle[v]
    BY <1>1, <1>3, Left
  <2>4. Unshared'
    BY <2>3 DEF Unshared
  <2>5. \A v \in Users \ {u} : handle[v] # h
    BY <1>1 DEF Unshared
  <2>6. \A s \in Threads : ~Removing(s, h)
    BY <1>1 DEF CardCall, Removing
  <2>7. \A s \in Threads : \A k : Removing(s, k)' <=> Removing(s, k) \/ (s = t /\ k = h)
    BY <1>1, <2>1 DEF Removing
  <2>8. Owned'
    <3>1. ASSUME NEW c \in softCards
          PROVE  \/ \E v \in virtual' : handle'[v] = c.hard
                 \/ \E s \in Threads : Removing(s, c.hard)'
      <4>1. CASE \E s \in Threads : Removing(s, c.hard)
        BY <2>7, <4>1
      <4>2. CASE \E v \in virtual : handle[v] = c.hard
        <5>1. PICK v \in virtual : handle[v] = c.hard
          BY <4>2
        <5>2. CASE v = u
          BY <1>1, <2>7, <5>1, <5>2
        <5>3. CASE v # u
          BY <1>3, <2>3, <5>1, <5>3 DEF IInv, TypeOK
        <5>4. QED
          BY <5>2, <5>3
      <4>3. QED
        BY <4>1, <4>2 DEF Owned
    <3>2. QED
      BY <1>1, <3>1 DEF Owned
  <2>9. CardCall(t)'
    <3>1. \E c \in softCards : c.id = call[t].card /\ c.hard = h /\ c.reader = call[t].reader
      BY <1>1 DEF CardCall, HasCard
    <3>2. \A v \in Users : handle'[v] # h
      BY <1>1, <2>3, <2>5
    <3>3. \A s \in Threads : Removing(s, h)' => s = t
      BY <2>1, <2>6, <2>7
    <3>4. QED
      BY <1>1, <2>1, <2>2, <3>1, <3>2, <3>3 DEF CardCall, HasCard
  <2>10. ReaderCall(t)'
    BY <2>1, <2>2 DEF ReaderCall
  <2>11. ASSUME NEW s \in Threads \ {t} PROVE CardCall(s)'
    <3>1. call[s].pc = "removing" =>
            /\ \A v \in Users : handle'[v] # call[s].hard
            /\ \A q \in Threads : Removing(q, call[s].hard)' => q = s
      <4>1. SUFFICES ASSUME call[s].pc = "removing"
                     PROVE  /\ \A v \in Users : handle'[v] # call[s].hard
                            /\ \A q \in Threads : Removing(q, call[s].hard)' => q = s
        OBVIOUS
      <4>2. call[s].hard \in Handles /\ \A v \in Users : handle[v] # call[s].hard
        BY <4>1 DEF CardCall, IInv, CallInv
      <4>3. call[s].hard # h
        BY <1>1, <4>2
      <4>4. QED
        BY <1>1, <2>1, <2>3, <2>7, <4>1, <4>2, <4>3 DEF CardCall
    <3>2. call[s].pc \in {"calling", "disconnecting"} => call[s].user \in Users \ {u}
      BY <1>2 DEF IInv, CallInv
    <3>3. call[s].pc \in {"calling", "disconnecting"}
            => call[s].user \in virtual' /\ handle'[call[s].user] = call[s].hard
      BY <1>3, <2>3, <3>2 DEF CardCall
    <3>4. QED
      BY <1>1, <2>1, <3>1, <3>3 DEF CardCall, HasCard
  <2>12. ASSUME NEW s \in Threads \ {t} PROVE ReaderCall(s)'
    <3>1. call[s].pc = "creating" => call[s].user \in Users \ {u}
      BY <1>2 DEF IInv, CallInv
    <3>2. QED
      BY <1>1, <1>3, <2>1, <2>3, <3>1 DEF ReaderCall
  <2>13. QED
    BY <2>4, <2>8, <2>9, <2>10, <2>11, <2>12
<1>4. CASE Pool!DoDisconnectFails(u) /\ Return(t) /\ UNCHANGED virtual
  <2>1. call'[t] = Idle /\ \A s \in Threads \ {t} : call'[s] = call[s]
    BY <1>4, ReturnType DEF IInv
  <2>2. UNCHANGED handle
    BY <1>4 DEF Pool!DoDisconnectFails
  <2>3. QED
    BY <1>1, <1>4, <2>1, <2>2, SameObjects
<1>5. QED
  BY <1>3, <1>4 DEF HardDisconnect

\* The SoftCard that is deleted is the one of the handle that was closed.
LEMMA DeleteSoftCardObj ==
  ASSUME IInv, ObjCore, NEW t \in Threads, DeleteSoftCard(t)
  PROVE  ObjCore'
<1> USE DEF ObjCore
<1> DEFINE h == call[t].hard
<1>1. /\ call[t].pc = "removing" /\ ~call[t].gone
      /\ UNCHANGED <<handle, born, virtual>>
  BY DEF DeleteSoftCard, ReaderCall, pool
<1>2. PICK own \in softCards :
        own.id = call[t].card /\ own.hard = h /\ own.reader = call[t].reader
  BY <1>1 DEF CardCall, HasCard
<1>3. \A c \in softCards : c.hard = h => c = own
  BY <1>2 DEF Owned
<1>4. disconnect(call[t].reader, h) = {own}
  <2>1. own.id \in Nat
    BY DEF IInv, TypeOK, SoftCard
  <2>2. QED
    BY <1>2, <1>3, <2>1 DEF disconnect, Oldest
<1>5. Delete(t, {}, {own})
  BY <1>1, <1>4 DEF DeleteSoftCard
<1>6. /\ softCards' = softCards \ {own}
      /\ call'[t] = Idle
      /\ \A s \in Threads \ {t} :
           /\ call'[s].pc = call[s].pc /\ call'[s].user = call[s].user
           /\ call'[s].reader = call[s].reader /\ call'[s].hard = call[s].hard
           /\ call'[s].gone = call[s].gone
           /\ own.id # call[s].card => call'[s].card = call[s].card
  BY <1>5, DeleteCalls DEF IInv
<1>7. Unshared'
  BY <1>1 DEF Unshared
<1>8. \A s \in Threads : \A k : Removing(s, k)' => Removing(s, k)
  BY <1>6, IdleType DEF Removing
<1>9. \A s \in Threads \ {t} : \A k : Removing(s, k) => Removing(s, k)'
  BY <1>6 DEF Removing
<1>10. Owned'
  <2>1. ASSUME NEW c \in softCards', NEW s \in Threads, Removing(s, c.hard)
        PROVE  Removing(s, c.hard)'
    <3>1. c.hard # h
      BY <1>3, <1>6
    <3>2. s # t
      BY <2>1, <3>1 DEF Removing
    <3>3. QED
      BY <1>9, <2>1, <3>2
  <2>2. \A c \in softCards' : \/ \E v \in virtual' : handle'[v] = c.hard
                              \/ \E s \in Threads : Removing(s, c.hard)'
    BY <1>1, <1>6, <2>1 DEF Owned
  <2>3. QED
    BY <1>1, <1>6, <2>2 DEF Owned
<1>11. CardCall(t)' /\ ReaderCall(t)'
  BY <1>6, IdleType DEF CardCall, ReaderCall, HasCard, Idle
<1>12. ASSUME NEW s \in Threads \ {t} PROVE CardCall(s)'
  <2>1. ASSUME HasCard(s)
        PROVE  \E c \in softCards' :
                 c.id = call'[s].card /\ c.hard = call'[s].hard /\ c.reader = call'[s].reader
    <3>1. PICK c \in softCards :
            c.id = call[s].card /\ c.hard = call[s].hard /\ c.reader = call[s].reader
      BY <2>1 DEF CardCall
    <3>2. call[s].hard # h
      <4>1. CASE call[s].pc = "removing"
        BY <1>1, <4>1 DEF CardCall, Removing
      <4>2. CASE call[s].pc \in {"calling", "disconnecting"}
        <5>1. call[s].user \in Users /\ handle[call[s].user] = call[s].hard
          BY <4>2 DEF CardCall, IInv, CallInv
        <5>2. QED
          BY <1>1, <5>1 DEF CardCall
      <4>3. QED
        BY <2>1, <4>1, <4>2 DEF HasCard
    <3>3. c # own /\ own.id # call[s].card
      BY <1>2, <3>1, <3>2 DEF Owned
    <3>4. QED
      BY <1>6, <3>1, <3>3
  <2>2. QED
    BY <1>1, <1>6, <1>8, <2>1 DEF CardCall, HasCard
<1>13. ASSUME NEW s \in Threads \ {t} PROVE ReaderCall(s)'
  BY <1>1, <1>6 DEF ReaderCall
<1>14. QED
  BY <1>7, <1>10, <1>11, <1>12, <1>13

LEMMA DisconnectRealObj ==
  ASSUME IInv, PoolP!IInv, ObjCore, NEW t \in Threads, NEW u \in Users, DisconnectReal(t, u)
  PROVE  ObjCore'
<1> USE DEF ObjCore
<1>1. /\ u \notin virtual /\ \A s \in Threads : call[s].user # u
      /\ UNCHANGED <<softCards, born, virtual, call>>
  BY DEF DisconnectReal, Free
<1>2. /\ \A v \in Users \ {u} : handle'[v] = handle[v]
      /\ handle'[u] \in {handle[u], NoHandle}
  <2>1. CASE Pool!StaysConnected(u) \/ Pool!DoDisconnect(u)
    BY <2>1, Left
  <2>2. CASE Pool!DoDisconnectFails(u)
    BY <2>2 DEF Pool!DoDisconnectFails
  <2>3. QED
    BY <2>1, <2>2 DEF DisconnectReal, Pool!SCardDisconnect_Threading
<1>3. Unshared'
  BY <1>2 DEF Unshared
<1>4. \A s \in Threads : \A h : Removing(s, h)' <=> Removing(s, h)
  BY <1>1 DEF Removing
<1>5. \A v \in virtual : v \in Users \ {u} /\ handle'[v] = handle[v]
  BY <1>1, <1>2 DEF IInv, TypeOK
<1>6. Owned'
  BY <1>1, <1>4, <1>5 DEF Owned
<1>7. ASSUME NEW s \in Threads PROVE CardCall(s)'
  <2>1. call[s].pc = "removing" => \A v \in Users : handle'[v] # call[s].hard
    BY <1>2, PoolAssumptions DEF CardCall, IInv, CallInv
  <2>2. QED
    BY <1>1, <1>4, <1>5, <2>1 DEF CardCall, HasCard
<1>8. ASSUME NEW s \in Threads PROVE ReaderCall(s)'
  BY <1>1, <1>5 DEF ReaderCall
<1>9. QED
  BY <1>3, <1>6, <1>7, <1>8

LEMMA SameObj ==
  ASSUME ObjCore, UNCHANGED <<handle, softCards, born, virtual, call>>
  PROVE  ObjCore'
  BY DEF ObjCore, Unshared, Owned, Removing, CardCall, ReaderCall, HasCard

LEMMA InitObj == Init => ObjInv
  BY IdleType DEF Init, Pool!Init, ObjInv, ObjCore, Unshared, Owned, CardCall, ReaderCall,
                  HasCard, Idle

LEMMA NextObj ==
  ASSUME IInv, PoolP!IInv, ObjInv, [Next]_vars
  PROVE  ObjInv'
<1> SUFFICES ASSUME causes' = {} PROVE ObjCore'
  BY DEF ObjInv
<1>1. CASE UNCHANGED vars
  BY <1>1, SameObj DEF vars, pool, ObjInv
<1>2. CASE Next
  <2>1. ObjCore
    BY <1>2, CausesGrow DEF IInv, ObjInv
  <2>2. ASSUME NEW t \in Threads,
               pSCardListReaders(t) \/ createSoftReaders(t) \/ HardConnect(t)
                 \/ CreateSoftCard(t) \/ UseCard(t) \/ HardDisconnect(t) \/ DeleteSoftCard(t)
        PROVE  ObjCore'
    BY <2>1, <2>2, ListObj, CreateReadersObj, HardConnectObj, CreateSoftCardObj, UseCardObj,
       HardDisconnectObj, DeleteSoftCardObj
  <2>3. ASSUME NEW t \in Threads, NEW u \in Users,
               LookUpCard(t, u, "calling") \/ LookUpCard(t, u, "disconnecting")
                 \/ DisconnectReal(t, u)
        PROVE  ObjCore'
    BY <2>1, <2>3, LookUpCardObj, DisconnectRealObj
  <2>4. ASSUME NEW t \in Threads, NEW u \in Users, NEW r \in Readers,
               LookUpReader(t, u, r) \/ ConnectReal(t, u, r)
        PROVE  ObjCore'
    BY <2>1, <2>4, LookUpReaderObj, ConnectRealObj
  <2>5. ASSUME NEW r \in Readers, Plug(r) PROVE ObjCore'
    BY <2>1, <2>5, SameObj DEF Plug, pool
  <2>6. QED
    BY <1>2, <2>2, <2>3, <2>4, <2>5 DEF Next
<1>3. QED
  BY <1>1, <1>2

\* A call keeps the SoftReader and the SoftCard it points to until a list removes a reader,
\* two threads share a hard handle or a handle is given out again too soon
\* (WinscardImpl.cpp:129-145, SoftReader.cpp:70-84).
THEOREM ObjectsKeptHolds == Spec => []ObjectsKept
<1>1. IInv /\ ObjInv => ObjectsKept
  <2> SUFFICES ASSUME IInv, ObjCore, NEW t \in Threads, Dangling(t) PROVE FALSE
    BY DEF ObjInv, ObjectsKept
  <2>1. HasCard(t) /\ call[t].card = 0
    BY DEF ObjCore, ReaderCall, Dangling
  <2>2. PICK c \in softCards : c.id = call[t].card
    BY <2>1 DEF ObjCore, CardCall
  <2>3. c.id \in 1..MaxCards
    BY DEF IInv, TypeOK, SoftCard
  <2>4. QED
    BY <2>1, <2>2, <2>3, OffsetAssumption
<1>2. ObjInv /\ (IInv /\ PoolP!IInv) /\ [Next]_vars => ObjInv'
  BY NextObj
<1>3. QED
  BY <1>1, <1>2, InitObj, SpecIInv, PTL DEF Spec
-----------------------------------------------------------------------------
(* Whose SoftCard.  A SoftCard with a hard handle has an owner: a user who connected to *)
(* the virtual reader and has the handle, or one whose call still has to delete it.     *)
(* A user has none while it waits for its SoftCard, or when its SoftReader has gone.    *)

Owner(u, h) ==
  \/ /\ u \in virtual /\ handle[u] = h
     /\ \A t \in Threads : call[t].user = u => call[t].pc # "creating" /\ ~call[t].gone
  \/ \E t \in Threads : Removing(t, h) /\ call[t].user = u /\ ~call[t].gone

CardsOf(h) == {c \in softCards : c.hard = h}
OwnersOf(h) == {u \in Users : Owner(u, h)}

CardsInv ==
  /\ IsFiniteSet(softCards)
  /\ \A c, d \in softCards : c.id = d.id => c = d
  /\ \A c \in softCards : c.id <= born

CallUser(t) ==
  /\ call[t].pc \in {"idle", "listing"} => call[t].user = NoUser
  /\ call[t].pc \in {"creating", "calling", "disconnecting"} => call[t].user \in virtual
  /\ call[t].pc \in {"calling", "disconnecting"} => handle[call[t].user] = call[t].hard
  /\ call[t].pc = "removing" => handle[call[t].user] = NoHandle
  /\ call[t].pc = "creating" => call[t].reader = szReader[call[t].user]

\* A handle, its SoftCards and the calls that have it are of one reader.
SameReader ==
  /\ \A c \in softCards : connectedTo[c.hard] \in {c.reader, NoReader}
  /\ \A t \in Threads : \A c \in softCards : Removing(t, c.hard) => c.reader = call[t].reader
  /\ \A t \in Threads : HasCard(t) => connectedTo[call[t].hard] \in {call[t].reader, NoReader}

Count == \A h \in Handles : Cardinality(CardsOf(h)) <= Cardinality(OwnersOf(h))

Exact ==
  /\ \A t \in Threads : ~call[t].gone
  /\ \A h \in Handles : Cardinality(CardsOf(h)) = Cardinality(OwnersOf(h))

OwnerInv ==
  /\ CardsInv
  /\ \A t \in Threads : CallUser(t)
  /\ "reused" \notin causes => SameReader /\ Count
  /\ causes \subseteq {"shared"} => Exact

LEMMA Finite ==
  ASSUME CardsInv, NEW h
  PROVE  /\ IsFiniteSet(CardsOf(h)) /\ Cardinality(CardsOf(h)) \in Nat
         /\ IsFiniteSet(OwnersOf(h)) /\ Cardinality(OwnersOf(h)) \in Nat
<1>1. CardsOf(h) \in SUBSET softCards /\ OwnersOf(h) \in SUBSET Users
  BY DEF CardsOf, OwnersOf
<1>2. IsFiniteSet(CardsOf(h)) /\ IsFiniteSet(OwnersOf(h))
  BY <1>1, FS_Subset, UsersAssumption DEF CardsInv
<1>3. QED
  BY <1>2, FS_CardinalityType

\* A SoftCard has an owner.
LEMMA Owned1 ==
  ASSUME CardsInv, Count, NEW h \in Handles, CardsOf(h) # {}
  PROVE  \E u \in Users : Owner(u, h)
<1>1. Cardinality(CardsOf(h)) # 0
  BY Finite, FS_EmptySet
<1>2. Cardinality(OwnersOf(h)) # 0
  BY <1>1, Finite DEF Count
<1>3. OwnersOf(h) # {}
  BY <1>2, FS_EmptySet
<1>4. QED
  BY <1>3 DEF OwnersOf

\* The first SoftCard that is found.
LEMMA OldestCard ==
  ASSUME CardsInv, softCards \subseteq SoftCard, NEW r, NEW cards \in SUBSET softCards,
         cards # {}, \A c \in cards : c.reader = r
  PROVE  \E c \in cards : Oldest(cards) = {c}
<1> DEFINE ids == {c.id : c \in cards}
<1>1. ids \in SUBSET Nat /\ ids # {}
  BY DEF SoftCard
<1>2. PICK i \in ids : \A j \in ids : i <= j
  <2> DEFINE R == OpToRel(<, Nat)
  <2>1. \E i \in ids : \A j \in ids : ~(<<j, i>> \in R)
    <3> HIDE DEF ids, R
    <3>1. IsWellFoundedOn(R, Nat)
      BY NatLessThanWellFounded DEF R
    <3>2. QED
      BY <1>1, <3>1, WFMin
  <2>2. \A i, j \in Nat : <<j, i>> \in R <=> j < i
    BY DEF OpToRel
  <2> HIDE DEF ids, R
  <2>3. PICK i \in ids : \A j \in ids : ~(<<j, i>> \in R)
    BY <2>1
  <2>4. ASSUME NEW j \in ids PROVE i <= j
    <3>1. i \in Nat /\ j \in Nat /\ ~(<<j, i>> \in R)
      BY <1>1, <2>3
    <3>2. ~(j < i)
      BY <2>2, <3>1
    <3>3. QED
      BY <3>1, <3>2
  <2>5. QED
    BY <2>4
<1>3. PICK c \in cards : c.id = i
  BY <1>2
<1>4. c \in Oldest(cards)
  BY <1>2, <1>3 DEF Oldest
<1>5. ASSUME NEW d \in Oldest(cards) PROVE d = c
  <2>1. d \in cards /\ d.id <= c.id /\ c.id <= d.id
    BY <1>2, <1>3, <1>5 DEF Oldest
  <2>2. d.id \in Nat /\ c.id \in Nat
    BY <2>1 DEF SoftCard
  <2>3. d.id = c.id
    BY <2>1, <2>2
  <2>4. QED
    BY <2>1, <2>3 DEF CardsInv
<1>6. QED
  BY <1>4, <1>5
\* A user whose call, if it has one, stays what it is.
LEMMA SameOwner ==
  ASSUME NEW v \in Users,
         \A s \in Threads : call[s].user = v \/ call'[s].user = v =>
           /\ call'[s].pc = call[s].pc /\ call'[s].user = call[s].user
           /\ call'[s].hard = call[s].hard /\ call'[s].gone = call[s].gone,
         handle'[v] = handle[v], v \in virtual' <=> v \in virtual
  PROVE  \A h : Owner(v, h)' <=> Owner(v, h)
  BY DEF Owner, Removing

LEMMA OwnCall ==
  ASSUME IInv, NEW t \in Threads, NEW u \in Users, call[t].user = u
  PROVE  \A h : Owner(u, h) <=>
           ~call[t].gone /\ \/ u \in virtual /\ handle[u] = h /\ call[t].pc # "creating"
                            \/ Removing(t, h)
<1>1. \A s \in Threads : call[s].user = u => s = t
  BY NullAssumption DEF IInv, OwnUser
<1>2. QED
  BY <1>1 DEF Owner, Removing

LEMMA OwnCallAfter ==
  ASSUME IInv', NEW t \in Threads, NEW u \in Users, call'[t].user = u
  PROVE  \A h : Owner(u, h)' <=>
           ~call'[t].gone /\ \/ u \in virtual' /\ handle'[u] = h /\ call'[t].pc # "creating"
                             \/ call'[t].pc = "removing" /\ call'[t].hard = h
<1>1. \A s \in Threads : call'[s].user = u => s = t
  BY NullAssumption DEF IInv, OwnUser
<1>2. QED
  BY <1>1 DEF Owner, Removing

LEMMA NoCall ==
  ASSUME NEW u \in Users, Free(u)
  PROVE  \A h : Owner(u, h) <=> u \in virtual /\ handle[u] = h
  BY DEF Owner, Free

LEMMA NoCallAfter ==
  ASSUME NEW u \in Users, \A s \in Threads : call'[s].user # u
  PROVE  \A h : Owner(u, h)' <=> u \in virtual' /\ handle'[u] = h
  BY DEF Owner

\* A call of a user whose handle the step leaves alone.
LEMMA SameCallUser ==
  ASSUME IInv, NEW s \in Threads, CallUser(s),
         /\ call'[s].pc = call[s].pc /\ call'[s].user = call[s].user
         /\ call'[s].reader = call[s].reader /\ call'[s].hard = call[s].hard,
         call[s].user \in Users =>
           /\ handle'[call[s].user] = handle[call[s].user]
           /\ szReader'[call[s].user] = szReader[call[s].user]
           /\ call[s].user \in virtual' <=> call[s].user \in virtual
  PROVE  CallUser(s)'
  BY DEF CallUser, IInv, CallInv

LEMMA HardHandles ==
  ASSUME IInv, \A s \in Threads : CallUser(s)
  PROVE  /\ \A c \in softCards : c.hard \in Handles
         /\ \A s \in Threads : HasCard(s) => call[s].hard \in Handles
<1>1. \A c \in softCards : c.hard \in Handles
  BY DEF IInv, TypeOK, SoftCard
<1>2. ASSUME NEW s \in Threads, HasCard(s) PROVE call[s].hard \in Handles
  <2>1. call[s].pc \in {"disconnecting", "removing"} => call[s].hard \in Handles
    BY DEF IInv, CallInv
  <2>2. call[s].pc = "calling" => handle[call[s].user] = call[s].hard /\ call[s].user \in Users
    BY DEF CallUser, IInv, CallInv
  <2>3. call[s].pc = "calling" => call[s].hard \in Handles
    BY <2>2 DEF IInv, CallInv, Pool!Connected, TypeOK, Pool!TypeOK
  <2>4. QED
    BY <1>2, <2>1, <2>3 DEF HasCard
<1>3. QED
  BY <1>1, <1>2

\* Steps after which no handle is of another reader.
LEMMA KeepsReader ==
  ASSUME IInv, OwnerInv, SameReader, softCards' \subseteq softCards,
         \A h \in Handles : connectedTo'[h] \in {connectedTo[h], NoReader},
         \A s \in Threads :
           \/ call'[s].pc \notin {"calling", "disconnecting", "removing"}
           \/ /\ call'[s].pc = call[s].pc
              /\ call'[s].reader = call[s].reader /\ call'[s].hard = call[s].hard
  PROVE  SameReader'
<1>1. QED
  BY HardHandles DEF OwnerInv, SameReader, HasCard, Removing

\* Steps that leave the SoftCards alone and take them from no owner.
LEMMA QuietStep ==
  ASSUME OwnerInv, UNCHANGED <<softCards, born>>, causes \subseteq causes',
         \A s \in Threads : CallUser(s)',
         SameReader /\ "reused" \notin causes' => SameReader',
         \A v \in Users : \A h \in Handles : Owner(v, h) => Owner(v, h)',
         (\A s \in Threads : ~call[s].gone) =>
           /\ \A s \in Threads : ~call'[s].gone
           /\ \A v \in Users : \A h \in Handles : Owner(v, h)' => Owner(v, h)
  PROVE  OwnerInv'
<1>1. CardsInv'
  BY DEF OwnerInv, CardsInv
<1>2. \A h : CardsOf(h)' = CardsOf(h)
  BY DEF CardsOf
<1>3. ASSUME NEW h \in Handles
      PROVE  Cardinality(OwnersOf(h)) <= Cardinality(OwnersOf(h)')
  <2>1. OwnersOf(h) \in SUBSET OwnersOf(h)'
    BY DEF OwnersOf
  <2>2. OwnersOf(h)' \in SUBSET Users
    BY DEF OwnersOf
  <2>3. IsFiniteSet(OwnersOf(h)')
    BY <2>2, FS_Subset, UsersAssumption
  <2>4. QED
    BY <2>1, <2>3, FS_Subset
<1>4. ASSUME Count PROVE Count'
  <2>1. ASSUME NEW h \in Handles
        PROVE  Cardinality(CardsOf(h)') <= Cardinality(OwnersOf(h)')
    <3>1. OwnersOf(h)' \in SUBSET Users
      BY DEF OwnersOf
    <3>2. Cardinality(OwnersOf(h)') \in Nat
      BY <3>1, FS_Subset, FS_CardinalityType, UsersAssumption
    <3>3. Cardinality(CardsOf(h)) \in Nat /\ Cardinality(OwnersOf(h)) \in Nat
      BY Finite DEF OwnerInv
    <3>4. QED
      BY <1>2, <1>3, <1>4, <3>2, <3>3 DEF Count
  <2>2. QED
    BY <2>1 DEF Count
<1>5. ASSUME Exact PROVE Exact'
  <2>1. \A h \in Handles : OwnersOf(h)' = OwnersOf(h)
    BY <1>5 DEF OwnersOf, Exact
  <2>2. QED
    BY <1>2, <1>5, <2>1 DEF Exact
<1>6. QED
  BY <1>1, <1>4, <1>5 DEF OwnerInv

\* A step of t for u, which may begin or end its call: the other users own what they did.
LEMMA OneUser ==
  ASSUME IInv, NEW t \in Threads, NEW u \in Users,
         call[t].user \in {u, NoUser}, call'[t].user \in {u, NoUser},
         \A s \in Threads \ {t} :
           /\ call[s].user # u
           /\ call'[s].pc = call[s].pc /\ call'[s].user = call[s].user
           /\ call'[s].reader = call[s].reader /\ call'[s].hard = call[s].hard
           /\ call'[s].gone = call[s].gone,
         \A v \in Users \ {u} : /\ handle'[v] = handle[v] /\ szReader'[v] = szReader[v]
                                /\ v \in virtual' <=> v \in virtual
  PROVE  /\ \A v \in Users \ {u} : \A h : Owner(v, h)' <=> Owner(v, h)
         /\ \A s \in Threads \ {t} : CallUser(s) => CallUser(s)'
<1>1. ASSUME NEW v \in Users \ {u} PROVE \A h : Owner(v, h)' <=> Owner(v, h)
  <2>1. call[t].user # v /\ call'[t].user # v
    BY NullAssumption
  <2>2. QED
    BY <2>1, SameOwner
<1>2. ASSUME NEW s \in Threads \ {t}, CallUser(s) PROVE CallUser(s)'
  BY <1>2, SameCallUser
<1>3. QED
  BY <1>1, <1>2

LEMMA ListOwn ==
  ASSUME IInv, OwnerInv, NEW t \in Threads, pSCardListReaders(t)
  PROVE  OwnerInv'
<1> DEFINE c == [Idle EXCEPT !.pc = "listing", !.names = present]
<1>1. c \in Call /\ c.pc = "listing" /\ c.user = NoUser
  BY IdleType DEF IInv, TypeOK, Idle, Call
<1>2. c.gone = FALSE
  BY DEF Idle
<1>3. Enter(t, c)
  BY DEF pSCardListReaders
<1> HIDE DEF c
<1>4. call[t] = Idle /\ call'[t] = c /\ \A s \in Threads \ {t} : call'[s] = call[s]
  BY <1>1, <1>3, EnterType DEF IInv
<1>5. UNCHANGED <<handle, szReader, connectedTo, softCards, born, virtual, causes>>
  BY DEF pSCardListReaders
<1>6. \A v \in Users : \A h : Owner(v, h)' <=> Owner(v, h)
  BY <1>1, <1>4, <1>5, IdleType, NullAssumption, SameOwner
<1>7. ASSUME NEW s \in Threads PROVE CallUser(s)'
  <2>1. CASE s = t
    BY <1>1, <1>4, <2>1 DEF CallUser
  <2>2. CASE s # t
    BY <1>4, <1>5, <2>2, SameCallUser DEF OwnerInv
  <2>3. QED
    BY <2>1, <2>2
<1>8. SameReader => SameReader'
  BY <1>1, <1>4, <1>5, KeepsReader
<1>9. (\A s \in Threads : ~call[s].gone) => \A s \in Threads : ~call'[s].gone
  BY <1>2, <1>4
<1>10. QED
  BY <1>5, <1>6, <1>7, <1>8, <1>9, QuietStep

LEMMA LookUpReaderOwn ==
  ASSUME IInv, OwnerInv, NEW t \in Threads, NEW u \in Users, NEW r \in Readers,
         LookUpReader(t, u, r)
  PROVE  OwnerInv'
<1> DEFINE c == [Idle EXCEPT !.pc = "connecting", !.user = u, !.reader = r]
<1>1. c \in Call /\ c.pc = "connecting" /\ c.user = u
  BY IdleType DEF Idle, Call
<1>2. c.gone = FALSE
  BY DEF Idle
<1>3. Enter(t, c) /\ Free(u) /\ handle[u] = NoHandle
  BY DEF LookUpReader, Pool!Connected
<1> HIDE DEF c
<1>4. call[t] = Idle /\ call'[t] = c /\ \A s \in Threads \ {t} : call'[s] = call[s]
  BY <1>1, <1>3, EnterType DEF IInv
<1>5. UNCHANGED <<handle, szReader, connectedTo, softCards, born, virtual, causes>>
  BY DEF LookUpReader, pool
<1>6. /\ \A v \in Users \ {u} : \A h : Owner(v, h)' <=> Owner(v, h)
      /\ \A s \in Threads \ {t} : CallUser(s)'
  BY <1>1, <1>3, <1>4, <1>5, IdleType, OneUser DEF Free, OwnerInv
<1>7. \A h \in Handles : ~Owner(u, h) /\ ~Owner(u, h)'
  BY <1>1, <1>3, <1>4, <1>5, PoolAssumptions DEF Owner, Removing, Free
<1>8. CallUser(t)'
  BY <1>1, <1>4 DEF CallUser
<1>9. SameReader => SameReader'
  BY <1>1, <1>4, <1>5, KeepsReader
<1>10. (\A s \in Threads : ~call[s].gone) => \A s \in Threads : ~call'[s].gone
  BY <1>2, <1>4
<1>11. QED
  BY <1>5, <1>6, <1>7, <1>8, <1>9, <1>10, QuietStep

\* The call of a user of a SoftCard ends, and the user still has its handle.
LEMMA EndOwn ==
  ASSUME IInv, OwnerInv, NEW t \in Threads,
         call[t].pc \in {"connecting", "calling", "disconnecting"}, Return(t),
         UNCHANGED <<handle, szReader, connectedTo, softCards, born, virtual, causes>>
  PROVE  OwnerInv'
<1>1. PICK u \in Users :
        u = call[t].user /\ (call[t].pc = "connecting" => handle[u] = NoHandle)
  BY DEF IInv, CallInv, Pool!Connected
<1>2. call'[t] = Idle /\ \A s \in Threads \ {t} : call'[s] = call[s]
  BY ReturnType DEF IInv
<1>3. \A s \in Threads \ {t} : call[s].user # u
  BY <1>1, NullAssumption DEF IInv, OwnUser
<1>4. Idle.user = NoUser /\ Idle.pc = "idle" /\ ~Idle.gone
  BY DEF Idle
<1>5. /\ \A v \in Users \ {u} : \A h : Owner(v, h)' <=> Owner(v, h)
      /\ \A s \in Threads \ {t} : CallUser(s)'
  BY <1>1, <1>2, <1>3, <1>4, OneUser DEF OwnerInv
<1>6. \A h \in Handles : Owner(u, h) <=> ~call[t].gone /\ u \in virtual /\ handle[u] = h
  <2>1. \A h : Owner(u, h) <=>
           ~call[t].gone /\ \/ u \in virtual /\ handle[u] = h /\ call[t].pc # "creating"
                            \/ Removing(t, h)
    BY <1>1, OwnCall
  <2>2. QED
    BY <2>1 DEF Removing
<1>7. \A h : Owner(u, h)' <=> u \in virtual /\ handle[u] = h
  <2>1. \A s \in Threads : call'[s].user # u
    BY <1>1, <1>2, <1>3, <1>4, NullAssumption
  <2>2. QED
    BY <1>1, <2>1, NoCallAfter
<1>8. CallUser(t)'
  BY <1>2, <1>4 DEF CallUser
<1>9. SameReader => SameReader'
  BY <1>2, <1>4, KeepsReader
<1>10. (\A s \in Threads : ~call[s].gone) => \A s \in Threads : ~call'[s].gone
  BY <1>2, <1>4
<1>11. QED
  BY <1>5, <1>6, <1>7, <1>8, <1>9, <1>10, QuietStep

\* Only a user who connected to the virtual reader finds a SoftCard, that of its handle.
LEMMA FoundCard ==
  ASSUME IInv, NEW u \in Users, Pool!Connected(u), NEW c \in softCards,
         c.hard + OFFSET = SCARDHANDLE(u)
  PROVE  u \in virtual /\ handle[u] = c.hard
<1>1. handle[u] \in Handles /\ c.hard \in Handles
  BY DEF Pool!Connected, IInv, TypeOK, Pool!TypeOK, SoftCard
<1>2. c.hard \in Nat /\ handle[u] \in Nat /\ OFFSET \in Nat /\ c.hard + OFFSET # handle[u]
  BY <1>1, OffsetAssumption
<1>3. u \in virtual
  BY <1>2 DEF SCARDHANDLE
<1>4. handle[u] + OFFSET = c.hard + OFFSET
  BY <1>3 DEF SCARDHANDLE
<1>5. QED
  BY <1>2, <1>3, <1>4

LEMMA LookUpCardOwn ==
  ASSUME IInv, PoolP!IInv, OwnerInv, NEW t \in Threads, NEW u \in Users,
         NEW pc \in {"calling", "disconnecting"}, LookUpCard(t, u, pc)
  PROVE  OwnerInv'
<1>1. PICK sc \in softCards :
        /\ sc.hard + OFFSET = SCARDHANDLE(u)
        /\ Enter(t, [Idle EXCEPT !.pc = pc, !.user = u, !.reader = sc.reader,
                                 !.card = sc.id, !.hard = sc.hard])
  BY DEF LookUpCard, getSoftCard, Oldest, Matching
<1> DEFINE c == [Idle EXCEPT !.pc = pc, !.user = u, !.reader = sc.reader,
                             !.card = sc.id, !.hard = sc.hard]
<1>2. sc.id \in 0..MaxCards /\ sc.reader \in Readers /\ sc.hard \in Handles
  BY OffsetAssumption DEF IInv, TypeOK, SoftCard
<1>3. /\ c \in Call /\ c.pc = pc /\ c.user = u /\ c.reader = sc.reader
      /\ c.hard = sc.hard
  BY <1>2 DEF Idle, Call
<1>4. c.gone = FALSE
  BY DEF Idle
<1>5. u \in virtual /\ handle[u] = sc.hard /\ Free(u)
  BY <1>1, FoundCard DEF LookUpCard
<1>6. Enter(t, c)
  BY <1>1
<1> HIDE DEF c
<1>7. call[t] = Idle /\ call'[t] = c /\ \A s \in Threads \ {t} : call'[s] = call[s]
  BY <1>3, <1>6, EnterType DEF IInv
<1>8. UNCHANGED <<handle, szReader, connectedTo, softCards, born, virtual, causes>>
  BY DEF LookUpCard, pool
<1>9. IInv'
  BY LookUpCardStep
<1>10. /\ \A v \in Users \ {u} : \A h : Owner(v, h)' <=> Owner(v, h)
       /\ \A s \in Threads \ {t} : CallUser(s)'
  BY <1>3, <1>5, <1>7, <1>8, IdleType, OneUser DEF Free, OwnerInv
<1>11. \A h \in Handles : Owner(u, h) <=> u \in virtual /\ handle[u] = h
  BY <1>5, NoCall
<1>12. \A h \in Handles : Owner(u, h)' <=> u \in virtual /\ handle[u] = h
  <2>1. call'[t].user = u /\ call'[t].pc = pc /\ ~call'[t].gone
    BY <1>3, <1>4, <1>7
  <2>2. \A h : Owner(u, h)' <=>
           ~call'[t].gone /\ \/ u \in virtual' /\ handle'[u] = h /\ call'[t].pc # "creating"
                             \/ call'[t].pc = "removing" /\ call'[t].hard = h
    BY <1>9, <2>1, OwnCallAfter
  <2>3. QED
    BY <1>8, <2>1, <2>2
<1>13. CallUser(t)'
  BY <1>3, <1>5, <1>7, <1>8 DEF CallUser
<1>14. SameReader => SameReader'
  BY <1>3, <1>7, <1>8 DEF SameReader, HasCard, Removing
<1>15. (\A s \in Threads : ~call[s].gone) => \A s \in Threads : ~call'[s].gone
  BY <1>4, <1>7
<1>16. QED
  BY <1>8, <1>10, <1>11, <1>12, <1>13, <1>14, <1>15, QuietStep

\* No SoftCard and no call has the handle of a new connection, unless it was given out
\* too soon.
LEMMA NewConnection ==
  ASSUME IInv, PoolP!IInv, CardsInv, Count, SameReader, \A s \in Threads : CallUser(s),
         NEW t \in Threads, NEW u \in Users, NEW r \in Readers,
         Connected(t, u, r), "reused" \notin causes'
  PROVE  /\ \A c \in softCards : connectedTo'[c.hard] \in {c.reader, NoReader}
         /\ \A s \in Threads : HasCard(s) =>
              connectedTo'[call[s].hard] \in {call[s].reader, NoReader}
<1>1. CASE Pool!UseThisHandle(t, u, r)
  BY <1>1 DEF Pool!UseThisHandle, SameReader
<1>2. CASE ~Pool!UseThisHandle(t, u, r)
  <2>1. Pool!DoConnect(t, u, r) /\ \A s \in Threads : call[s].hard # handle'[u]
    BY <1>2 DEF Connected
  <2>2. PICK h \in Handles : /\ connectedTo[h] = NoReader
                             /\ connectedTo' = [connectedTo EXCEPT ![h] = r]
                             /\ handle' = [handle EXCEPT ![u] = h]
    BY <2>1 DEF Pool!DoConnect, Pool!Receive
  <2>3. handle'[u] = h
    BY <2>2 DEF IInv, TypeOK, Pool!TypeOK
  <2>4. \A v \in Users : handle[v] # h
    BY <2>2, PoolPromises, PoolAssumptions DEF Pool!HandlesUsable, Pool!Connected
  <2>5. \A v : ~Owner(v, h)
    BY <2>1, <2>3, <2>4 DEF Owner, Removing, IInv, TypeOK
  <2>6. \A c \in softCards : c.hard # h
    BY <2>5, Owned1 DEF CardsOf
  <2>7. connectedTo \in [Handles -> Readers \union {NoReader}]
    BY DEF IInv, TypeOK, Pool!TypeOK
  <2>8. \A k \in Handles : k # h => connectedTo'[k] = connectedTo[k]
    BY <2>2, <2>7
  <2>9. QED
    BY <2>1, <2>3, <2>6, <2>8, HardHandles DEF SameReader
<1>3. QED
  BY <1>1, <1>2

LEMMA ConnectedUser ==
  ASSUME IInv, NEW t \in Threads, NEW u \in Users, NEW r \in Readers, Connected(t, u, r)
  PROVE  /\ szReader'[u] = r
         /\ \A v \in Users \ {u} : handle'[v] = handle[v] /\ szReader'[v] = szReader[v]
         /\ causes \subseteq causes'
<1>1. PICK h : /\ handle' = [handle EXCEPT ![u] = h]
               /\ szReader' = [szReader EXCEPT ![u] = r]
  BY DEF Connected, Pool!UseThisHandle, Pool!DoConnect, Pool!Receive
<1>2. handle \in [Users -> Handles \union {NoHandle}]
      /\ szReader \in [Users -> Readers \union {NoReader}]
  BY DEF IInv, TypeOK, Pool!TypeOK
<1>3. causes \subseteq causes'
  BY DEF Connected
<1>4. QED
  BY <1>1, <1>2, <1>3

LEMMA HardConnectOwn ==
  ASSUME IInv, PoolP!IInv, OwnerInv, NEW t \in Threads, HardConnect(t)
  PROVE  OwnerInv'
<1>1. PICK u \in Users, r \in Readers :
        /\ u = call[t].user /\ r = call[t].reader
        /\ call[t].pc = "connecting" /\ handle[u] = NoHandle
  BY DEF HardConnect, IInv, CallInv, Pool!Connected
<1>2. UNCHANGED <<softCards, born>>
  BY DEF HardConnect
<1>3. CASE Connected(t, u, r) /\ virtual' = virtual \union {u} /\ Goto(t, "creating")
  <2>1. /\ call'[t].pc = "creating" /\ call'[t].user = u
        /\ call'[t].reader = r /\ call'[t].hard = call[t].hard
        /\ \A s \in Threads \ {t} : call'[s] = call[s]
    BY <1>1, <1>3, GotoType DEF IInv
  <2>2. call'[t].gone = call[t].gone
    BY <1>3 DEF Goto, IInv, TypeOK, Call
  <2>3. /\ szReader'[u] = r /\ causes \subseteq causes'
        /\ \A v \in Users \ {u} : handle'[v] = handle[v] /\ szReader'[v] = szReader[v]
    BY <1>3, ConnectedUser
  <2>4. \A s \in Threads \ {t} : call[s].user # u
    BY <1>1, NullAssumption DEF IInv, OwnUser
  <2>5. /\ \A v \in Users \ {u} : \A h : Owner(v, h)' <=> Owner(v, h)
        /\ \A s \in Threads \ {t} : CallUser(s)'
    BY <1>1, <1>3, <2>1, <2>3, <2>4, OneUser DEF OwnerInv
  <2>6. \A h \in Handles : ~Owner(u, h) /\ ~Owner(u, h)'
    <3>1. \A h \in Handles : ~Owner(u, h)
      BY <1>1, <2>4, PoolAssumptions DEF Owner, Removing
    <3>2. \A h \in Handles : ~Owner(u, h)'
      BY <2>1, <2>4 DEF Owner, Removing
    <3>3. QED
      BY <3>1, <3>2
  <2>7. CallUser(t)'
    BY <1>3, <2>1, <2>3 DEF CallUser
  <2>8. SameReader /\ "reused" \notin causes' => SameReader'
    <3>1. SUFFICES ASSUME SameReader, "reused" \notin causes' PROVE SameReader'
      OBVIOUS
    <3>2. /\ \A c \in softCards : connectedTo'[c.hard] \in {c.reader, NoReader}
          /\ \A s \in Threads : HasCard(s) =>
               connectedTo'[call[s].hard] \in {call[s].reader, NoReader}
      BY <1>3, <2>3, <3>1, NewConnection DEF OwnerInv
    <3>3. QED
      BY <1>1, <1>2, <2>1, <3>1, <3>2 DEF SameReader, HasCard, Removing
  <2>9. (\A s \in Threads : ~call[s].gone) => \A s \in Threads : ~call'[s].gone
    BY <2>1, <2>2
  <2>10. QED
    BY <1>2, <2>3, <2>5, <2>6, <2>7, <2>8, <2>9, QuietStep
<1>4. CASE Pool!DoConnectFails(t, r) /\ Return(t) /\ UNCHANGED <<virtual, causes>>
  BY <1>1, <1>2, <1>4, EndOwn DEF Pool!DoConnectFails
<1>5. QED
  BY <1>1, <1>3, <1>4 DEF HardConnect

LEMMA ConnectRealOwn ==
  ASSUME IInv, PoolP!IInv, OwnerInv, NEW t \in Threads, NEW u \in Users, NEW r \in Readers,
         ConnectReal(t, u, r)
  PROVE  OwnerInv'
<1>1. /\ handle[u] = NoHandle /\ Free(u)
      /\ Connected(t, u, r) /\ virtual' = virtual \ {u}
      /\ call[t].user = NoUser
      /\ UNCHANGED <<softCards, born, call>>
  BY IdleType DEF ConnectReal, Pool!Connected
<1>2. /\ causes \subseteq causes'
      /\ \A v \in Users \ {u} : handle'[v] = handle[v] /\ szReader'[v] = szReader[v]
  BY <1>1, ConnectedUser
<1>3. /\ \A v \in Users \ {u} : \A h : Owner(v, h)' <=> Owner(v, h)
      /\ \A s \in Threads \ {t} : CallUser(s)'
  BY <1>1, <1>2, OneUser DEF OwnerInv, Free
<1>4. \A h \in Handles : ~Owner(u, h)
  BY <1>1, NoCall, PoolAssumptions
<1>5. \A h : ~Owner(u, h)'
  BY <1>1 DEF Owner, Removing, Free
<1>6. CallUser(t)'
  BY <1>1, IdleType DEF CallUser, ConnectReal
<1>7. SameReader /\ "reused" \notin causes' => SameReader'
  BY <1>1, <1>2, NewConnection DEF SameReader, HasCard, Removing, OwnerInv
<1>8. QED
  BY <1>1, <1>2, <1>3, <1>4, <1>5, <1>6, <1>7, QuietStep

LEMMA LeftReader ==
  ASSUME IInv, NEW u \in Users, Pool!Connected(u),
         \/ Pool!StaysConnected(u) \/ Pool!DoDisconnect(u)
  PROVE  /\ \A v \in Users \ {u} : szReader'[v] = szReader[v]
         /\ \A h \in Handles : connectedTo'[h] \in {connectedTo[h], NoReader}
<1>1. szReader \in [Users -> Readers \union {NoReader}]
      /\ connectedTo \in [Handles -> Readers \union {NoReader}]
      /\ handle[u] \in Handles
  BY DEF IInv, TypeOK, Pool!TypeOK, Pool!Connected
<1>2. szReader' = [szReader EXCEPT ![u] = NoReader]
  BY DEF Pool!StaysConnected, Pool!DoDisconnect, Pool!Receive
<1>3. \/ connectedTo' = connectedTo
      \/ connectedTo' = [connectedTo EXCEPT ![handle[u]] = NoReader]
  BY DEF Pool!StaysConnected, Pool!DoDisconnect
<1>4. QED
  BY <1>1, <1>2, <1>3

LEMMA HardDisconnectOwn ==
  ASSUME IInv, PoolP!IInv, OwnerInv, NEW t \in Threads, HardDisconnect(t)
  PROVE  OwnerInv'
<1>1. PICK u \in Users, h \in Handles :
        /\ u = call[t].user /\ h = call[t].hard
        /\ call[t].pc = "disconnecting" /\ u \in virtual /\ handle[u] = h
        /\ Pool!Connected(u)
  BY DEF HardDisconnect, IInv, CallInv, OwnerInv, CallUser
<1>2. UNCHANGED <<softCards, born, causes>>
  BY DEF HardDisconnect
<1>3. CASE /\ Pool!StaysConnected(u) \/ Pool!DoDisconnect(u)
           /\ virtual' = virtual \ {u} /\ Goto(t, "removing")
  <2>1. /\ call'[t].pc = "removing" /\ call'[t].user = u
        /\ call'[t].reader = call[t].reader /\ call'[t].hard = h
        /\ \A s \in Threads \ {t} : call'[s] = call[s]
    BY <1>1, <1>3, GotoType DEF IInv
  <2>2. call'[t].gone = call[t].gone
    BY <1>3 DEF Goto, IInv, TypeOK, Call
  <2>3. /\ handle'[u] = NoHandle /\ \A v \in Users \ {u} : handle'[v] = handle[v]
        /\ \A v \in Users \ {u} : szReader'[v] = szReader[v]
        /\ \A k \in Handles : connectedTo'[k] \in {connectedTo[k], NoReader}
    BY <1>1, <1>3, Left, LeftReader
  <2>4. \A s \in Threads \ {t} : call[s].user # u
    BY <1>1, NullAssumption DEF IInv, OwnUser
  <2>5. /\ \A v \in Users \ {u} : \A k : Owner(v, k)' <=> Owner(v, k)
        /\ \A s \in Threads \ {t} : CallUser(s)'
    BY <1>1, <1>3, <2>1, <2>3, <2>4, OneUser DEF OwnerInv
  <2>6. \A k : Owner(u, k) <=> ~call[t].gone /\ k = h
    BY <1>1, <2>4 DEF Owner, Removing
  <2>7. \A k : Owner(u, k)' <=> ~call[t].gone /\ k = h
    BY <1>3, <2>1, <2>2, <2>4 DEF Owner, Removing
  <2>8. CallUser(t)'
    BY <2>1, <2>3 DEF CallUser
  <2>9. SameReader => SameReader'
    <3>1. SUFFICES ASSUME SameReader PROVE SameReader'
      OBVIOUS
    <3>2. connectedTo[h] # NoReader
      BY <1>1, PoolPromises DEF Pool!HandlesUsable
    <3>3. connectedTo[h] = call[t].reader
      BY <1>1, <3>1, <3>2 DEF SameReader, HasCard
    <3>4. \A c \in softCards : c.hard = h => c.reader = call[t].reader
      BY <3>1, <3>2, <3>3 DEF SameReader
    <3>5. QED
      BY <1>1, <1>2, <2>1, <2>3, <3>1, <3>4, HardHandles
         DEF OwnerInv, SameReader, HasCard, Removing
  <2>10. (\A s \in Threads : ~call[s].gone) => \A s \in Threads : ~call'[s].gone
    BY <2>1, <2>2
  <2>11. QED
    BY <1>2, <2>5, <2>6, <2>7, <2>8, <2>9, <2>10, QuietStep
<1>4. CASE Pool!DoDisconnectFails(u) /\ Return(t) /\ UNCHANGED virtual
  BY <1>1, <1>2, <1>4, EndOwn DEF Pool!DoDisconnectFails
<1>5. QED
  BY <1>1, <1>3, <1>4 DEF HardDisconnect

LEMMA DisconnectRealOwn ==
  ASSUME IInv, PoolP!IInv, OwnerInv, NEW t \in Threads, NEW u \in Users, DisconnectReal(t, u)
  PROVE  OwnerInv'
<1>1. /\ u \notin virtual /\ Free(u) /\ Pool!Connected(u)
      /\ call[t].user = NoUser
      /\ UNCHANGED <<softCards, born, virtual, call, causes>>
  BY IdleType DEF DisconnectReal
<1>2. /\ \A v \in Users \ {u} : handle'[v] = handle[v] /\ szReader'[v] = szReader[v]
      /\ \A k \in Handles : connectedTo'[k] \in {connectedTo[k], NoReader}
  <2>1. CASE Pool!StaysConnected(u) \/ Pool!DoDisconnect(u)
    BY <1>1, <2>1, Left, LeftReader
  <2>2. CASE Pool!DoDisconnectFails(u)
    BY <2>2 DEF Pool!DoDisconnectFails
  <2>3. QED
    BY <2>1, <2>2 DEF DisconnectReal, Pool!SCardDisconnect_Threading
<1>3. /\ \A v \in Users \ {u} : \A h : Owner(v, h)' <=> Owner(v, h)
      /\ \A s \in Threads \ {t} : CallUser(s)'
  BY <1>1, <1>2, OneUser DEF OwnerInv, Free
<1>4. \A h : ~Owner(u, h) /\ ~Owner(u, h)'
  BY <1>1 DEF Owner, Removing, Free
<1>5. CallUser(t)'
  BY <1>1, IdleType DEF CallUser, DisconnectReal
<1>6. SameReader => SameReader'
  BY <1>1, <1>2, KeepsReader
<1>7. QED
  BY <1>1, <1>3, <1>4, <1>5, <1>6, QuietStep

LEMMA SameOwn ==
  ASSUME OwnerInv,
         UNCHANGED <<handle, szReader, connectedTo, softCards, born, virtual, call, causes>>
  PROVE  OwnerInv'
<1>1. /\ \A v \in Users : \A h \in Handles : Owner(v, h)' <=> Owner(v, h)
      /\ \A s \in Threads : CallUser(s)'
      /\ SameReader => SameReader'
  BY DEF OwnerInv, Owner, Removing, CallUser, SameReader, HasCard
<1>2. QED
  BY <1>1, QuietStep

LEMMA AddOne ==
  ASSUME NEW S, NEW x, x \notin S, IsFiniteSet(S)
  PROVE  /\ IsFiniteSet(S \union {x})
         /\ Cardinality(S) \in Nat /\ Cardinality(S \union {x}) = Cardinality(S) + 1
  BY FS_AddElement, FS_CardinalityType

\* The SoftCard goes to the user that has waited for it.
LEMMA CreateSoftCardOwn ==
  ASSUME IInv, PoolP!IInv, OwnerInv, NEW t \in Threads, CreateSoftCard(t)
  PROVE  OwnerInv'
<1>1. PICK u \in Users, r \in Readers, k \in Handles :
        /\ u = call[t].user /\ r = call[t].reader /\ handle[u] = k
        /\ call[t].pc = "creating" /\ u \in virtual /\ szReader[u] = r
        /\ Pool!Connected(u)
  BY DEF CreateSoftCard, IInv, CallInv, OwnerInv, CallUser, Pool!Connected, TypeOK,
         Pool!TypeOK
<1>2. call'[t] = Idle /\ \A s \in Threads \ {t} : call'[s] = call[s]
  BY ReturnType DEF IInv, CreateSoftCard
<1>3. Idle.user = NoUser /\ Idle.pc = "idle" /\ ~Idle.gone
  BY DEF Idle
<1>4. UNCHANGED <<handle, szReader, connectedTo, virtual, causes>>
  BY DEF CreateSoftCard, pool
<1>5. \A s \in Threads \ {t} : call[s].user # u
  BY <1>1, NullAssumption DEF IInv, OwnUser
<1>6. /\ \A v \in Users \ {u} : \A h : Owner(v, h)' <=> Owner(v, h)
      /\ \A s \in Threads \ {t} : CallUser(s)'
  BY <1>1, <1>2, <1>3, <1>4, <1>5, OneUser DEF OwnerInv
<1>7. \A h : ~Owner(u, h)
  BY <1>1, <1>5 DEF Owner, Removing
<1>8. \A h : Owner(u, h)' <=> h = k
  <2>1. \A s \in Threads : call'[s].user # u
    BY <1>2, <1>3, <1>5, NullAssumption
  <2>2. \A h : Owner(u, h)' <=> u \in virtual' /\ handle'[u] = h
    BY <2>1, NoCallAfter
  <2>3. QED
    BY <1>1, <1>4, <2>2
<1>9. CallUser(t)'
  BY <1>2, <1>3 DEF CallUser
<1>10. CASE call[t].gone
  <2>1. UNCHANGED <<softCards, born>>
    BY <1>10 DEF CreateSoftCard
  <2>2. SameReader => SameReader'
    BY <1>2, <1>3, <1>4, <2>1, KeepsReader
  <2>3. QED
    BY <1>4, <1>6, <1>7, <1>9, <1>10, <2>1, <2>2, QuietStep
<1>11. CASE ~call[t].gone
  <2>1. PICK new \in [id : Nat, reader : Readers, hard : Handles] :
          /\ new.id = born + 1 /\ new.reader = r /\ new.hard = k
          /\ softCards' = softCards \union {new} /\ born' = born + 1
    <3>1. born \in Nat
      BY DEF IInv, TypeOK
    <3>2. /\ softCards' = softCards \union {[id |-> born + 1, reader |-> r, hard |-> k]}
          /\ born' = born + 1
      BY <1>1, <1>11 DEF CreateSoftCard, createSoftCard
    <3>3. [id |-> born + 1, reader |-> r, hard |-> k]
            \in [id : Nat, reader : Readers, hard : Handles]
      BY <3>1
    <3>4. QED
      BY <3>2, <3>3
  <2>2. \A c \in softCards : c.id \in Nat /\ c.id <= born /\ born \in Nat
    BY DEF OwnerInv, CardsInv, IInv, TypeOK, SoftCard
  <2>3. new \notin softCards
    BY <2>1, <2>2
  <2>4. CardsInv'
    <3>1. IsFiniteSet(softCards')
      BY <2>1, <2>3, AddOne DEF OwnerInv, CardsInv
    <3>2. \A c, d \in softCards' : c.id = d.id => c = d
      BY <2>1, <2>2 DEF OwnerInv, CardsInv
    <3>3. \A c \in softCards' : c.id <= born'
      BY <2>1, <2>2 DEF IInv, TypeOK
    <3>4. QED
      BY <3>1, <3>2, <3>3 DEF CardsInv
  <2>5. SameReader => SameReader'
    <3>1. SUFFICES ASSUME SameReader PROVE SameReader'
      OBVIOUS
    <3>2. connectedTo[k] = r /\ r # NoReader
      BY <1>1, PoolPromises DEF Pool!HandlesUsable
    <3>3. \A s \in Threads : Removing(s, k) => r = call[s].reader
      BY <3>1, <3>2 DEF SameReader, HasCard, Removing
    <3>4. QED
      BY <1>2, <1>3, <1>4, <2>1, <3>1, <3>2, <3>3 DEF SameReader, HasCard, Removing
  <2>6. ASSUME NEW h \in Handles
        PROVE  /\ Cardinality(CardsOf(h)) \in Nat /\ Cardinality(OwnersOf(h)) \in Nat
               /\ h = k => /\ Cardinality(CardsOf(h)') = Cardinality(CardsOf(h)) + 1
                           /\ Cardinality(OwnersOf(h)') = Cardinality(OwnersOf(h)) + 1
               /\ h # k => CardsOf(h)' = CardsOf(h) /\ OwnersOf(h)' = OwnersOf(h)
    <3>1. /\ IsFiniteSet(CardsOf(h)) /\ Cardinality(CardsOf(h)) \in Nat
          /\ IsFiniteSet(OwnersOf(h)) /\ Cardinality(OwnersOf(h)) \in Nat
      BY Finite DEF OwnerInv
    <3>2. h = k => CardsOf(h)' = CardsOf(h) \union {new} /\ new \notin CardsOf(h)
      BY <2>1, <2>3 DEF CardsOf
    <3>3. h = k => OwnersOf(h)' = OwnersOf(h) \union {u} /\ u \notin OwnersOf(h)
      BY <1>6, <1>7, <1>8 DEF OwnersOf
    <3>4. h # k => CardsOf(h)' = CardsOf(h)
      BY <2>1 DEF CardsOf
    <3>5. h # k => OwnersOf(h)' = OwnersOf(h)
      BY <1>6, <1>7, <1>8 DEF OwnersOf
    <3>6. QED
      BY <3>1, <3>2, <3>3, <3>4, <3>5, AddOne
  <2>7. Count => Count'
    BY <2>6 DEF Count
  <2>8. Exact => Exact'
    BY <1>2, <1>3, <2>6 DEF Exact
  <2>9. QED
    BY <1>2, <1>4, <1>6, <1>9, <2>4, <2>5, <2>7, <2>8 DEF OwnerInv
<1>12. QED
  BY <1>10, <1>11

LEMMA RemoveOne ==
  ASSUME NEW S, NEW x \in S, IsFiniteSet(S)
  PROVE  /\ IsFiniteSet(S \ {x})
         /\ Cardinality(S) \in Nat /\ Cardinality(S \ {x}) = Cardinality(S) - 1
  BY FS_RemoveElement, FS_CardinalityType

\* One SoftCard of the handle goes with its user, if the SoftReader is still there.
LEMMA DeleteSoftCardOwn ==
  ASSUME IInv, OwnerInv, NEW t \in Threads, DeleteSoftCard(t)
  PROVE  OwnerInv'
<1>1. PICK u \in Users, r \in Readers, k \in Handles :
        /\ u = call[t].user /\ r = call[t].reader /\ k = call[t].hard
        /\ call[t].pc = "removing" /\ handle[u] = NoHandle
  BY DEF DeleteSoftCard, IInv, CallInv, OwnerInv, CallUser
<1>2. UNCHANGED <<handle, szReader, connectedTo, virtual, causes, born>>
  BY DEF DeleteSoftCard, pool
<1>3. PICK cards : /\ Delete(t, {}, cards)
                   /\ cards = IF call[t].gone THEN {} ELSE disconnect(r, k)
  BY <1>1 DEF DeleteSoftCard
<1>4. /\ softCards' = softCards \ cards
      /\ call'[t] = Idle
      /\ \A s \in Threads \ {t} :
           /\ call'[s].pc = call[s].pc /\ call'[s].user = call[s].user
           /\ call'[s].reader = call[s].reader /\ call'[s].hard = call[s].hard
           /\ call'[s].gone = call[s].gone
  BY <1>3, DeleteCalls DEF IInv
<1>5. Idle.user = NoUser /\ Idle.pc = "idle" /\ ~Idle.gone
  BY DEF Idle
<1>6. \A s \in Threads \ {t} : call[s].user # u
  BY <1>1, NullAssumption DEF IInv, OwnUser
<1>7. /\ \A v \in Users \ {u} : \A h : Owner(v, h)' <=> Owner(v, h)
      /\ \A s \in Threads \ {t} : CallUser(s)'
  BY <1>1, <1>2, <1>4, <1>5, <1>6, OneUser DEF OwnerInv
<1>8. \A h \in Handles : Owner(u, h) <=> ~call[t].gone /\ h = k
  BY <1>1, <1>6, PoolAssumptions DEF Owner, Removing
<1>9. \A h \in Handles : ~Owner(u, h)'
  BY <1>1, <1>2, <1>4, <1>5, <1>6, PoolAssumptions, NullAssumption DEF Owner, Removing
<1>10. CallUser(t)'
  BY <1>4, <1>5 DEF CallUser
<1>11. SameReader => SameReader'
  BY <1>2, <1>4, <1>5, KeepsReader
<1>12. CASE call[t].gone
  <2>1. UNCHANGED <<softCards, born>>
    BY <1>2, <1>3, <1>4, <1>12
  <2>2. QED
    BY <1>2, <1>7, <1>8, <1>10, <1>11, <1>12, <2>1, QuietStep
<1>13. CASE ~call[t].gone
  <2>1. CardsInv'
    <3>1. softCards' \in SUBSET softCards
      BY <1>4
    <3>2. IsFiniteSet(softCards')
      BY <3>1, FS_Subset DEF OwnerInv, CardsInv
    <3>3. QED
      BY <1>2, <3>1, <3>2 DEF OwnerInv, CardsInv
  <2>2. ASSUME SameReader
        PROVE  \/ CardsOf(k) = {} /\ softCards' = softCards
               \/ \E c \in CardsOf(k) : softCards' = softCards \ {c}
    <3>1. CardsOf(k) \in SUBSET softCards
      BY DEF CardsOf
    <3>2. \A c \in CardsOf(k) : c.reader = r
      BY <1>1, <2>2 DEF SameReader, CardsOf, Removing
    <3>3. {c \in softCards : c.reader = r /\ c.hard = k} = CardsOf(k)
      BY <3>2 DEF CardsOf
    <3>4. cards = Oldest(CardsOf(k))
      BY <1>3, <1>13, <3>3 DEF disconnect
    <3>5. CASE CardsOf(k) = {}
      BY <1>4, <3>4, <3>5 DEF Oldest
    <3>6. CASE CardsOf(k) # {}
      <4>1. \E c \in CardsOf(k) : Oldest(CardsOf(k)) = {c}
        BY <3>1, <3>2, <3>6, OldestCard DEF OwnerInv, IInv, TypeOK
      <4>2. QED
        BY <1>4, <3>4, <4>1
    <3>7. QED
      BY <3>5, <3>6
  <2>3. ASSUME SameReader, NEW h \in Handles
        PROVE  /\ Cardinality(CardsOf(h)) \in Nat /\ Cardinality(OwnersOf(h)) \in Nat
               /\ Cardinality(OwnersOf(h)') \in Nat
               /\ h = k => /\ Cardinality(OwnersOf(h)') = Cardinality(OwnersOf(h)) - 1
                           /\ \/ /\ Cardinality(CardsOf(h)) = 0
                                 /\ Cardinality(CardsOf(h)') = 0
                              \/ Cardinality(CardsOf(h)') = Cardinality(CardsOf(h)) - 1
               /\ h # k => CardsOf(h)' = CardsOf(h) /\ OwnersOf(h)' = OwnersOf(h)
    <3>1. /\ IsFiniteSet(CardsOf(h)) /\ Cardinality(CardsOf(h)) \in Nat
          /\ IsFiniteSet(OwnersOf(h)) /\ Cardinality(OwnersOf(h)) \in Nat
      BY Finite DEF OwnerInv
    <3>2. h = k => OwnersOf(h)' = OwnersOf(h) \ {u} /\ u \in OwnersOf(h)
      BY <1>7, <1>8, <1>9, <1>13 DEF OwnersOf
    <3>3. h # k => OwnersOf(h)' = OwnersOf(h)
      BY <1>7, <1>8, <1>9 DEF OwnersOf
    <3>4. h # k => CardsOf(h)' = CardsOf(h)
      BY <2>2, <2>3 DEF CardsOf
    <3>5. h = k => \/ CardsOf(h) = {} /\ CardsOf(h)' = {}
                   \/ \E c \in CardsOf(h) : CardsOf(h)' = CardsOf(h) \ {c}
      BY <2>2, <2>3 DEF CardsOf
    <3>6. h = k => /\ Cardinality(OwnersOf(h)') = Cardinality(OwnersOf(h)) - 1
                   /\ IsFiniteSet(OwnersOf(h)')
      BY <3>1, <3>2, RemoveOne
    <3>7. Cardinality(OwnersOf(h)') \in Nat
      BY <3>1, <3>3, <3>6, FS_CardinalityType
    <3>8. h = k => \/ Cardinality(CardsOf(h)) = 0 /\ Cardinality(CardsOf(h)') = 0
                   \/ Cardinality(CardsOf(h)') = Cardinality(CardsOf(h)) - 1
      BY <3>1, <3>5, RemoveOne, FS_EmptySet
    <3>9. QED
      BY <3>1, <3>3, <3>4, <3>6, <3>7, <3>8
  <2>4. SameReader /\ Count => Count'
    BY <2>3 DEF Count
  <2>5. SameReader /\ Exact => Exact'
    <3>1. SUFFICES ASSUME SameReader, Exact PROVE Exact'
      OBVIOUS
    <3>2. \A s \in Threads : ~call'[s].gone
      BY <1>4, <1>5, <3>1 DEF Exact
    <3>3. ASSUME NEW h \in Handles
          PROVE  Cardinality(CardsOf(h)') = Cardinality(OwnersOf(h)')
      <4>1. Cardinality(CardsOf(h)) = Cardinality(OwnersOf(h))
        BY <3>1 DEF Exact
      <4>2. CASE h # k
        BY <2>3, <3>1, <4>1, <4>2
      <4>3. CASE h = k
        BY <2>3, <3>1, <4>1, <4>3
      <4>4. QED
        BY <4>2, <4>3
    <3>4. QED
      BY <3>2, <3>3 DEF Exact
  <2>6. causes \subseteq {"shared"} => "reused" \notin causes
    OBVIOUS
  <2>7. QED
    BY <1>2, <1>7, <1>10, <1>11, <2>1, <2>4, <2>5, <2>6 DEF OwnerInv
<1>14. QED
  BY <1>12, <1>13

LEMMA DeleteGone ==
  ASSUME TypeOK, NEW t \in Threads, NEW readers, NEW cards, Delete(t, readers, cards)
  PROVE  \A s \in Threads \ {t} : call'[s].gone <=> call[s].gone \/ call[s].reader \in readers
<1> SUFFICES ASSUME NEW s \in Threads \ {t}
             PROVE  call'[s].gone <=> call[s].gone \/ call[s].reader \in readers
  OBVIOUS
<1> DEFINE gone == call[s].gone \/ call[s].reader \in readers
           card == IF \E c \in cards : c.id = call[s].card THEN 0 ELSE call[s].card
<1>1. call'[s] = [call[s] EXCEPT !.gone = gone, !.card = card]
  BY DEF Delete
<1>2. call[s] \in Call
  BY DEF TypeOK
<1> HIDE DEF gone, card
<1>3. call'[s].gone = gone
  BY <1>1, <1>2, SameCall
<1>4. QED
  BY <1>3 DEF gone

\* All SoftCards of a handle are of one reader, which is that of its owners' calls.
LEMMA OneReader ==
  ASSUME IInv, PoolP!IInv, OwnerInv, SameReader, Count, NEW h \in Handles,
         NEW c \in softCards, c.hard = h
  PROVE  /\ \A d \in softCards : d.hard = h => d.reader = c.reader
         /\ \A v \in Users : Owner(v, h) =>
              \A s \in Threads : call[s].user = v => call[s].reader = c.reader
<1>1. \A v \in Users : handle[v] = h => connectedTo[h] = szReader[v] /\ connectedTo[h] # NoReader
  BY PoolPromises, PoolAssumptions DEF Pool!HandlesUsable, Pool!Connected
<1>2. ASSUME NEW d \in softCards, d.hard = h PROVE d.reader = c.reader
  <2>1. PICK v \in Users : Owner(v, h)
    BY Owned1 DEF OwnerInv, CardsOf
  <2>2. CASE handle[v] = h
    BY <1>1, <1>2, <2>2 DEF SameReader
  <2>3. CASE \E s \in Threads : Removing(s, h)
    BY <1>2, <2>3 DEF SameReader
  <2>4. QED
    BY <2>1, <2>2, <2>3 DEF Owner
<1>3. ASSUME NEW v \in Users, Owner(v, h), NEW s \in Threads, call[s].user = v
      PROVE  call[s].reader = c.reader
  <2>1. CallUser(s) /\ CallInv(s)
    BY DEF OwnerInv, IInv
  <2>2. /\ ~call[s].gone
        /\ \/ v \in virtual /\ handle[v] = h /\ call[s].pc # "creating"
           \/ Removing(s, h)
    BY <1>3, OwnCall
  <2>3. CASE Removing(s, h)
    BY <2>3 DEF SameReader
  <2>4. CASE handle[v] = h /\ call[s].pc # "creating"
    <3>1. call[s].pc \in {"calling", "disconnecting"} /\ call[s].hard = h
      <4>1. call[s] \in Call
        BY DEF IInv, TypeOK
      <4>2. call[s].pc \in {"idle", "listing", "connecting", "creating", "calling",
                            "disconnecting", "removing"}
        BY <4>1 DEF Call
      <4>3. v # NoUser /\ handle[v] # NoHandle
        BY <2>4, NullAssumption, PoolAssumptions
      <4>4. QED
        BY <1>3, <2>1, <2>4, <4>2, <4>3 DEF CallUser, CallInv, Pool!Connected
    <3>2. connectedTo[h] \in {call[s].reader, NoReader}
      BY <3>1 DEF SameReader, HasCard
    <3>3. QED
      BY <1>1, <2>4, <3>2 DEF SameReader
  <2>5. QED
    BY <2>2, <2>3, <2>4
<1>4. QED
  BY <1>2, <1>3

\* With a reader go all SoftCards of the handles that are connected to it.
LEMMA CreateReadersOwn ==
  ASSUME IInv, PoolP!IInv, OwnerInv, NEW t \in Threads, createSoftReaders(t)
  PROVE  OwnerInv'
<1>1. PICK absent, cards :
        /\ Delete(t, absent, cards)
        /\ cards = {c \in softCards : c.reader \in absent}
        /\ causes' = IF absent = {} THEN causes ELSE causes \union {"removed"}
  BY DEF createSoftReaders
<1>2. call[t].pc = "listing" /\ call[t].user = NoUser
  BY DEF createSoftReaders, OwnerInv, CallUser
<1>3. UNCHANGED <<handle, szReader, connectedTo, virtual, born>>
  BY DEF createSoftReaders, pool
<1>4. /\ softCards' = softCards \ cards
      /\ call'[t] = Idle
      /\ \A s \in Threads \ {t} :
           /\ call'[s].pc = call[s].pc /\ call'[s].user = call[s].user
           /\ call'[s].reader = call[s].reader /\ call'[s].hard = call[s].hard
           /\ call'[s].gone <=> call[s].gone \/ call[s].reader \in absent
  <2>1. softCards' = softCards \ cards
    BY <1>1 DEF Delete
  <2>2. /\ call'[t] = Idle
        /\ \A s \in Threads \ {t} :
             /\ call'[s].pc = call[s].pc /\ call'[s].user = call[s].user
             /\ call'[s].reader = call[s].reader /\ call'[s].hard = call[s].hard
    BY <1>1, DeleteType DEF IInv
  <2>3. \A s \in Threads \ {t} :
          call'[s].gone <=> call[s].gone \/ call[s].reader \in absent
    BY <1>1, DeleteGone DEF IInv
  <2>4. QED
    BY <2>1, <2>2, <2>3
<1>5. Idle.user = NoUser /\ Idle.pc = "idle" /\ ~Idle.gone
  BY DEF Idle
<1>6. ASSUME NEW s \in Threads PROVE CallUser(s)'
  <2>1. CASE s = t
    BY <1>4, <1>5, <2>1 DEF CallUser
  <2>2. CASE s # t
    BY <1>3, <1>4, <2>2, SameCallUser DEF OwnerInv
  <2>3. QED
    BY <2>1, <2>2
<1>7. SameReader => SameReader'
  BY <1>3, <1>4, <1>5, KeepsReader
<1>8. softCards' \in SUBSET softCards
  BY <1>4
<1>9. CardsInv'
  <2>1. IsFiniteSet(softCards')
    BY <1>8, FS_Subset DEF OwnerInv, CardsInv
  <2>2. QED
    BY <1>3, <1>8, <2>1 DEF OwnerInv, CardsInv
<1>10. ASSUME NEW v \in Users, NEW h,
              \A s \in Threads : call[s].user = v => call[s].reader \notin absent
       PROVE  Owner(v, h)' <=> Owner(v, h)
  <2>1. v # NoUser
    BY NullAssumption
  <2>2. \A s \in Threads : call'[s].user = v <=> call[s].user = v
    BY <1>2, <1>4, <1>5, <2>1
  <2>3. \A s \in Threads : call[s].user = v =>
          /\ call'[s].pc = call[s].pc /\ call'[s].hard = call[s].hard
          /\ call'[s].gone <=> call[s].gone
    BY <1>2, <1>4, <1>10, <2>1
  <2>4. QED
    BY <1>3, <2>2, <2>3 DEF Owner, Removing
<1>11. ASSUME SameReader, Count PROVE Count'
  <2>1. ASSUME NEW h \in Handles
        PROVE  Cardinality(CardsOf(h)') <= Cardinality(OwnersOf(h)')
    <3>1. /\ Cardinality(CardsOf(h)) \in Nat /\ Cardinality(OwnersOf(h)) \in Nat
          /\ Cardinality(CardsOf(h)) <= Cardinality(OwnersOf(h))
      BY <1>11, Finite DEF OwnerInv, Count
    <3>2. OwnersOf(h)' \in SUBSET Users
      BY DEF OwnersOf
    <3>3. IsFiniteSet(OwnersOf(h)') /\ Cardinality(OwnersOf(h)') \in Nat
      BY <3>2, FS_Subset, FS_CardinalityType, UsersAssumption
    <3>4. CASE CardsOf(h)' = {}
      <4>1. Cardinality(CardsOf(h)') = 0
        BY <3>4, FS_EmptySet
      <4>2. QED
        BY <3>3, <4>1
    <3>5. CASE CardsOf(h)' # {}
      <4>1. PICK c \in softCards : c.hard = h /\ c.reader \notin absent
        BY <1>1, <1>4, <3>5 DEF CardsOf
      <4>2. /\ \A d \in softCards : d.hard = h => d.reader = c.reader
            /\ \A v \in Users : Owner(v, h) =>
                 \A s \in Threads : call[s].user = v => call[s].reader = c.reader
        BY <1>11, <4>1, OneReader
      <4>3. CardsOf(h)' = CardsOf(h)
        BY <1>1, <1>4, <4>1, <4>2 DEF CardsOf
      <4>4. OwnersOf(h) \in SUBSET OwnersOf(h)'
        BY <1>10, <4>1, <4>2 DEF OwnersOf
      <4>5. Cardinality(OwnersOf(h)) <= Cardinality(OwnersOf(h)')
        BY <3>3, <4>4, FS_Subset
      <4>6. QED
        BY <3>1, <3>3, <4>3, <4>5
    <3>6. QED
      BY <3>4, <3>5
  <2>2. QED
    BY <2>1 DEF Count
<1>12. ASSUME Exact, causes' \subseteq {"shared"} PROVE Exact'
  <2>1. absent = {} /\ cards = {}
    BY <1>1, <1>12
  <2>2. \A s \in Threads : ~call'[s].gone
    BY <1>4, <1>5, <1>12, <2>1 DEF Exact
  <2>3. \A h \in Handles : CardsOf(h)' = CardsOf(h) /\ OwnersOf(h)' = OwnersOf(h)
    BY <1>4, <1>10, <2>1 DEF CardsOf, OwnersOf
  <2>4. QED
    BY <1>12, <2>2, <2>3 DEF Exact
<1>13. /\ "reused" \notin causes' => "reused" \notin causes
       /\ causes' \subseteq {"shared"} => causes \subseteq {"shared"}
  BY <1>1
<1>14. QED
  BY <1>6, <1>7, <1>9, <1>11, <1>12, <1>13 DEF OwnerInv

LEMMA InitOwn == Init => OwnerInv
<1> SUFFICES ASSUME Init PROVE OwnerInv
  OBVIOUS
<1>1. CardsInv
  BY FS_EmptySet DEF Init, CardsInv
<1>2. \A t \in Threads : CallUser(t) /\ ~call[t].gone
  BY DEF Init, CallUser, Idle
<1>3. SameReader
  BY DEF Init, SameReader, HasCard, Idle
<1>4. ASSUME NEW h \in Handles PROVE CardsOf(h) = {} /\ OwnersOf(h) = {}
  BY DEF Init, CardsOf, OwnersOf, Owner, Removing, Idle
<1>5. Count /\ Exact
  BY <1>2, <1>4, FS_EmptySet DEF Count, Exact
<1>6. QED
  BY <1>1, <1>2, <1>3, <1>5 DEF OwnerInv

LEMMA NextOwn ==
  ASSUME IInv, PoolP!IInv, OwnerInv, [Next]_vars
  PROVE  OwnerInv'
<1>1. CASE UNCHANGED vars
  BY <1>1, SameOwn DEF vars, pool
<1>2. CASE Next
  <2>1. ASSUME NEW t \in Threads,
               pSCardListReaders(t) \/ createSoftReaders(t) \/ HardConnect(t)
                 \/ CreateSoftCard(t) \/ HardDisconnect(t) \/ DeleteSoftCard(t)
        PROVE  OwnerInv'
    BY <2>1, ListOwn, CreateReadersOwn, HardConnectOwn, CreateSoftCardOwn,
       HardDisconnectOwn, DeleteSoftCardOwn
  <2>2. ASSUME NEW t \in Threads, UseCard(t) PROVE OwnerInv'
    BY <2>2, EndOwn DEF UseCard, pool
  <2>3. ASSUME NEW t \in Threads, NEW u \in Users,
               LookUpCard(t, u, "calling") \/ LookUpCard(t, u, "disconnecting")
                 \/ DisconnectReal(t, u)
        PROVE  OwnerInv'
    BY <2>3, LookUpCardOwn, DisconnectRealOwn
  <2>4. ASSUME NEW t \in Threads, NEW u \in Users, NEW r \in Readers,
               LookUpReader(t, u, r) \/ ConnectReal(t, u, r)
        PROVE  OwnerInv'
    BY <2>4, LookUpReaderOwn, ConnectRealOwn
  <2>5. ASSUME NEW r \in Readers, Plug(r) PROVE OwnerInv'
    BY <2>5, SameOwn DEF Plug, pool
  <2>6. QED
    BY <1>2, <2>1, <2>2, <2>3, <2>4, <2>5 DEF Next
<1>3. QED
  BY <1>1, <1>2

LEMMA SpecOwn == Spec => [](IInv /\ PoolP!IInv /\ OwnerInv)
<1>1. IInv /\ PoolP!IInv /\ OwnerInv /\ [Next]_vars => OwnerInv'
  BY NextOwn
<1>2. QED
  BY <1>1, InitOwn, SpecIInv, PTL DEF Spec

\* A SoftCard that is found for a user belongs to a connection of that user's handle to the
\* reader it asked for, until a handle is given out too soon
\* (SoftReaderManager.cpp:226-238).
THEOREM RightCardHolds == Spec => []RightCard
<1>1. IInv /\ PoolP!IInv /\ OwnerInv => RightCard
  <2> SUFFICES ASSUME IInv, PoolP!IInv, OwnerInv, NEW u \in Users, Pool!Connected(u),
                      NEW c \in Matching(SCARDHANDLE(u))
               PROVE  u \in virtual /\ ("reused" \notin causes => c.reader = szReader[u])
    BY DEF RightCard
  <2>1. c \in softCards /\ u \in virtual /\ handle[u] = c.hard
    BY FoundCard DEF Matching
  <2>2. connectedTo[c.hard] = szReader[u] /\ connectedTo[c.hard] # NoReader
    BY <2>1, PoolPromises DEF Pool!HandlesUsable
  <2>3. "reused" \notin causes => connectedTo[c.hard] \in {c.reader, NoReader}
    BY <2>1 DEF OwnerInv, SameReader
  <2>4. QED
    BY <2>1, <2>2, <2>3
<1>2. QED
  BY <1>1, SpecOwn, PTL

\* Threads that share a handle have a SoftCard each, in whatever order they connect and
\* disconnect, while no reader goes and no handle is given out too soon
\* (SoftReader.cpp:59-84).
THEOREM OneCardPerUserHolds == Spec => []OneCardPerUser
<1>1. IInv /\ OwnerInv => OneCardPerUser
  <2> SUFFICES ASSUME IInv, OwnerInv, causes \subseteq {"shared"}, NEW h \in Handles
               PROVE  Cardinality({c \in softCards : c.hard = h})
                        = Cardinality({u \in virtual : handle[u] = h /\ \A t \in Threads :
                                         call[t].user = u => call[t].pc # "creating"})
                          + Cardinality({t \in Threads : call[t].pc = "removing"
                                                         /\ call[t].hard = h})
    BY DEF OneCardPerUser
  <2> DEFINE A == {u \in virtual : handle[u] = h /\ \A t \in Threads :
                     call[t].user = u => call[t].pc # "creating"}
             R == {t \in Threads : call[t].pc = "removing" /\ call[t].hard = h}
             B == {call[t].user : t \in R}
             f == [t \in R |-> call[t].user]
  <2>1. Exact
    BY DEF OwnerInv
  <2>2. Cardinality(CardsOf(h)) = Cardinality(OwnersOf(h))
    BY <2>1 DEF Exact
  <2>3. \A t \in R : call[t].user \in Users /\ handle[call[t].user] = NoHandle
    BY DEF IInv, CallInv, OwnerInv, CallUser
  <2>4. OwnersOf(h) = A \union B
    <3>1. A \subseteq Users /\ B \subseteq Users
      BY <2>3 DEF IInv, TypeOK
    <3>2. \A u \in Users : Owner(u, h) <=> u \in A \/ u \in B
      BY <2>1 DEF Owner, Removing, Exact
    <3> HIDE DEF A, B
    <3>3. QED
      BY <3>1, <3>2 DEF OwnersOf
  <2>5. A \intersect B = {}
    BY <2>3, PoolAssumptions
  <2>6. IsFiniteSet(A) /\ IsFiniteSet(B)
    <3>1. A \in SUBSET Users /\ B \in SUBSET Users
      BY <2>3 DEF IInv, TypeOK
    <3> HIDE DEF A, B
    <3>2. QED
      BY <3>1, FS_Subset, UsersAssumption
  <2>7. Cardinality(R) = Cardinality(B)
    <3>1. \A s, t \in R : call[s].user = call[t].user => s = t
      BY <2>3, NullAssumption DEF IInv, OwnUser
    <3>2. f \in Injection(R, B) /\ f \in Surjection(R, B)
      BY <3>1 DEF Injection, Surjection, IsInjective
    <3> HIDE DEF A, B, R, f
    <3>3. QED
      BY <2>6, <3>2, FS_Injection
  <2>8. /\ Cardinality(A \union B) = Cardinality(A) + Cardinality(B) - Cardinality(A \intersect B)
        /\ Cardinality(A \intersect B) = 0
        /\ Cardinality(A) \in Nat /\ Cardinality(B) \in Nat
    <3> HIDE DEF A, B
    <3>1. QED
      BY <2>5, <2>6, FS_Union, FS_EmptySet, FS_CardinalityType
  <2>9. {c \in softCards : c.hard = h} = CardsOf(h)
    BY DEF CardsOf
  <2> HIDE DEF A, B, R
  <2>10. Cardinality(CardsOf(h)) = Cardinality(A) + Cardinality(R)
    BY <2>2, <2>4, <2>7, <2>8
  <2>11. QED
    BY <2>9, <2>10 DEF A, R
<1>2. QED
  BY <1>1, SpecOwn, PTL

\* A connected user can disconnect: a virtual one's SCARDHANDLE leads to a SoftCard, or its
\* SCardConnect() has not returned yet.
CanGiveBack(u) ==
  \/ u \notin virtual
  \/ getSoftCard(SCARDHANDLE(u)) # {}
  \/ \E t \in Threads : call[t].user = u /\ call[t].pc = "creating"

\* As long as no list has removed a reader and no handle was given out too soon.
HandlesReturnable ==
  causes \subseteq {"shared"} =>
    /\ \A u \in Users : Pool!Connected(u) => CanGiveBack(u)
    /\ \A h \in Handles : connectedTo[h] # NoReader =>
         \E u \in Users : handle[u] = h /\ CanGiveBack(u)

LEMMA OwnerHasCard ==
  ASSUME IInv, PoolP!IInv, OwnerInv, causes \subseteq {"shared"},
         NEW u \in Users, Pool!Connected(u)
  PROVE  CanGiveBack(u)
<1> DEFINE h == handle[u]
           cards == Matching(SCARDHANDLE(u))
<1> SUFFICES ASSUME u \in virtual,
                    \A t \in Threads : call[t].user = u => call[t].pc # "creating"
             PROVE  getSoftCard(SCARDHANDLE(u)) # {}
  BY DEF CanGiveBack
<1>1. h \in Handles /\ CardsInv /\ Exact /\ softCards \subseteq SoftCard
  BY DEF Pool!Connected, IInv, TypeOK, Pool!TypeOK, OwnerInv
<1>2. Owner(u, h)
  BY <1>1 DEF Owner, Exact
<1>3. OwnersOf(h) # {}
  BY <1>2 DEF OwnersOf
<1>4. CardsOf(h) # {}
  <2>1. Cardinality(OwnersOf(h)) # 0
    BY <1>1, <1>3, Finite, FS_EmptySet
  <2>2. Cardinality(CardsOf(h)) # 0
    BY <1>1, <2>1 DEF Exact
  <2>3. QED
    BY <2>2, FS_EmptySet
<1>5. cards \in SUBSET softCards /\ cards # {}
  BY <1>4 DEF CardsOf, Matching, SCARDHANDLE
<1>6. PICK d \in cards : TRUE
  BY <1>5
<1> DEFINE one == {c \in cards : c.reader = d.reader}
<1>7. one \in SUBSET softCards /\ one # {} /\ \A c \in one : c.reader = d.reader
  BY <1>5, <1>6
<1>8. PICK c \in one : Oldest(one) = {c}
  <2> HIDE DEF one, cards
  <2>1. QED
    BY <1>1, <1>7, OldestCard
<1>9. c \in Oldest(cards)
  BY <1>8 DEF Oldest
<1>10. QED
  BY <1>9 DEF getSoftCard

\* So a hard handle that was connected, below a virtual reader or not, can be given back:
\* it is connected to the physical reader that was asked for, one of its users has it, and
\* the handle which that user got still leads to a SoftCard when it calls
\* SCardDisconnect().  Not so once a list has deleted a SoftReader: its SoftCards are gone,
\* and a user of one of them cannot give its handle back, so that the connection stays
\* (WinscardImpl.cpp:129-145, SoftReaderManager.cpp:119-137).
THEOREM PoolPromisesKept == Spec => [](Pool!HandlesUsable /\ HandlesReturnable)
<1>1. IInv /\ PoolP!IInv /\ OwnerInv => HandlesReturnable
  <2> SUFFICES ASSUME IInv, PoolP!IInv, OwnerInv, causes \subseteq {"shared"}
               PROVE  /\ \A u \in Users : Pool!Connected(u) => CanGiveBack(u)
                      /\ \A h \in Handles : connectedTo[h] # NoReader =>
                           \E u \in Users : handle[u] = h /\ CanGiveBack(u)
    BY DEF HandlesReturnable
  <2>1. \A u \in Users : Pool!Connected(u) => CanGiveBack(u)
    BY OwnerHasCard
  <2>2. ASSUME NEW h \in Handles, connectedTo[h] # NoReader
        PROVE  \E u \in Users : handle[u] = h /\ CanGiveBack(u)
    <3>1. PICK u \in Users : handle[u] = h
      BY <2>2, PoolPromises DEF Pool!NoLeak
    <3>2. Pool!Connected(u)
      BY <3>1, NullAssumption, OffsetAssumption DEF Pool!Connected
    <3>3. QED
      BY <2>1, <3>1, <3>2
  <2>3. QED
    BY <2>1, <2>2
<1>2. QED
  BY <1>1, PoolPromises, SpecOwn, PTL
=============================================================================
