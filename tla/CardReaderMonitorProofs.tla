------------------------ MODULE CardReaderMonitorProofs ------------------------
(***************************************************************************)
(* Proofs about the monitor of the card readers and the unblock action,    *)
(* for any readers, any slots for threads and any number of events.        *)
(***************************************************************************)
EXTENDS CardReaderMonitor, FiniteSetTheorems, SequenceTheorems, TLAPS

Alive == {"listing", "waiting", "sleeping", "leaving"}
EventKinds == {"readerAdded", "readerRemoved", "cardAdded", "cardRemoved"}
Event == [kind : EventKinds, reader : Readers \union {NoReader}]
Causes == {"silent", "beginning", "second click", "exiting"}
Daemons == {"none", "starting", "connected", "done", "late", "overrun"}

\* The types, but for the lock.
Types ==
  /\ status \in Status /\ terms \in Status /\ menu \in Status
  /\ events \in Seq(Event)
  /\ run \in BOOLEAN /\ exit \in BOOLEAN
  /\ monitor \in [Monitors -> {"none", "starting", "begun"} \union Alive]
  /\ unblocker \in [Unblockers -> {"none", "starting", "pausing", "unblocking", "ending"}]
  /\ daemon \in [Unblockers -> Daemons]
  /\ lock \in Unblockers \union {NoThread}
  /\ currentRdr \in Readers \union {NoReader} /\ edt \in Readers \union {NoReader}
  /\ asked \in [Unblockers -> Readers \union {NoReader}]
  /\ opened \in [Unblockers -> Readers \union {NoReader}]
  /\ exiter \in {"none", "pausing", "stopped"}
  /\ causes \subseteq Causes

\* run() of the action is synchronized.
LockInv == \A u \in Unblockers : unblocker[u] \in {"pausing", "unblocking"} <=> lock = u

\* run() waits for a daemon that is "starting" or "connected" and for no other; a card is
\* open as long as a daemon is connected; and the slot that a click has found is free.
DaemonInv ==
  /\ \A u \in Unblockers :
       /\ unblocker[u] \in {"starting", "pausing"} => daemon[u] = "none"
       /\ unblocker[u] = "unblocking" => daemon[u] \notin {"late", "overrun"}
       /\ daemon[u] \in {"starting", "connected", "done"} => unblocker[u] = "unblocking"
       /\ daemon[u] \notin {"connected", "overrun"} => opened[u] = NoReader
  /\ edt # NoReader => \E u \in Unblockers : Idle(u)

\* One thread of the monitor at most, whose exit is announced when it leaves and not
\* before; none begins while an action waits for it, and none is left when it goes on.
MonitorInv ==
  "beginning" \notin causes =>
    /\ \A m, n \in Monitors : monitor[m] # "none" /\ monitor[n] # "none" => m = n
    /\ \A m \in Monitors : monitor[m] \in Alive => ~exit
    /\ \A u \in Unblockers : \A m \in Monitors :
         /\ unblocker[u] = "pausing" => monitor[m] \in Alive \union {"none"}
         /\ unblocker[u] = "unblocking" => monitor[m] = "none"

\* One unblock at a time, for the reader that was asked for.
ReaderInv ==
  "second click" \notin causes =>
    /\ \A u, v \in Unblockers : unblocker[u] # "none" /\ unblocker[v] # "none" => u = v
    /\ \A u \in Unblockers :
         IF unblocker[u] = "none" THEN asked[u] = NoReader
         ELSE asked[u] = currentRdr /\ currentRdr # NoReader

SessionInv ==
  "second click" \notin causes =>
    \A u \in Unblockers : opened[u] # NoReader => asked[u] \in {opened[u], NoReader}

IInv == Types /\ LockInv /\ DaemonInv /\ MonitorInv /\ ReaderInv /\ SessionInv

-----------------------------------------------------------------------------
(* The helpers *)

\* A thread is started in a slot that was free.
LEMMA StartedSlot ==
  ASSUME NEW T, NEW X, NEW f \in [T -> X], "starting" \in X
  PROVE  /\ Started(f) \in [T -> X]
         /\ (\E t \in T : f[t] = "none") =>
              \E t \in T : f[t] = "none" /\ Started(f) = [f EXCEPT ![t] = "starting"]
BY DEF Started

\* A finite set becomes a sequence of its elements, each of them once.
LEMMA SetToSeqElements ==
  ASSUME NEW S, IsFiniteSet(S)
  PROVE  /\ Cardinality(S) \in Nat
         /\ SetToSeq(S) \in Bijection(1..Cardinality(S), S)
<1>1. Cardinality(S) \in Nat /\ ExistsBijection(1..Cardinality(S), S)
  BY FS_CardinalityType
<1>2. PICK f \in Bijection(1..Cardinality(S), S) : TRUE
  BY <1>1 DEF ExistsBijection
<1>3. f \in [1..Cardinality(S) -> S] /\ IsInjective(f)
  BY <1>2 DEF Bijection, Injection
<1>4. SetToSeq(S) \in [1..Cardinality(S) -> S] /\ IsInjective(SetToSeq(S))
  BY <1>3 DEF SetToSeq
<1>5. SetToSeq(S) \in Injection(1..Cardinality(S), S)
  BY <1>4 DEF Injection
<1>6. Cardinality(1..Cardinality(S)) = Cardinality(S)
  BY <1>1, FS_Interval
<1>7. SetToSeq(S) \in Surjection(1..Cardinality(S), S)
  BY <1>5, <1>6, FS_Injection
<1> QED BY <1>1, <1>5, <1>7 DEF Bijection

ChangedReaders(new) == {q \in Readers : new[q] # terms[q]}
Changes(new) == {Change(r, terms[r], new[r]) : r \in ChangedReaders(new)}

LEMMA ReportedEvents ==
  ASSUME terms \in Status, NEW new \in Status
  PROVE  /\ IsFiniteSet(Changes(new))
         /\ Changes(new) \subseteq Event
         /\ Reported(new) = SetToSeq(Changes(new))
         /\ Reported(new) \in Seq(Event)
<1> DEFINE Q == ChangedReaders(new)
           f == [r \in Q |-> Change(r, terms[r], new[r])]
<1>1. IsFiniteSet(Q)
  BY ReadersAssumption, FS_Subset DEF ChangedReaders
<1>2. f \in Surjection(Q, Changes(new))
  BY DEF Surjection, Changes
<1>3. IsFiniteSet(Changes(new))
  BY <1>1, <1>2, FS_Surjection
<1>4. Changes(new) \subseteq Event
  <2>1. ASSUME NEW r \in Readers PROVE Change(r, terms[r], new[r]) \in Event
    BY DEF Change, Event, EventKinds
  <2> QED BY <2>1 DEF Changes, ChangedReaders
<1>5. Reported(new) = SetToSeq(Changes(new))
  BY DEF Reported, Changes, ChangedReaders
<1>6. /\ Cardinality(Changes(new)) \in Nat
      /\ SetToSeq(Changes(new)) \in [1..Cardinality(Changes(new)) -> Changes(new)]
  BY <1>3, SetToSeqElements DEF Bijection, Injection
<1>7. Reported(new) \in [1..Cardinality(Changes(new)) -> Event]
  BY <1>4, <1>5, <1>6
<1>8. Reported(new) \in Seq(Event)
  BY <1>6, <1>7, SeqDef
<1> QED BY <1>3, <1>4, <1>5, <1>8

\* An event changes the menu into a menu.
LEMMA UpdatedMenu ==
  ASSUME NEW m \in Status, NEW e \in Event
  PROVE  Updated(m, e) \in Status
<1>1. CASE e.reader = NoReader
  BY <1>1 DEF Updated, Absent, Status
<1>2. CASE e.reader # NoReader
  <2>1. e.reader \in Readers /\ e.kind \in EventKinds
    BY <1>2 DEF Event
  <2>2. m[e.reader] \in {"absent", "empty", "card"}
    BY <2>1 DEF Status
  <2>3. Item(m[e.reader], e) \in {"absent", "empty", "card"}
    BY <2>1, <2>2 DEF Item, EventKinds
  <2>4. Updated(m, e) = [m EXCEPT ![e.reader] = Item(m[e.reader], e)]
    BY <1>2 DEF Updated
  <2> QED BY <2>3, <2>4 DEF Status
<1> QED BY <1>1, <1>2

-----------------------------------------------------------------------------
(* Recursion on finite sets: a smallest counterexample takes the place of induction *)

\* A set of finite sets has one that contains no other of them.
LEMMA SmallestSet ==
  ASSUME NEW S, IsFiniteSet(S), NEW F \in SUBSET SUBSET S, F # {}
  PROVE  \E T \in F : \A U \in F : U \subseteq T => U = T
<1>1. IsWellFoundedOn(StrictSubsetOrdering(S), SUBSET S)
  BY FS_StrictSubsetOrderingWellFounded, FS_FiniteSubsetsOfFinite, Zenon
<1>2. PICK T \in F : \A U \in F : <<U, T>> \notin StrictSubsetOrdering(S)
  BY <1>1, WFMin, Zenon
<1>3. ASSUME NEW U \in F, U \subseteq T PROVE U = T
  BY <1>2, <1>3 DEF StrictSubsetOrdering
<1> QED BY <1>3

\* A set of numbers has a smallest one.
LEMMA SmallestNumber ==
  ASSUME NEW T \in SUBSET Nat, T # {}
  PROVE  \E x \in T : \A y \in T : x <= y
<1> DEFINE R == OpToRel(<, Nat)
<1>1. IsWellFoundedOn(R, Nat)
  BY NatLessThanWellFounded
<1>2. PICK x \in T : \A y \in T : <<y, x>> \notin R
  <2> HIDE DEF R
  <2> QED BY <1>1, WFMin
<1>3. \A y \in T : ~(y < x)
  BY <1>2 DEF OpToRel
<1> QED BY <1>3

\* g is defined on the subsets of T by recursion: one element is taken away after the other.
Recursive(g, T, base, pick, step) ==
  \A s \in SUBSET T :
    g[s] = IF s = {} THEN base ELSE step[<<pick[s], g[s \ {pick[s]}]>>]

Picks(pick, S) == pick \in [(SUBSET S) \ {{}} -> S] /\ \A s \in (SUBSET S) \ {{}} : pick[s] \in s

LEMMA RecursionIsUnique ==
  ASSUME NEW S, IsFiniteSet(S), NEW base, NEW pick, NEW step, Picks(pick, S),
         NEW T1 \in SUBSET S, NEW T2 \in SUBSET S, NEW g1, NEW g2,
         Recursive(g1, T1, base, pick, step), Recursive(g2, T2, base, pick, step),
         NEW s \in SUBSET (T1 \intersect T2)
  PROVE  g1[s] = g2[s]
<1> DEFINE F == {u \in SUBSET (T1 \intersect T2) : g1[u] # g2[u]}
<1>1. SUFFICES ASSUME F # {} PROVE FALSE
  OBVIOUS
<1>2. PICK u \in F : \A v \in F : v \subseteq u => v = u
  <2>1. F \in SUBSET SUBSET S
    OBVIOUS
  <2> HIDE DEF F
  <2> QED BY <1>1, <2>1, SmallestSet
<1>3. u # {} /\ u \in SUBSET T1 /\ u \in SUBSET T2
  BY DEF Recursive
<1>4. pick[u] \in u
  BY <1>3 DEF Picks
<1>5. u \ {pick[u]} \notin F
  BY <1>2, <1>4
<1>6. g1[u \ {pick[u]}] = g2[u \ {pick[u]}]
  BY <1>5
<1> QED BY <1>3, <1>6 DEF Recursive

LEMMA FiniteRecursion ==
  ASSUME NEW S, IsFiniteSet(S), NEW V, NEW base \in V, NEW pick, Picks(pick, S),
         NEW step \in [S \X V -> V]
  PROVE  \E g \in [SUBSET S -> V] : Recursive(g, S, base, pick, step)
<1> DEFINE Solved(T) == \E g \in [SUBSET T -> V] : Recursive(g, T, base, pick, step)
           F == {T \in SUBSET S : ~Solved(T)}
<1>1. SUFFICES ASSUME F # {} PROVE FALSE
  OBVIOUS
<1>2. PICK T \in F : \A U \in F : U \subseteq T => U = T
  <2>1. F \in SUBSET SUBSET S
    OBVIOUS
  <2> HIDE DEF F
  <2> QED BY <1>1, <2>1, SmallestSet
<1>3. \A x \in T : Solved(T \ {x})
  <2> TAKE x \in T
  <2>1. T \ {x} \in SUBSET S /\ T \ {x} \subseteq T /\ T \ {x} # T
    OBVIOUS
  <2>2. T \ {x} \notin F
    <3> HIDE DEF F
    <3> QED BY <1>2, <2>1
  <2> HIDE DEF Solved
  <2> QED BY <2>1, <2>2
<1> DEFINE G == [x \in T |-> CHOOSE g \in [SUBSET (T \ {x}) -> V] :
                                 Recursive(g, T \ {x}, base, pick, step)]
           val(s) == G[CHOOSE x \in T : x \notin s][s]
           last == IF T = {} THEN base ELSE step[<<pick[T], val(T \ {pick[T]})>>]
           g == [s \in SUBSET T |-> IF s = T THEN last ELSE val(s)]
<1>4. \A x \in T : /\ G[x] \in [SUBSET (T \ {x}) -> V]
                   /\ Recursive(G[x], T \ {x}, base, pick, step)
  BY <1>3
<1>5. ASSUME NEW x \in T, NEW s \in SUBSET (T \ {x})
      PROVE  val(s) = G[x][s] /\ val(s) \in V
  <2>1. PICK y \in T : y = (CHOOSE z \in T : z \notin s) /\ y \notin s
    OBVIOUS
  <2>2. val(s) = G[y][s] /\ s \in SUBSET ((T \ {x}) \intersect (T \ {y}))
    BY <2>1
  <2>3. T \ {x} \in SUBSET S /\ T \ {y} \in SUBSET S
    OBVIOUS
  <2> HIDE DEF G, val
  <2>4. G[y][s] = G[x][s]
    <3>1. /\ Recursive(G[x], T \ {x}, base, pick, step)
          /\ Recursive(G[y], T \ {y}, base, pick, step)
      BY <1>4
    <3>2. PICK T1 \in SUBSET S, T2 \in SUBSET S : T1 = T \ {y} /\ T2 = T \ {x}
      BY <2>3
    <3>3. PICK g1, g2 : g1 = G[y] /\ g2 = G[x]
      OBVIOUS
    <3>4. g1[s] = g2[s]
      <4>1. Recursive(g1, T1, base, pick, step) /\ Recursive(g2, T2, base, pick, step)
        BY <3>1, <3>2, <3>3
      <4>2. s \in SUBSET (T1 \intersect T2)
        BY <2>2, <3>2
      <4>3. IsFiniteSet(S) /\ Picks(pick, S)
        OBVIOUS
      <4> QED BY <4>1, <4>2, <4>3, RecursionIsUnique
    <3> QED BY <3>3, <3>4
  <2>5. G[x][s] \in V
    <3>1. G[x] \in [SUBSET (T \ {x}) -> V]
      BY <1>4
    <3> QED BY <3>1
  <2> QED BY <2>2, <2>4, <2>5
<1> HIDE DEF G, val
<1>6. T # {} => pick[T] \in T /\ val(T \ {pick[T]}) \in V
  BY <1>5 DEF Picks
<1>7. last \in V
  BY <1>6
<1>8. g \in [SUBSET T -> V]
  <2>1. ASSUME NEW s \in SUBSET T, s # T PROVE val(s) \in V
    <3>1. PICK x \in T : x \notin s
      BY <2>1
    <3> QED BY <1>5, <3>1
  <2> HIDE DEF last
  <2> QED BY <1>7, <2>1
<1>9. Recursive(g, T, base, pick, step)
  <2>1. SUFFICES ASSUME NEW s \in SUBSET T
                 PROVE  g[s] = IF s = {} THEN base ELSE step[<<pick[s], g[s \ {pick[s]}]>>]
    BY DEF Recursive
  <2>2. CASE s = T
    <3>1. CASE T = {}
      BY <2>2, <3>1
    <3>2. CASE T # {}
      <4>1. pick[T] \in T /\ T \ {pick[T]} # T
        BY <1>6, <3>2
      <4>2. g[T \ {pick[T]}] = val(T \ {pick[T]})
        BY <4>1
      <4> QED BY <2>2, <3>2, <4>2
    <3> QED BY <3>1, <3>2
  <2>3. CASE s # T
    <3>1. PICK x \in T : x \notin s
      BY <2>3
    <3>2. g[s] = G[x][s]
      BY <1>5, <2>3, <3>1
    <3>3. CASE s = {}
      BY <1>4, <3>1, <3>2, <3>3 DEF Recursive
    <3>4. CASE s # {}
      <4>1. pick[s] \in s
        BY <3>4 DEF Picks
      <4>2. s \ {pick[s]} \in SUBSET (T \ {x}) /\ s \ {pick[s]} # T
        BY <3>1
      <4>3. g[s \ {pick[s]}] = G[x][s \ {pick[s]}]
        BY <1>5, <4>2
      <4>4. G[x][s] = step[<<pick[s], G[x][s \ {pick[s]}]>>]
        <5>1. Recursive(G[x], T \ {x}, base, pick, step) /\ s \in SUBSET (T \ {x})
          BY <1>4, <3>1
        <5> QED BY <3>4, <5>1 DEF Recursive
      <4> QED BY <3>2, <3>4, <4>3, <4>4
    <3> QED BY <3>3, <3>4
  <2> QED BY <2>2, <2>3
<1>10. Solved(T)
  <2> HIDE DEF g
  <2> QED BY <1>8, <1>9
<1> QED BY <1>2, <1>10

-----------------------------------------------------------------------------
(* The events that wait *)

\* The menus on the way from m, when the events of s run one after the other.
Menus(h, m, s) ==
  /\ h \in [0..Len(s) -> Status]
  /\ h[0] = m
  /\ \A i \in 1..Len(s) : h[i] = Updated(h[i-1], s[i])

\* A set of positions has a last one.
LEMMA LargestPosition ==
  ASSUME NEW n \in Nat, NEW S \in (SUBSET (1..n)) \ {{}}
  PROVE  /\ Max(S) \in S
         /\ \A y \in S : y <= Max(S)
<1> DEFINE T == {k \in Nat : \A x \in S : x <= k}
<1>1. n \in T
  OBVIOUS
<1>2. PICK k \in T : \A j \in T : k <= j
  <2>1. T \in SUBSET Nat /\ T # {}
    BY <1>1
  <2> HIDE DEF T
  <2> QED BY <2>1, SmallestNumber
<1>3. k \in S
  <2>1. SUFFICES ASSUME k \notin S PROVE FALSE
    OBVIOUS
  <2>2. \A x \in S : x \in 1..n /\ x <= k /\ x # k
    BY <1>2, <2>1
  <2>3. k \in Nat /\ k > 0
    BY <1>2, <2>2
  <2>4. k - 1 \in T
    BY <2>2, <2>3
  <2> QED BY <1>2, <2>3, <2>4
<1>4. k \in S /\ \A y \in S : k >= y
  BY <1>2, <1>3
<1> QED BY <1>4 DEF Max

LEMMA FoldIsRecursive ==
  ASSUME NEW m \in Status, NEW s \in Seq(Event)
  PROVE  \E h : Menus(h, m, s) /\ FoldLeft(Updated, m, s) = h[Len(s)]
<1> DEFINE S == DOMAIN s
           pick == [t \in (SUBSET S) \ {{}} |-> Max(t)]
           step == [p \in S \X Status |-> Updated(p[2], s[p[1]])]
           IsFold(g) == g = [t \in SUBSET S |-> IF t = {} THEN m
                                                ELSE LET x == Max(t)
                                                     IN  Updated(g[t \ {x}], s[x])]
           iter == CHOOSE g : IsFold(g)
<1>1. Len(s) \in Nat /\ S = 1..Len(s) /\ \A i \in S : s[i] \in Event
  OBVIOUS
<1>2. IsFiniteSet(S)
  BY <1>1, FS_Interval
<1>3. Picks(pick, S) /\ \A t \in (SUBSET S) \ {{}} : Max(t) \in t /\ Max(t) \in S
  <2>1. \A t \in (SUBSET S) \ {{}} : Max(t) \in t
    <3> TAKE t \in (SUBSET S) \ {{}}
    <3>1. t \in (SUBSET (1..Len(s))) \ {{}}
      BY <1>1
    <3> HIDE DEF S
    <3> QED BY <1>1, <3>1, LargestPosition
  <2> QED BY <2>1 DEF Picks
<1>4. step \in [S \X Status -> Status]
  <2>1. \A i \in S, x \in Status : Updated(x, s[i]) \in Status
    BY <1>1, UpdatedMenu
  <2> QED BY <2>1
<1>5. PICK g \in [SUBSET S -> Status] : Recursive(g, S, m, pick, step)
  <2> HIDE DEF S, pick, step
  <2> QED BY <1>2, <1>3, <1>4, FiniteRecursion
<1>6. IsFold(g)
  <2>1. ASSUME NEW t \in SUBSET S
        PROVE  g[t] = IF t = {} THEN m ELSE Updated(g[t \ {Max(t)}], s[Max(t)])
    <3>1. CASE t = {}
      BY <1>5, <3>1 DEF Recursive
    <3>2. CASE t # {}
      <4>1. g[t] = step[<<pick[t], g[t \ {pick[t]}]>>]
        BY <1>5, <3>2 DEF Recursive
      <4>2. pick[t] = Max(t) /\ Max(t) \in S
        BY <1>3, <3>2
      <4>3. g[t \ {Max(t)}] \in Status
        OBVIOUS
      <4> HIDE DEF pick, S
      <4> QED BY <3>2, <4>1, <4>2, <4>3
    <3> QED BY <3>1, <3>2
  <2> QED BY <2>1
<1>7. IsFold(iter)
  <2> HIDE DEF IsFold
  <2> QED BY <1>6
<1>8. FoldLeft(Updated, m, s) = iter[DOMAIN s]
  BY DEF FoldLeft, MapThenFoldSet
<1>9. iter[S] = g[S]
  <2> DEFINE F == {t \in SUBSET S : iter[t] # g[t]}
  <2>1. SUFFICES ASSUME F # {} PROVE FALSE
    OBVIOUS
  <2>2. PICK t \in F : \A u \in F : u \subseteq t => u = t
    <3>1. F \in SUBSET SUBSET S
      OBVIOUS
    <3> HIDE DEF F, S
    <3> QED BY <1>2, <2>1, <3>1, SmallestSet
  <2>3. \A f : IsFold(f) => \A u \in SUBSET S :
          f[u] = IF u = {} THEN m ELSE Updated(f[u \ {Max(u)}], s[Max(u)])
    OBVIOUS
  <2> HIDE DEF IsFold, iter, S
  <2>4. t # {}
    BY <1>6, <1>7, <2>3
  <2>5. Max(t) \in t
    BY <1>3, <2>4
  <2>6. iter[t \ {Max(t)}] = g[t \ {Max(t)}]
    BY <2>2, <2>5
  <2>7. iter[t] = Updated(iter[t \ {Max(t)}], s[Max(t)])
    BY <1>7, <2>3, <2>4
  <2>8. g[t] = Updated(g[t \ {Max(t)}], s[Max(t)])
    BY <1>6, <2>3, <2>4
  <2> QED BY <2>2, <2>6, <2>7, <2>8
<1> DEFINE h == [i \in 0..Len(s) |-> g[1..i]]
<1>10. h \in [0..Len(s) -> Status] /\ h[0] = m
  <2>1. \A i \in 0..Len(s) : 1..i \in SUBSET S
    BY <1>1
  <2>3. {} \in SUBSET S /\ 1..0 = {}
    OBVIOUS
  <2>2. g[{}] = m
    <3> HIDE DEF S, step, pick
    <3> QED BY <1>5, <2>3 DEF Recursive
  <2> QED BY <1>1, <2>1, <2>2, <2>3
<1>11. ASSUME NEW i \in 1..Len(s) PROVE h[i] = Updated(h[i-1], s[i])
  <2>1. 1..i \in (SUBSET (1..Len(s))) \ {{}} /\ i - 1 \in 0..Len(s) /\ i \in 0..Len(s)
    BY <1>1
  <2>2. Max(1..i) \in 1..i /\ \A y \in 1..i : y <= Max(1..i)
    BY <1>1, <2>1, LargestPosition
  <2>3. Max(1..i) = i
    BY <2>1, <2>2
  <2>4. (1..i) \ {Max(1..i)} = 1..(i-1)
    BY <2>3
  <2>5. g[1..i] = Updated(g[(1..i) \ {Max(1..i)}], s[Max(1..i)])
    BY <1>1, <1>6, <2>1
  <2> QED BY <2>1, <2>3, <2>4, <2>5
<1>12. Menus(h, m, s)
  <2> HIDE DEF h
  <2> QED BY <1>10, <1>11 DEF Menus
<1>13. h[Len(s)] = iter[S]
  BY <1>1, <1>9
<1>14. Len(s) \in Nat
  BY <1>1
<1> QED BY <1>8, <1>12, <1>13

\* There is one way from a menu through the events.
LEMMA MenusEnd ==
  ASSUME NEW m \in Status, NEW s \in Seq(Event), NEW h, Menus(h, m, s)
  PROVE  FoldLeft(Updated, m, s) = h[Len(s)]
<1>1. PICK f : Menus(f, m, s) /\ FoldLeft(Updated, m, s) = f[Len(s)]
  BY FoldIsRecursive
<1> DEFINE T == {i \in 0..Len(s) : f[i] # h[i]}
<1>2. Len(s) \in Nat
  OBVIOUS
<1>3. SUFFICES ASSUME T # {} PROVE FALSE
  BY <1>1, <1>2
<1>4. PICK i \in T : \A j \in T : i <= j
  <2>1. T \in SUBSET Nat
    OBVIOUS
  <2> HIDE DEF T
  <2> QED BY <1>3, <2>1, SmallestNumber
<1>5. i \in 1..Len(s)
  BY <1>1, <1>2 DEF Menus
<1>6. i - 1 \notin T
  BY <1>4, <1>5
<1>7. f[i-1] = h[i-1]
  BY <1>5, <1>6
<1> QED BY <1>1, <1>5, <1>7 DEF Menus

LEMMA FoldTail ==
  ASSUME NEW m \in Status, NEW s \in Seq(Event), s # <<>>
  PROVE  FoldLeft(Updated, Updated(m, Head(s)), Tail(s)) = FoldLeft(Updated, m, s)
<1>1. PICK h : Menus(h, m, s) /\ FoldLeft(Updated, m, s) = h[Len(s)]
  BY FoldIsRecursive
<1> DEFINE n == Len(s) - 1
           f == [i \in 0..n |-> h[i+1]]
<1>2. /\ Len(s) \in Nat /\ n \in Nat /\ Len(Tail(s)) = n /\ Head(s) = s[1]
      /\ Tail(s) \in Seq(Event) /\ \A i \in 1..n : Tail(s)[i] = s[i+1]
      /\ Head(s) \in Event
  OBVIOUS
<1>3. Updated(m, Head(s)) \in Status
  BY <1>2, UpdatedMenu
<1>4. f \in [0..n -> Status] /\ f[0] = Updated(m, Head(s)) /\ f[n] = h[Len(s)]
  BY <1>1, <1>2 DEF Menus
<1>5. ASSUME NEW i \in 1..n PROVE f[i] = Updated(f[i-1], Tail(s)[i])
  <2>1. i + 1 \in 1..Len(s) /\ (i + 1) - 1 = i /\ i \in 0..n /\ i - 1 \in 0..n
    BY <1>2
  <2>2. h[i+1] = Updated(h[i], s[i+1])
    BY <1>1, <2>1 DEF Menus
  <2>3. f[i] = h[i+1] /\ f[i-1] = h[i]
    BY <2>1
  <2> QED BY <1>2, <2>2, <2>3
<1> HIDE DEF f, n
<1>6. Menus(f, Updated(m, Head(s)), Tail(s))
  BY <1>2, <1>4, <1>5 DEF Menus
<1> QED BY <1>1, <1>2, <1>3, <1>4, <1>6, MenusEnd

LEMMA FoldAppend ==
  ASSUME NEW m \in Status, NEW s \in Seq(Event), NEW e \in Event
  PROVE  FoldLeft(Updated, m, Append(s, e)) = Updated(FoldLeft(Updated, m, s), e)
<1>1. PICK h : Menus(h, m, s) /\ FoldLeft(Updated, m, s) = h[Len(s)]
  BY FoldIsRecursive
<1> DEFINE n == Len(s)
           f == [i \in 0..(n+1) |-> IF i <= n THEN h[i] ELSE Updated(h[n], e)]
<1>2. /\ n \in Nat /\ Append(s, e) \in Seq(Event) /\ Len(Append(s, e)) = n + 1
      /\ Append(s, e)[n+1] = e /\ \A i \in 1..n : Append(s, e)[i] = s[i]
  OBVIOUS
<1>3. h[n] \in Status /\ Updated(h[n], e) \in Status
  BY <1>1, <1>2, UpdatedMenu DEF Menus
<1>4. f \in [0..(n+1) -> Status] /\ f[0] = m /\ f[n+1] = Updated(h[n], e)
  BY <1>1, <1>2, <1>3 DEF Menus
<1>5. ASSUME NEW i \in 1..(n+1) PROVE f[i] = Updated(f[i-1], Append(s, e)[i])
  <2>1. CASE i <= n
    <3>1. i \in 1..n /\ i - 1 \in 0..(n+1) /\ i - 1 <= n /\ i \in 0..(n+1)
      BY <1>2, <2>1
    <3>2. h[i] = Updated(h[i-1], s[i])
      BY <1>1, <3>1 DEF Menus
    <3>3. f[i] = h[i] /\ f[i-1] = h[i-1]
      BY <3>1
    <3> QED BY <1>2, <3>1, <3>2, <3>3
  <2>2. CASE i = n + 1
    <3>1. f[i-1] = h[n] /\ f[i] = Updated(h[n], e)
      BY <1>2, <2>2
    <3> QED BY <1>2, <2>2, <3>1
  <2> QED BY <1>2, <2>1, <2>2
<1> HIDE DEF f
<1>6. Menus(f, m, Append(s, e))
  BY <1>2, <1>4, <1>5 DEF Menus
<1> QED BY <1>1, <1>2, <1>4, <1>6, MenusEnd

\* What is reported of a reader makes its item what it should be.
LEMMA ChangeIsShown ==
  ASSUME NEW before \in {"absent", "empty", "card"}, NEW after \in {"absent", "empty", "card"},
         before # after, NEW r
  PROVE  /\ Change(r, before, after).reader = r
         /\ Item(before, Change(r, before, after)) = after
<1>1. CASE after = "absent"
  <2>1. Change(r, before, after) = [kind |-> "readerRemoved", reader |-> r]
    BY <1>1 DEF Change
  <2> QED BY <1>1, <2>1 DEF Item
<1>2. CASE after = "card"
  <2>1. Change(r, before, after) = [kind |-> "cardAdded", reader |-> r]
    BY <1>2 DEF Change
  <2> QED BY <1>2, <2>1 DEF Item
<1>3. CASE after = "empty" /\ before = "absent"
  <2>1. Change(r, before, after) = [kind |-> "readerAdded", reader |-> r]
    BY <1>3 DEF Change
  <2> QED BY <1>3, <2>1 DEF Item
<1>4. CASE after = "empty" /\ before = "card"
  <2>1. Change(r, before, after) = [kind |-> "cardRemoved", reader |-> r]
    BY <1>4 DEF Change
  <2> QED BY <1>4, <2>1 DEF Item
<1> QED BY <1>1, <1>2, <1>3, <1>4

\* The events that are reported turn what was reported before into what is now.
LEMMA FoldReported ==
  ASSUME terms \in Status, NEW new \in Status, NEW m \in Status, NEW s \in Seq(Event),
         FoldLeft(Updated, m, s) = terms
  PROVE  FoldLeft(Updated, m, s \o Reported(new)) = new
<1>1. PICK h : Menus(h, m, s) /\ h[Len(s)] = terms
  BY FoldIsRecursive
<1>2. PICK R : R = Reported(new)
  OBVIOUS
<1>0. ASSUME NEW r \in ChangedReaders(new)
      PROVE  /\ Change(r, terms[r], new[r]).reader = r
             /\ Item(terms[r], Change(r, terms[r], new[r])) = new[r]
  <2>1. /\ terms[r] \in {"absent", "empty", "card"} /\ new[r] \in {"absent", "empty", "card"}
        /\ terms[r] # new[r]
    BY DEF Status, ChangedReaders
  <2> QED BY <2>1, ChangeIsShown
<1> DEFINE n == Len(s)
           k == Len(R)
           told(j) == {r \in Readers : \E i \in 1..j : R[i].reader = r}
           shown(j) == [r \in Readers |-> IF r \in told(j) THEN new[r] ELSE terms[r]]
           f == [i \in 0..(n+k) |-> IF i <= n THEN h[i] ELSE shown(i - n)]
<1>3. R \in Seq(Event) /\ IsFiniteSet(Changes(new)) /\ R = SetToSeq(Changes(new))
  BY <1>2, ReportedEvents
<1>4. R \in Bijection(1..k, Changes(new))
  <2>1. /\ Cardinality(Changes(new)) \in Nat
        /\ R \in Bijection(1..Cardinality(Changes(new)), Changes(new))
    BY <1>3, SetToSeqElements
  <2>2. DOMAIN R = 1..Cardinality(Changes(new))
    BY <2>1 DEF Bijection, Injection
  <2>3. k = Cardinality(Changes(new))
    BY <1>3, <2>1, <2>2
  <2> QED BY <2>1, <2>3
<1>5. \A i \in 1..k : R[i].reader \in ChangedReaders(new)
                     /\ R[i] = Change(R[i].reader, terms[R[i].reader], new[R[i].reader])
  <2> TAKE i \in 1..k
  <2>1. R[i] \in Changes(new)
    BY <1>4 DEF Bijection, Injection
  <2>2. PICK r \in ChangedReaders(new) : R[i] = Change(r, terms[r], new[r])
    BY <2>1 DEF Changes
  <2>3. R[i].reader = r
    BY <1>0, <2>2
  <2> QED BY <2>2, <2>3
<1>6. \A i, j \in 1..k : R[i].reader = R[j].reader => i = j
  BY <1>4, <1>5 DEF Bijection, Injection, IsInjective
<1>7. \A r \in ChangedReaders(new) : \E i \in 1..k : R[i].reader = r
  <2> TAKE r \in ChangedReaders(new)
  <2>1. Change(r, terms[r], new[r]) \in Changes(new)
    BY DEF Changes
  <2>2. PICK i \in 1..k : R[i] = Change(r, terms[r], new[r])
    BY <1>4, <2>1 DEF Bijection, Surjection
  <2> QED BY <1>0, <2>2
<1>8. n \in Nat /\ k \in Nat /\ ChangedReaders(new) \subseteq Readers
  BY <1>3 DEF ChangedReaders
<1>9. shown(0) = terms /\ shown(k) = new
  <2>1. told(0) = {} /\ told(k) = ChangedReaders(new)
    BY <1>5, <1>7, <1>8
  <2>2. shown(0) = terms
    BY <2>1 DEF Status
  <2>3. \A r \in Readers : r \notin ChangedReaders(new) => terms[r] = new[r]
    BY DEF ChangedReaders
  <2>4. shown(k) = new
    BY <2>1, <2>3 DEF Status
  <2> QED BY <2>2, <2>4
<1>10. ASSUME NEW j \in 1..k PROVE shown(j) = Updated(shown(j-1), R[j])
  <2>1. PICK r \in ChangedReaders(new) : r = R[j].reader /\ R[j] = Change(r, terms[r], new[r])
    BY <1>5
  <2>2. r \in Readers /\ r # NoReader
    BY <1>8, NullAssumption
  <2>3. told(j) = told(j-1) \union {r}
    <3>1. \A i : i \in 1..j <=> i \in 1..(j-1) \/ i = j
      BY <1>8
    <3> QED BY <2>1, <2>2, <3>1
  <2>4. r \notin told(j-1)
    <3>1. \A i \in 1..(j-1) : i \in 1..k /\ i # j
      BY <1>8
    <3> QED BY <1>6, <2>1, <3>1
  <2>5. Item(terms[r], R[j]) = new[r]
    BY <1>0, <2>1
  <2>6. Updated(shown(j-1), R[j]) = [shown(j-1) EXCEPT ![r] = Item(shown(j-1)[r], R[j])]
    BY <2>1, <2>2 DEF Updated
  <2> HIDE DEF told
  <2>7. shown(j-1)[r] = terms[r]
    BY <2>2, <2>4
  <2> QED BY <2>2, <2>3, <2>5, <2>6, <2>7
<1>11. \A j \in 0..k : shown(j) \in Status
  BY DEF Status
<1> HIDE DEF shown, told
<1>12. f \in [0..(n+k) -> Status] /\ f[0] = m /\ f[n+k] = new
  <2>1. \A i \in 0..(n+k) : IF i <= n THEN h[i] \in Status ELSE shown(i - n) \in Status
    BY <1>1, <1>8, <1>11 DEF Menus
  <2>2. f[n+k] = new
    BY <1>1, <1>8, <1>9
  <2>3. f[0] = m
    BY <1>1, <1>8 DEF Menus
  <2> QED BY <2>1, <2>2, <2>3
<1>13. /\ s \o R \in Seq(Event) /\ Len(s \o R) = n + k
       /\ \A i \in 1..(n+k) : (s \o R)[i] = IF i <= n THEN s[i] ELSE R[i - n]
  BY <1>3, ConcatProperties
<1>14. ASSUME NEW i \in 1..(n+k) PROVE f[i] = Updated(f[i-1], (s \o R)[i])
  <2>1. CASE i <= n
    <3>1. i \in 1..n /\ i - 1 \in 0..(n+k) /\ i - 1 <= n /\ i \in 0..(n+k)
      BY <1>8, <2>1
    <3>2. h[i] = Updated(h[i-1], s[i])
      BY <1>1, <3>1 DEF Menus
    <3>3. f[i] = h[i] /\ f[i-1] = h[i-1]
      BY <3>1
    <3> QED BY <1>13, <2>1, <3>2, <3>3
  <2>2. CASE i > n
    <3>1. /\ i - n \in 1..k /\ (i - n) - 1 = (i - 1) - n /\ ~(i <= n)
          /\ i - 1 \in 0..(n+k) /\ i \in 0..(n+k)
      BY <1>8, <2>2
    <3>2. shown(i - n) = Updated(shown((i - 1) - n), R[i - n])
      BY <1>10, <3>1
    <3>3. f[i] = shown(i - n)
      BY <3>1
    <3>4. f[i-1] = shown((i - 1) - n)
      <4>1. CASE i = n + 1
        <5>1. i - 1 = n /\ (i - 1) - n = 0
          BY <1>8, <4>1
        <5> QED BY <1>1, <1>8, <1>9, <3>1, <5>1
      <4>2. CASE i # n + 1
        <5>1. ~(i - 1 <= n)
          BY <1>8, <2>2, <4>2
        <5> QED BY <3>1, <5>1
      <4> QED BY <4>1, <4>2
    <3> QED BY <1>13, <3>1, <3>2, <3>3, <3>4
  <2> QED BY <1>8, <2>1, <2>2
<1> HIDE DEF f
<1>15. Menus(f, m, s \o R)
  BY <1>12, <1>13, <1>14 DEF Menus
<1> QED BY <1>2, <1>12, <1>13, <1>15, MenusEnd

-----------------------------------------------------------------------------
(* The first state *)

LEMMA InitIInv == Init => IInv
<1> SUFFICES ASSUME Init PROVE IInv
  OBVIOUS
<1>1. Types
  <2>1. Absent \in Status
    BY DEF Absent, Status
  <2>2. monitor \in [Monitors -> {"none", "starting", "begun"} \union Alive]
    <3> DEFINE f == [m \in Monitors |-> "none"]
               X == {"none", "starting", "begun"} \union Alive
    <3>1. f \in [Monitors -> X] /\ "starting" \in X /\ monitor = Started(f)
      BY DEF Init
    <3> HIDE DEF f, X
    <3>2. monitor \in [Monitors -> X]
      BY <3>1, StartedSlot
    <3> QED BY <3>2 DEF X
  <2>3. status \in Status /\ terms \in Status /\ menu \in Status
    BY <2>1 DEF Init, Status
  <2>4. events \in Seq(Event)
    BY DEF Init
  <2> QED BY <2>2, <2>3, <2>4 DEF Init, Types, Daemons
<1>2. LockInv /\ DaemonInv /\ ReaderInv /\ SessionInv
  BY NullAssumption DEF Init, LockInv, DaemonInv, ReaderInv, SessionInv
<1>3. MonitorInv
  <2> DEFINE f == [m \in Monitors |-> "none"]
  <2>1. CASE Monitors = {}
    BY <2>1 DEF MonitorInv
  <2>2. CASE Monitors # {}
    <3>1. f \in [Monitors -> {"none", "starting"}] /\ \E m \in Monitors : f[m] = "none"
      BY <2>2
    <3>2. monitor = Started(f)
      BY DEF Init
    <3> HIDE DEF f
    <3>5. "starting" \in {"none", "starting"}
      OBVIOUS
    <3>4. PICK m \in Monitors : monitor = [f EXCEPT ![m] = "starting"]
      BY <3>1, <3>2, <3>5, StartedSlot, Zenon
    <3>3. \A n \in Monitors : monitor[n] = IF n = m THEN "starting" ELSE "none"
      BY <3>1, <3>4 DEF f
    <3> QED BY <3>3 DEF Init, MonitorInv, Alive
  <2> QED BY <2>1, <2>2
<1> QED BY <1>1, <1>2, <1>3 DEF IInv

-----------------------------------------------------------------------------
(* Each step *)

\* Every step keeps the types.
LEMMA TypesStep == Types /\ [Next]_vars => Types'
<1> SUFFICES ASSUME Types, [Next]_vars PROVE Types'
  OBVIOUS
<1> USE DEF Types, Causes, Daemons, readers, unblock
<1>1. ASSUME NEW m \in Monitors, Begin(m) PROVE Types'
  BY <1>1 DEF Begin, Goto, Alive
<1>2. ASSUME NEW m \in Monitors, GetStatusChange(m) PROVE Types'
  <2>1. monitor' \in [Monitors -> {"none", "starting", "begun"} \union Alive]
    BY <1>2 DEF GetStatusChange, Goto, Alive
  <2>2. terms' \in Status /\ events' \in Seq(Event)
    <3>1. CASE terms' = status /\ events' = events \o Reported(status)
      <4>1. Reported(status) \in Seq(Event)
        BY ReportedEvents
      <4> HIDE DEF Types
      <4> QED BY <3>1, <4>1, ConcatProperties DEF Types
    <3>2. ASSUME NEW r \in Readers,
                 terms' = [status EXCEPT ![r] = "empty"],
                 events' = events \o Reported([status EXCEPT ![r] = "empty"])
          PROVE  terms' \in Status /\ events' \in Seq(Event)
      <4>1. [status EXCEPT ![r] = "empty"] \in Status
        BY DEF Status
      <4>2. Reported([status EXCEPT ![r] = "empty"]) \in Seq(Event)
        BY <4>1, ReportedEvents
      <4> QED BY <3>2, <4>1, <4>2, ConcatProperties
    <3>3. CASE /\ terms' = Absent
               /\ \/ events' = Append(events, [kind |-> "readerRemoved", reader |-> NoReader])
                  \/ events' = events
      <4>1. Absent \in Status
        BY DEF Absent, Status
      <4>2. [kind |-> "readerRemoved", reader |-> NoReader] \in Event
        BY DEF Event, EventKinds
      <4>3. events \in Seq(Event)
        OBVIOUS
      <4> HIDE DEF Types
      <4> QED BY <3>3, <4>1, <4>2, <4>3, AppendProperties
    <3> QED BY <1>2, <3>1, <3>2, <3>3 DEF GetStatusChange
  <2>3. causes' \subseteq Causes
    BY <1>2 DEF GetStatusChange
  <2> QED BY <1>2, <2>1, <2>2, <2>3 DEF GetStatusChange
<1>3. ASSUME NEW m \in Monitors, TimedOut(m) \/ Leave(m) \/ Changed(m) \/ NoReaders(m)
      PROVE  Types'
  <2>1. /\ UNCHANGED <<status, terms, menu, events, run, unblock>>
        /\ exit' \in BOOLEAN
        /\ \E s \in Alive \union {"none"} : monitor' = [monitor EXCEPT ![m] = s]
        /\ exiter' = exiter /\ causes' = causes
    BY <1>3 DEF TimedOut, Leave, Changed, NoReaders, Goto, Alive
  <2>2. monitor' \in [Monitors -> {"none", "starting", "begun"} \union Alive]
    BY <2>1
  <2> QED BY <2>1, <2>2
<1>4. ASSUME NEW u \in Unblockers, Enter(u) \/ Paused(u) PROVE Types'
  BY <1>4 DEF Enter, Paused, Move, Pause
<1>5. ASSUME NEW u \in Unblockers, Resume(u) PROVE Types'
  <2>1. Started(monitor) \in [Monitors -> {"none", "starting", "begun"} \union Alive]
    BY StartedSlot
  <2>2. daemon' \in [Unblockers -> Daemons]
    BY <1>5 DEF Resume, LeftBehind
  <2>3. causes' \subseteq Causes
    BY <1>5 DEF Resume
  <2> QED BY <1>5, <2>1, <2>2, <2>3 DEF Resume, Move
<1>6. ASSUME NEW u \in Unblockers, End(u) PROVE Types'
  BY <1>6 DEF End, Move
<1>7. ASSUME NEW u \in Unblockers, CreateCardSession(u) \/ Disconnect(u) PROVE Types'
  <2>1. CountedDown(u) \in {"none", "done"}
    BY DEF CountedDown
  <2>2. /\ \E s \in {"none", "connected", "done", "overrun"} : daemon' = [daemon EXCEPT ![u] = s]
        /\ \E r \in Readers \union {NoReader} :
             opened' = opened \/ opened' = [opened EXCEPT ![u] = r]
    BY <1>7, <2>1 DEF CreateCardSession, Disconnect
  <2>3. daemon' \in [Unblockers -> Daemons]
    <3>1. daemon \in [Unblockers -> Daemons]
      OBVIOUS
    <3> HIDE DEF Types
    <3> QED BY <2>2, <3>1
  <2>4. opened' \in [Unblockers -> Readers \union {NoReader}]
    <3>1. opened \in [Unblockers -> Readers \union {NoReader}]
      OBVIOUS
    <3> HIDE DEF Types
    <3> QED BY <2>2, <3>1
  <2> QED BY <1>7, <2>3, <2>4 DEF CreateCardSession, Disconnect
<1>8. ASSUME NEW r \in Readers, Click(r) PROVE Types'
  BY <1>8 DEF Click
<1>9. ASSUME NEW r \in Readers, Plug(r) PROVE Types'
  <2>1. status' \in Status
    BY <1>9 DEF Plug, Status
  <2> QED BY <1>9, <2>1 DEF Plug
<1>10. CASE Dispatch
  <2>1. Head(events) \in Event /\ Tail(events) \in Seq(Event)
    BY <1>10, HeadTailProperties DEF Dispatch
  <2>2. menu' \in Status
    BY <1>10, <2>1, UpdatedMenu DEF Dispatch
  <2> QED BY <1>10, <2>1, <2>2 DEF Dispatch
<1>11. CASE ActionPerformed
  <2> DEFINE v == CHOOSE t \in Unblockers : Idle(t)
  <2>1. /\ unblocker' \in [Unblockers -> {"none", "starting", "pausing", "unblocking", "ending"}]
        /\ asked' \in [Unblockers -> Readers \union {NoReader}]
    <3>1. \/ UNCHANGED <<unblocker, asked>>
          \/ /\ unblocker' = [unblocker EXCEPT ![v] = "starting"]
             /\ asked' = [asked EXCEPT ![v] = edt]
      BY <1>11 DEF ActionPerformed, Move
    <3> HIDE DEF v
    <3>2. unblocker' = unblocker \/ unblocker' = [unblocker EXCEPT ![v] = "starting"]
      BY <3>1
    <3>3. asked' = asked \/ asked' = [asked EXCEPT ![v] = edt]
      BY <3>1
    <3>4. edt \in Readers \union {NoReader}
      OBVIOUS
    <3>5. unblocker' \in [Unblockers -> {"none", "starting", "pausing", "unblocking", "ending"}]
      BY <3>2
    <3>6. asked' \in [Unblockers -> Readers \union {NoReader}]
      BY <3>3, <3>4
    <3> QED BY <3>5, <3>6
  <2>2. /\ currentRdr' \in Readers \union {NoReader}
        /\ causes' \subseteq Causes
    BY <1>11 DEF ActionPerformed
  <2> QED BY <1>11, <2>1, <2>2 DEF ActionPerformed
<1>12. CASE Stop
  BY <1>12 DEF Stop, Pause
<1>13. CASE Stopped \/ UNCHANGED vars
  BY <1>13 DEF Stopped, vars
<1> QED
  BY <1>1, <1>2, <1>3, <1>4, <1>5, <1>6, <1>7, <1>8, <1>9, <1>10, <1>11, <1>12, <1>13
  DEF Next, MonitorStep, UnblockStep

\* run() of the action is left by the thread that entered it.
LEMMA LockStep == Types /\ LockInv /\ [Next]_vars => LockInv'
<1> SUFFICES ASSUME Types, LockInv, [Next]_vars PROVE LockInv'
  OBVIOUS
<1>0. unblocker \in [Unblockers -> {"none", "starting", "pausing", "unblocking", "ending"}]
  BY DEF Types
<1> USE <1>0, NullAssumption DEF LockInv
<1>1. ASSUME NEW u \in Unblockers, Enter(u) PROVE LockInv'
  BY <1>1 DEF Enter, Move
<1>2. ASSUME NEW u \in Unblockers, Paused(u) PROVE LockInv'
  BY <1>2 DEF Paused, Move
<1>3. ASSUME NEW u \in Unblockers, Resume(u) PROVE LockInv'
  BY <1>3 DEF Resume, Move
<1>4. ASSUME NEW u \in Unblockers, End(u) PROVE LockInv'
  BY <1>4 DEF End, Move
<1>5. CASE ActionPerformed
  <2> DEFINE v == CHOOSE t \in Unblockers : Idle(t)
  <2>1. lock' = lock /\ lock = NoThread
    BY <1>5 DEF ActionPerformed
  <2>2. unblocker' = unblocker \/ unblocker' = [unblocker EXCEPT ![v] = "starting"]
    BY <1>5 DEF ActionPerformed, Move
  <2> HIDE DEF v
  <2> QED BY <2>1, <2>2
<1>6. CASE UNCHANGED <<unblocker, lock>>
  BY <1>6
<1>7. CASE \E m \in Monitors : MonitorStep(m) \/ Changed(m) \/ NoReaders(m)
  BY <1>6, <1>7
  DEF MonitorStep, Begin, GetStatusChange, TimedOut, Leave, Changed, NoReaders, unblock
<1>8. CASE \E u \in Unblockers : CreateCardSession(u) \/ Disconnect(u)
  BY <1>6, <1>8 DEF CreateCardSession, Disconnect
<1>9. CASE (\E r \in Readers : Click(r) \/ Plug(r)) \/ Dispatch \/ Stop \/ Stopped \/ UNCHANGED vars
  BY <1>6, <1>9 DEF Click, Plug, Dispatch, Stop, Stopped, unblock, vars
<1> QED BY <1>1, <1>2, <1>3, <1>4, <1>5, <1>7, <1>8, <1>9 DEF Next, UnblockStep

\* A daemon that is late keeps its slot, so that an unblock begins with none.
LEMMA DaemonStep == Types /\ DaemonInv /\ [Next]_vars => DaemonInv'
<1> SUFFICES ASSUME Types, DaemonInv, [Next]_vars PROVE DaemonInv'
  OBVIOUS
<1>0. /\ unblocker \in [Unblockers -> {"none", "starting", "pausing", "unblocking", "ending"}]
      /\ daemon \in [Unblockers -> Daemons]
      /\ opened \in [Unblockers -> Readers \union {NoReader}]
  BY DEF Types
<1> USE <1>0 DEF DaemonInv, Idle
<1>1. ASSUME NEW u \in Unblockers, Enter(u) PROVE DaemonInv'
  BY <1>1 DEF Enter, Move
<1>2. ASSUME NEW u \in Unblockers, Paused(u) PROVE DaemonInv'
  BY <1>2 DEF Paused, Move
<1>3. ASSUME NEW u \in Unblockers, Resume(u) PROVE DaemonInv'
  BY <1>3 DEF Resume, Move, LeftBehind
<1>4. ASSUME NEW u \in Unblockers, End(u) PROVE DaemonInv'
  BY <1>4 DEF End, Move
<1>5. CASE ActionPerformed
  <2> DEFINE v == CHOOSE t \in Unblockers : Idle(t)
  <2>1. v \in Unblockers /\ daemon[v] = "none"
    BY <1>5 DEF ActionPerformed
  <2>2. UNCHANGED <<daemon, opened>> /\ edt' = NoReader
    BY <1>5 DEF ActionPerformed
  <2>3. unblocker' = unblocker \/ unblocker' = [unblocker EXCEPT ![v] = "starting"]
    BY <1>5 DEF ActionPerformed, Move
  <2> HIDE DEF v
  <2> QED BY <2>1, <2>2, <2>3
<1>6. CASE UNCHANGED unblock
  BY <1>6 DEF unblock
<1>7. CASE \E m \in Monitors : MonitorStep(m) \/ Changed(m) \/ NoReaders(m)
  BY <1>6, <1>7
  DEF MonitorStep, Begin, GetStatusChange, TimedOut, Leave, Changed, NoReaders
<1>8. ASSUME NEW u \in Unblockers, CreateCardSession(u) \/ Disconnect(u) PROVE DaemonInv'
  <2>1. UNCHANGED <<unblocker, edt>>
    BY <1>8 DEF CreateCardSession, Disconnect
  <2>2. daemon[u] \in {"starting", "late", "connected", "overrun"}
    BY <1>8 DEF CreateCardSession, Disconnect
  <2>3. /\ \A v \in Unblockers : v # u => daemon'[v] = daemon[v] /\ opened'[v] = opened[v]
        /\ \/ daemon[u] = "starting" /\ daemon'[u] = "connected"
           \/ daemon[u] = "late" /\ daemon'[u] = "overrun"
           \/ daemon'[u] = CountedDown(u) /\ opened'[u] = NoReader
    BY <1>8, <2>2 DEF CreateCardSession, Disconnect
  <2>4. CountedDown(u) = IF unblocker[u] = "unblocking" THEN "done" ELSE "none"
    BY DEF CountedDown
  <2>5. edt # NoReader => \E v \in Unblockers : unblocker[v] = "none" /\ daemon'[v] = "none"
    BY <2>2, <2>3
  <2>6. ASSUME NEW w \in Unblockers
        PROVE  /\ unblocker[w] \in {"starting", "pausing"} => daemon'[w] = "none"
               /\ unblocker[w] = "unblocking" => daemon'[w] \notin {"late", "overrun"}
               /\ daemon'[w] \in {"starting", "connected", "done"} => unblocker[w] = "unblocking"
               /\ daemon'[w] \notin {"connected", "overrun"} => opened'[w] = NoReader
    <3>1. CASE w = u
      BY <2>2, <2>3, <2>4, <3>1
    <3>2. CASE w # u
      BY <2>3, <3>2
    <3> QED BY <3>1, <3>2
  <2> QED BY <2>1, <2>5, <2>6
<1>9. ASSUME NEW r \in Readers, Click(r) PROVE DaemonInv'
  BY <1>9 DEF Click
<1>10. CASE (\E r \in Readers : Plug(r)) \/ Dispatch \/ Stop \/ Stopped \/ UNCHANGED vars
  BY <1>6, <1>10 DEF Plug, Dispatch, Stop, Stopped, vars
<1> QED BY <1>1, <1>2, <1>3, <1>4, <1>5, <1>7, <1>8, <1>9, <1>10 DEF Next, UnblockStep

\* A monitor that is paused leaves before the thread that paused it goes on.
LEMMA MonitorInvStep == Types /\ LockInv /\ MonitorInv /\ [Next]_vars => MonitorInv'
<1> SUFFICES ASSUME Types, LockInv, MonitorInv, [Next]_vars, "beginning" \notin causes'
             PROVE  MonitorInv'
  BY DEF MonitorInv
<1>0. /\ monitor \in [Monitors -> {"none", "starting", "begun"} \union Alive]
      /\ unblocker \in [Unblockers -> {"none", "starting", "pausing", "unblocking", "ending"}]
      /\ exit \in BOOLEAN
  BY DEF Types
<1> USE <1>0 DEF MonitorInv, Alive
<1>1. ASSUME NEW m \in Monitors, Begin(m) PROVE MonitorInv'
  <2>1. UNCHANGED unblocker /\ "beginning" \notin causes
    BY <1>1 DEF Begin, unblock
  <2>2. \A u \in Unblockers : unblocker[u] \notin {"pausing", "unblocking"}
    BY <1>1, <2>1 DEF Begin, Goto
  <2>3. CASE monitor' = [monitor EXCEPT ![m] = "begun"] /\ monitor[m] = "starting"
             /\ UNCHANGED exit
    BY <2>1, <2>2, <2>3
  <2>4. CASE monitor[m] = "begun" /\ exit' = FALSE
             /\ \E s \in {"listing", "leaving"} : monitor' = [monitor EXCEPT ![m] = s]
    BY <2>1, <2>2, <2>4
  <2> QED BY <1>1, <2>3, <2>4 DEF Begin, Goto
<1>2. ASSUME NEW m \in Monitors, GetStatusChange(m) PROVE MonitorInv'
  <2>1. "beginning" \notin causes
    BY <1>2 DEF GetStatusChange
  <2>2. UNCHANGED <<exit, unblocker>> /\ monitor[m] = "listing"
        /\ \E s \in {"waiting", "leaving"} : monitor' = [monitor EXCEPT ![m] = s]
    BY <1>2 DEF GetStatusChange, Goto, unblock
  <2> QED BY <2>1, <2>2
<1>3. ASSUME NEW m \in Monitors, TimedOut(m) \/ Changed(m) \/ NoReaders(m) PROVE MonitorInv'
  <2>1. UNCHANGED <<exit, unblocker, causes>>
    BY <1>3 DEF TimedOut, Changed, NoReaders, unblock
  <2>2. /\ monitor[m] \in {"waiting", "sleeping"}
        /\ \E s \in Alive : monitor' = [monitor EXCEPT ![m] = s]
    BY <1>3 DEF TimedOut, Changed, NoReaders, Goto
  <2> QED BY <2>1, <2>2
<1>4. ASSUME NEW m \in Monitors, Leave(m) PROVE MonitorInv'
  BY <1>4 DEF Leave, Goto, unblock
<1>5. ASSUME NEW u \in Unblockers, Enter(u) PROVE MonitorInv'
  <2>1. "beginning" \notin causes /\ \A m \in Monitors : monitor[m] \in Alive \union {"none"}
    BY <1>5 DEF Enter, Pause
  <2>2. UNCHANGED <<exit, monitor>> /\ unblocker' = [unblocker EXCEPT ![u] = "pausing"]
    BY <1>5 DEF Enter, Move
  <2> QED BY <2>1, <2>2
<1>6. ASSUME NEW u \in Unblockers, Paused(u) PROVE MonitorInv'
  BY <1>6 DEF Paused, Move
<1>7. ASSUME NEW u \in Unblockers, Resume(u) PROVE MonitorInv'
  <2>1. "beginning" \notin causes /\ \A m \in Monitors : monitor[m] = "none"
    BY <1>7 DEF Resume, Move
  <2>2. \A v \in Unblockers : unblocker'[v] \notin {"pausing", "unblocking"}
    BY <1>7 DEF Resume, Move, LockInv
  <2>3. \E m \in Monitors : monitor' = [monitor EXCEPT ![m] = "starting"]
    <3> DEFINE X == {"none", "starting", "begun"} \union Alive
    <3>1. monitor' = Started(monitor) /\ \E m \in Monitors : monitor[m] = "none"
      BY <1>7 DEF Resume
    <3>2. monitor \in [Monitors -> X] /\ "starting" \in X
      OBVIOUS
    <3> HIDE DEF X, MonitorInv
    <3> QED BY <3>1, <3>2, StartedSlot
  <2>4. UNCHANGED exit
    BY <1>7 DEF Resume
  <2>5. PICK m \in Monitors : monitor' = [monitor EXCEPT ![m] = "starting"]
    BY <2>3
  <2>6. \A n \in Monitors : monitor'[n] = IF n = m THEN "starting" ELSE "none"
    BY <2>1, <2>5
  <2> QED BY <2>2, <2>6
<1>8. ASSUME NEW u \in Unblockers, End(u) PROVE MonitorInv'
  BY <1>8 DEF End, Move
<1>9. CASE ActionPerformed
  <2> DEFINE v == CHOOSE t \in Unblockers : Idle(t)
  <2>1. UNCHANGED <<exit, monitor>> /\ "beginning" \notin causes
    BY <1>9 DEF ActionPerformed
  <2>2. unblocker' = unblocker \/ unblocker' = [unblocker EXCEPT ![v] = "starting"]
    BY <1>9 DEF ActionPerformed, Move
  <2> HIDE DEF v
  <2> QED BY <2>1, <2>2
<1>10. CASE UNCHANGED <<exit, monitor, unblocker>> /\ "beginning" \notin causes
  BY <1>10
<1>11. CASE \E u \in Unblockers : CreateCardSession(u) \/ Disconnect(u)
  BY <1>10, <1>11 DEF CreateCardSession, Disconnect
<1>12. CASE (\E r \in Readers : Click(r) \/ Plug(r)) \/ Dispatch \/ Stopped \/ UNCHANGED vars
  BY <1>10, <1>12 DEF Click, Plug, Dispatch, Stopped, unblock, vars
<1>13. CASE Stop
  BY <1>10, <1>13 DEF Stop, Pause, unblock
<1> QED
  BY <1>1, <1>2, <1>3, <1>4, <1>5, <1>6, <1>7, <1>8, <1>9, <1>11, <1>12, <1>13
  DEF Next, MonitorStep, UnblockStep

\* The reader that was clicked last is that of the only unblock.
LEMMA ReaderStep == Types /\ ReaderInv /\ [Next]_vars => ReaderInv'
<1> SUFFICES ASSUME Types, ReaderInv, [Next]_vars, "second click" \notin causes'
             PROVE  ReaderInv'
  BY DEF ReaderInv
<1>0. /\ unblocker \in [Unblockers -> {"none", "starting", "pausing", "unblocking", "ending"}]
      /\ asked \in [Unblockers -> Readers \union {NoReader}]
  BY DEF Types
<1> USE <1>0 DEF ReaderInv
<1>1. ASSUME NEW u \in Unblockers, Enter(u) PROVE ReaderInv'
  <2>1. "second click" \notin causes
    BY <1>1 DEF Enter, Pause
  <2> QED BY <1>1, <2>1 DEF Enter, Move
<1>2. ASSUME NEW u \in Unblockers, Paused(u) PROVE ReaderInv'
  BY <1>2 DEF Paused, Move
<1>3. ASSUME NEW u \in Unblockers, Resume(u) PROVE ReaderInv'
  <2>1. "second click" \notin causes
    BY <1>3 DEF Resume
  <2> QED BY <1>3, <2>1 DEF Resume, Move
<1>4. ASSUME NEW u \in Unblockers, End(u) PROVE ReaderInv'
  BY <1>4 DEF End, Move
<1>5. CASE ActionPerformed
  <2> DEFINE v == CHOOSE t \in Unblockers : Idle(t)
  <2>1. CASE UNCHANGED <<unblocker, currentRdr, asked, causes>>
    BY <2>1
  <2>2. CASE ~UNCHANGED <<unblocker, currentRdr, asked, causes>>
    <3>1. currentRdr = NoReader /\ "second click" \notin causes
      BY <1>5, <2>2 DEF ActionPerformed
    <3>2. /\ unblocker' = [unblocker EXCEPT ![v] = "starting"]
          /\ asked' = [asked EXCEPT ![v] = edt]
          /\ currentRdr' = edt /\ edt # NoReader
      BY <1>5, <2>2 DEF ActionPerformed, Move
    <3>3. \A t \in Unblockers : unblocker[t] = "none"
      BY <3>1
    <3> HIDE DEF v
    <3> QED BY <3>1, <3>2, <3>3
  <2> QED BY <2>1, <2>2
<1>6. CASE UNCHANGED <<unblocker, currentRdr, asked>> /\ "second click" \notin causes
  BY <1>6
<1>7. CASE \E m \in Monitors : MonitorStep(m) \/ Changed(m) \/ NoReaders(m)
  BY <1>6, <1>7
  DEF MonitorStep, Begin, GetStatusChange, TimedOut, Leave, Changed, NoReaders, unblock
<1>8. CASE \E u \in Unblockers : CreateCardSession(u) \/ Disconnect(u)
  BY <1>6, <1>8 DEF CreateCardSession, Disconnect
<1>9. CASE (\E r \in Readers : Click(r) \/ Plug(r)) \/ Dispatch \/ Stopped \/ UNCHANGED vars
  BY <1>6, <1>9 DEF Click, Plug, Dispatch, Stopped, unblock, vars
<1>10. CASE Stop
  BY <1>6, <1>10 DEF Stop, Pause, unblock
<1> QED BY <1>1, <1>2, <1>3, <1>4, <1>5, <1>7, <1>8, <1>9, <1>10 DEF Next, UnblockStep

\* A card is opened in the reader of the only unblock, or after that has ended.
LEMMA SessionStep ==
  Types /\ DaemonInv /\ ReaderInv /\ SessionInv /\ [Next]_vars => SessionInv'
<1> SUFFICES ASSUME Types, DaemonInv, ReaderInv, SessionInv, [Next]_vars,
                    "second click" \notin causes'
             PROVE  SessionInv'
  BY DEF SessionInv
<1>0. /\ opened \in [Unblockers -> Readers \union {NoReader}]
      /\ asked \in [Unblockers -> Readers \union {NoReader}]
  BY DEF Types
<1> USE <1>0 DEF SessionInv
<1>1. CASE UNCHANGED <<opened, asked>> /\ "second click" \notin causes
  BY <1>1
<1>2. ASSUME NEW u \in Unblockers, Enter(u) \/ Paused(u) \/ Resume(u) PROVE SessionInv'
  BY <1>1, <1>2 DEF Enter, Paused, Resume, Pause
<1>3. ASSUME NEW u \in Unblockers, End(u) PROVE SessionInv'
  BY <1>3 DEF End
<1>4. CASE ActionPerformed
  <2> DEFINE v == CHOOSE t \in Unblockers : Idle(t)
  <2>1. v \in Unblockers /\ opened[v] = NoReader
    BY <1>4 DEF ActionPerformed, DaemonInv, Idle
  <2>2. "second click" \notin causes /\ UNCHANGED opened
    BY <1>4 DEF ActionPerformed
  <2>3. asked' = asked \/ asked' = [asked EXCEPT ![v] = edt]
    BY <1>4 DEF ActionPerformed
  <2> HIDE DEF v
  <2> QED BY <2>1, <2>2, <2>3
<1>5. CASE \E m \in Monitors : MonitorStep(m) \/ Changed(m) \/ NoReaders(m)
  BY <1>1, <1>5
  DEF MonitorStep, Begin, GetStatusChange, TimedOut, Leave, Changed, NoReaders, unblock
<1>6. ASSUME NEW u \in Unblockers, CreateCardSession(u) PROVE SessionInv'
  <2>1. "second click" \notin causes /\ UNCHANGED asked
    BY <1>6 DEF CreateCardSession
  <2>2. asked[u] \in {currentRdr, NoReader}
    BY <2>1 DEF ReaderInv
  <2>3. opened' = opened \/ opened' = [opened EXCEPT ![u] = currentRdr]
    BY <1>6 DEF CreateCardSession
  <2> QED BY <2>1, <2>2, <2>3
<1>7. ASSUME NEW u \in Unblockers, Disconnect(u) PROVE SessionInv'
  BY <1>7 DEF Disconnect
<1>8. CASE (\E r \in Readers : Click(r) \/ Plug(r)) \/ Dispatch \/ Stopped \/ UNCHANGED vars
  BY <1>1, <1>8 DEF Click, Plug, Dispatch, Stopped, unblock, vars
<1>9. CASE Stop
  BY <1>1, <1>9 DEF Stop, Pause, unblock
<1> QED
  BY <1>2, <1>3, <1>4, <1>5, <1>6, <1>7, <1>8, <1>9 DEF Next, UnblockStep

\* The events that wait make the menu what was reported last.
LEMMA InitMenuTrue == Init => MenuTrue
<1> SUFFICES ASSUME Init PROVE FoldLeft(Updated, menu, events) = terms
  BY DEF MenuTrue
<1>1. menu \in Status /\ events \in Seq(Event) /\ Len(events) = 0 /\ menu = terms
  BY DEF Init, Absent, Status
<1>2. PICK h : Menus(h, menu, events) /\ FoldLeft(Updated, menu, events) = h[Len(events)]
  BY <1>1, FoldIsRecursive
<1> QED BY <1>1, <1>2 DEF Menus

LEMMA MenuTrueStep == Types /\ MenuTrue /\ [Next]_vars => MenuTrue'
<1> SUFFICES ASSUME Types, MenuTrue, [Next]_vars, "silent" \notin causes'
             PROVE  FoldLeft(Updated, menu', events') = terms'
  BY DEF MenuTrue
<1>0. /\ status \in Status /\ terms \in Status /\ menu \in Status
      /\ events \in Seq(Event)
  BY DEF Types
<1>1. CASE Dispatch
  <2>1. FoldLeft(Updated, menu, events) = terms
    BY <1>1 DEF Dispatch, MenuTrue
  <2>2. /\ events # <<>> /\ menu' = Updated(menu, Head(events)) /\ events' = Tail(events)
        /\ terms' = terms
    BY <1>1 DEF Dispatch
  <2>3. FoldLeft(Updated, Updated(menu, Head(events)), Tail(events)) = terms
    BY <1>0, <2>1, <2>2, FoldTail
  <2> QED BY <2>2, <2>3
<1>2. ASSUME NEW m \in Monitors, GetStatusChange(m)
      PROVE  FoldLeft(Updated, menu', events') = terms'
  <2>1. "silent" \notin causes /\ menu' = menu
    BY <1>2 DEF GetStatusChange
  <2>2. FoldLeft(Updated, menu, events) = terms
    BY <2>1 DEF MenuTrue
  <2>3. CASE \E new \in Status : terms' = new /\ events' = events \o Reported(new)
    <3>1. PICK new \in Status : terms' = new /\ events' = events \o Reported(new)
      BY <2>3
    <3>2. FoldLeft(Updated, menu, events \o Reported(new)) = new
      BY <1>0, <2>2, FoldReported
    <3> QED BY <2>1, <3>1, <3>2
  <2>4. CASE /\ terms' = Absent
             /\ events' = Append(events, [kind |-> "readerRemoved", reader |-> NoReader])
    <3> DEFINE e == [kind |-> "readerRemoved", reader |-> NoReader]
    <3>1. e \in Event
      BY DEF Event, EventKinds
    <3>2. FoldLeft(Updated, menu, Append(events, e)) = Updated(terms, e)
      <4> HIDE DEF e
      <4> QED BY <1>0, <2>2, <3>1, FoldAppend
    <3>3. Updated(terms, e) = Absent
      BY DEF Updated
    <3> QED BY <2>1, <2>4, <3>2, <3>3
  <2>5. \A r \in Readers : [status EXCEPT ![r] = "empty"] \in Status
    BY <1>0 DEF Status
  <2> QED BY <1>0, <1>2, <2>3, <2>4, <2>5 DEF GetStatusChange
<1>3. CASE UNCHANGED <<menu, events, terms>> /\ "silent" \notin causes
  BY <1>3 DEF MenuTrue
<1>4. CASE \E m \in Monitors :
             Begin(m) \/ TimedOut(m) \/ Leave(m) \/ Changed(m) \/ NoReaders(m)
  BY <1>3, <1>4 DEF Begin, TimedOut, Leave, Changed, NoReaders, readers
<1>5. CASE \E u \in Unblockers : UnblockStep(u) \/ CreateCardSession(u) \/ Disconnect(u)
  BY <1>3, <1>5
  DEF UnblockStep, Enter, Paused, Resume, End, CreateCardSession, Disconnect, Pause, readers
<1>6. CASE \/ \E r \in Readers : Click(r) \/ Plug(r)
           \/ ActionPerformed \/ Stop \/ Stopped \/ UNCHANGED vars
  BY <1>3, <1>6 DEF Click, Plug, ActionPerformed, Stop, Stopped, Pause, readers, vars
<1> QED BY <1>1, <1>2, <1>4, <1>5, <1>6 DEF Next, MonitorStep

-----------------------------------------------------------------------------
LEMMA NextIInv == IInv /\ [Next]_vars => IInv'
  BY TypesStep, LockStep, DaemonStep, MonitorInvStep, ReaderStep, SessionStep
     DEF IInv

LEMMA Invariance == Spec => []IInv
  BY InitIInv, NextIInv, PTL DEF Spec

\* Every variable keeps its type, and the lock of the action is taken as long as a thread
\* is in run(), for any readers and any number of threads (CardUnblockAction.java:42-85).
THEOREM TypeCorrect == Spec => []TypeOK
<1>1. IInv => TypeOK
  <2> SUFFICES ASSUME IInv PROVE TypeOK
    OBVIOUS
  <2>1. \A i \in DOMAIN events : events[i].kind \in EventKinds
    <3>1. events \in Seq(Event)
      BY DEF IInv, Types
    <3>2. \A i \in DOMAIN events : events[i] \in Event
      BY <3>1
    <3> QED BY <3>2 DEF Event
  <2>2. lock # NoThread <=> \E u \in Unblockers : unblocker[u] \in {"pausing", "unblocking"}
    BY NullAssumption DEF IInv, Types, LockInv
  <2> QED BY <2>1, <2>2 DEF IInv, Types, TypeOK, Alive, EventKinds, Causes, Daemons
<1> QED BY <1>1, Invariance, PTL

\* No thread watches the readers while run() waits for a card, nor while a daemon it has
\* not given up is connected to one; and until the unblock has ended that card is in the
\* reader whose item was clicked; but for the races that "causes" names, for any readers
\* and any number of threads and events
\* (CardUnblockAction.java:42-126, CardReaderMonitor.java:44-49).
THEOREM UnblockAloneHolds == Spec => []UnblockAlone
<1>1. IInv => UnblockAlone
  <2> SUFFICES ASSUME IInv, NEW u \in Unblockers,
                      unblocker[u] = "unblocking" \/ daemon[u] = "connected",
                      "beginning" \notin causes, NEW m \in Monitors
               PROVE  monitor[m] = "none"
    BY DEF IInv, SessionInv, UnblockAlone
  <2>1. unblocker[u] = "unblocking"
    BY DEF IInv, DaemonInv
  <2> QED BY <2>1 DEF IInv, MonitorInv
<1> QED BY <1>1, Invariance, PTL

\* The menu becomes what the monitor saw last, whatever the number of events that wait,
\* unless a list failed while the monitor was being paused
\* (CardReaderMonitorImpl.java:164-227, CardReaderMenuUpdator.java:41-102).
THEOREM MenuTrueHolds == Spec => []MenuTrue
<1>1. IInv /\ MenuTrue /\ [Next]_vars => MenuTrue'
  BY MenuTrueStep DEF IInv
<1> QED BY <1>1, InitMenuTrue, Invariance, PTL DEF Spec

-----------------------------------------------------------------------------
(* pause() is answered *)

\* Nobody starts a monitor that has not been waited for: an end that nobody watched is
\* still announced, and a thread that waits for one has switched the monitor off.
PauseInv ==
  /\ "beginning" \notin causes =>
       /\ (\A m \in Monitors : monitor[m] = "none") => exit
       /\ \A u \in Unblockers : unblocker[u] = "pausing" => ~run
  /\ causes \intersect {"beginning", "exiting"} = {} /\ exiter = "pausing" =>
       ~run /\ \A m \in Monitors : monitor[m] \in Alive \union {"none"}

LEMMA InitPauseInv == Monitors # {} /\ Init => PauseInv
<1> SUFFICES ASSUME Monitors # {}, Init PROVE PauseInv
  OBVIOUS
<1> DEFINE f == [m \in Monitors |-> "none"]
           X == {"none", "starting"}
<1>1. f \in [Monitors -> X] /\ "starting" \in X /\ (\E m \in Monitors : f[m] = "none")
  OBVIOUS
<1>2. monitor = Started(f)
  BY DEF Init
<1> HIDE DEF f, X
<1>3. \E m \in Monitors : f[m] = "none" /\ Started(f) = [f EXCEPT ![m] = "starting"]
  BY <1>1, StartedSlot
<1>4. PICK m \in Monitors : monitor = [f EXCEPT ![m] = "starting"]
  BY <1>2, <1>3
<1>5. monitor[m] # "none"
  BY <1>1, <1>4
<1>6. exiter = "none" /\ \A u \in Unblockers : unblocker[u] = "none"
  BY DEF Init
<1> QED BY <1>5, <1>6 DEF PauseInv

LEMMA PauseStep == Types /\ LockInv /\ MonitorInv /\ PauseInv /\ [Next]_vars => PauseInv'
<1> SUFFICES ASSUME Types, LockInv, MonitorInv, PauseInv, [Next]_vars PROVE PauseInv'
  OBVIOUS
<1>0. /\ monitor \in [Monitors -> {"none", "starting", "begun"} \union Alive]
      /\ unblocker \in [Unblockers -> {"none", "starting", "pausing", "unblocking", "ending"}]
      /\ exit \in BOOLEAN
      /\ run \in BOOLEAN
  BY DEF Types
<1> USE <1>0 DEF PauseInv, Alive
<1>1. ASSUME NEW m \in Monitors, Begin(m) PROVE PauseInv'
  <2>1. UNCHANGED <<unblocker, exiter, causes>> /\ monitor[m] \in {"starting", "begun"}
    BY <1>1 DEF Begin, unblock, Goto
  <2>2. "beginning" \notin causes => \A u \in Unblockers : unblocker[u] # "pausing"
    BY <2>1 DEF MonitorInv
  <2>3. ~(causes \intersect {"beginning", "exiting"} = {} /\ exiter = "pausing")
    BY <2>1
  <2>4. \E s \in {"begun", "listing", "leaving"} : monitor' = [monitor EXCEPT ![m] = s]
    BY <1>1 DEF Begin, Goto
  <2>5. monitor'[m] # "none"
    BY <2>4
  <2> QED BY <2>1, <2>2, <2>3, <2>5
<1>2. ASSUME NEW m \in Monitors,
             GetStatusChange(m) \/ TimedOut(m) \/ Changed(m) \/ NoReaders(m)
      PROVE  PauseInv'
  <2>1. /\ UNCHANGED <<unblocker, exiter, exit, run>>
        /\ causes' = causes \/ causes' = causes \union {"silent"}
    BY <1>2 DEF GetStatusChange, TimedOut, Changed, NoReaders, unblock
  <2>2. \E s \in Alive : monitor' = [monitor EXCEPT ![m] = s]
    BY <1>2 DEF GetStatusChange, TimedOut, Changed, NoReaders, Goto
  <2>3. /\ monitor'[m] # "none"
        /\ \A n \in Monitors : monitor'[n] = monitor[n] \/ monitor'[n] \in Alive
    BY <2>2
  <2> QED BY <2>1, <2>3
<1>3. ASSUME NEW m \in Monitors, Leave(m) PROVE PauseInv'
  <2>1. UNCHANGED <<unblocker, exiter, run, causes>> /\ exit'
    BY <1>3 DEF Leave, unblock
  <2>2. monitor' = [monitor EXCEPT ![m] = "none"]
    BY <1>3 DEF Leave, Goto
  <2> QED BY <2>1, <2>2
<1>4. ASSUME NEW u \in Unblockers, Enter(u) PROVE PauseInv'
  <2>1. /\ ~run' /\ UNCHANGED <<exit, monitor, exiter>>
        /\ causes' = causes \/ causes' = causes \union {"beginning"}
    BY <1>4 DEF Enter, Pause
  <2> QED BY <2>1
<1>5. ASSUME NEW u \in Unblockers, Paused(u) \/ End(u) PROVE PauseInv'
  <2>1. UNCHANGED <<exit, monitor, exiter, run, causes>>
    BY <1>5 DEF Paused, End
  <2>2. \E s \in {"unblocking", "none"} : unblocker' = [unblocker EXCEPT ![u] = s]
    BY <1>5 DEF Paused, End, Move
  <2> QED BY <2>1, <2>2
<1>6. ASSUME NEW u \in Unblockers, Resume(u) PROVE PauseInv'
  <2>1. UNCHANGED <<exit, exiter, run>>
    BY <1>6 DEF Resume
  <2>2. causes \subseteq causes' /\ (exiter = "pausing" => "exiting" \in causes')
    BY <1>6 DEF Resume
  <2>3. unblocker' = [unblocker EXCEPT ![u] = "ending"]
    BY <1>6 DEF Resume, Move
  <2>4. \E m \in Monitors : monitor' = [monitor EXCEPT ![m] = "starting"]
    <3> DEFINE X == {"none", "starting", "begun"} \union Alive
    <3>1. monitor' = Started(monitor) /\ \E m \in Monitors : monitor[m] = "none"
      BY <1>6 DEF Resume
    <3>2. monitor \in [Monitors -> X] /\ "starting" \in X
      OBVIOUS
    <3> HIDE DEF X, PauseInv
    <3> QED BY <3>1, <3>2, StartedSlot
  <2>5. \E m \in Monitors : monitor'[m] # "none"
    BY <2>4
  <2> QED BY <2>1, <2>2, <2>3, <2>5
<1>7. CASE ActionPerformed
  <2> DEFINE v == CHOOSE t \in Unblockers : Idle(t)
  <2>1. UNCHANGED <<exit, monitor, exiter, run>> /\ causes \subseteq causes'
    BY <1>7 DEF ActionPerformed
  <2>2. unblocker' = unblocker \/ unblocker' = [unblocker EXCEPT ![v] = "starting"]
    BY <1>7 DEF ActionPerformed, Move
  <2> HIDE DEF v
  <2> QED BY <2>1, <2>2
<1>8. CASE UNCHANGED <<exit, monitor, unblocker, exiter, run, causes>>
  BY <1>8
<1>9. CASE \E u \in Unblockers : CreateCardSession(u) \/ Disconnect(u)
  BY <1>8, <1>9 DEF CreateCardSession, Disconnect
<1>10. CASE (\E r \in Readers : Click(r) \/ Plug(r)) \/ Dispatch \/ UNCHANGED vars
  BY <1>8, <1>10 DEF Click, Plug, Dispatch, unblock, vars
<1>11. CASE Stop
  <2>1. UNCHANGED <<exit, monitor, unblocker>> /\ ~run' /\ exiter' = "pausing"
    BY <1>11 DEF Stop, Pause, unblock
  <2>2. /\ causes \subseteq causes'
        /\ "beginning" \notin causes' =>
             \A m \in Monitors : monitor[m] \notin {"starting", "begun"}
    BY <1>11 DEF Stop, Pause
  <2> QED BY <2>1, <2>2
<1>12. CASE Stopped
  BY <1>12 DEF Stopped, unblock
<1> QED
  BY <1>1, <1>2, <1>3, <1>4, <1>5, <1>6, <1>7, <1>9, <1>10, <1>11, <1>12
  DEF Next, MonitorStep, UnblockStep

\* pause() has what it waits for, or a thread of the monitor that has been switched off
\* and is still to announce that it leaves.
ToBeAnswered == exit \/ (~run /\ \E m \in Monitors : monitor[m] \in Alive)

PausesAnswered ==
  /\ \A u \in Unblockers : unblocker[u] = "pausing" /\ "beginning" \notin causes => ToBeAnswered
  /\ exiter = "pausing" /\ causes \intersect {"beginning", "exiting"} = {} => ToBeAnswered

\* No pause() waits for an announcement that nobody is left to make, unless the monitor
\* was paused before its thread had begun, or resumed while the tool exits: the safety
\* that UnblockEnds rests on, for any readers and threads
\* (CardReaderMonitorImpl.java:53-66, 164-198).
THEOREM PausesAreAnswered ==
  ASSUME Monitors # {}
  PROVE  Spec => []PausesAnswered
<1>1. Init => PauseInv
  BY InitPauseInv
<1>2. IInv /\ PauseInv /\ [Next]_vars => PauseInv'
  BY PauseStep DEF IInv
<1>3. IInv /\ PauseInv => PausesAnswered
  <2> SUFFICES ASSUME IInv, PauseInv PROVE PausesAnswered
    OBVIOUS
  <2>1. ASSUME NEW u \in Unblockers, unblocker[u] = "pausing", "beginning" \notin causes
        PROVE  ToBeAnswered
    <3>1. \A m \in Monitors : monitor[m] \in Alive \union {"none"}
      BY <2>1 DEF IInv, MonitorInv
    <3>2. ~run /\ ((\A m \in Monitors : monitor[m] = "none") => exit)
      BY <2>1 DEF PauseInv
    <3> QED BY <3>1, <3>2 DEF ToBeAnswered
  <2>2. ASSUME exiter = "pausing", causes \intersect {"beginning", "exiting"} = {}
        PROVE  ToBeAnswered
    <3>1. ~run /\ \A m \in Monitors : monitor[m] \in Alive \union {"none"}
      BY <2>2 DEF PauseInv
    <3>2. (\A m \in Monitors : monitor[m] = "none") => exit
      BY <2>2 DEF PauseInv
    <3> QED BY <3>1, <3>2 DEF ToBeAnswered
  <2> QED BY <2>1, <2>2 DEF PausesAnswered
<1> QED BY <1>1, <1>2, <1>3, Invariance, PTL DEF Spec
===============================================================================
