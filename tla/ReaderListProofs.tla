--------------------------- MODULE ReaderListProofs ---------------------------
(***************************************************************************)
(* Proofs about the lists of readers and the status calls, for any         *)
(* threads, readers, names and lengths: a list fits its buffer and is in   *)
(* its order, and a status call reports what the PC/SC library answered.   *)
(* The lists and lookups of the soft readers are single steps because they *)
(* run under a CMutex; the last part proves what that mutex promises.      *)
(***************************************************************************)
EXTENDS ReaderList, RecursiveMutex, FiniteSetTheorems, SequenceTheorems, TLAPS

-----------------------------------------------------------------------------
(* Recursion on finite sets: a smallest counterexample takes the place of induction *)

\* A set of finite sets has one that contains no other of them.
LEMMA SmallestSet ==
  ASSUME NEW S, IsFiniteSet(S), NEW F \in SUBSET SUBSET S, F # {}
  PROVE  \E T \in F : \A U \in F : U \subseteq T => U = T
<1>1. IsWellFoundedOn(StrictSubsetOrdering(S), SUBSET S)
  BY FS_StrictSubsetOrderingWellFounded, FS_FiniteSubsetsOfFinite, Zenon
<1>2. PICK T \in F : \A U \in F : <<U, T>> \notin StrictSubsetOrdering(S)
  BY <1>1, WFMin, Zenon
<1>3. ASSUME NEW U \in F, U \subseteq T PROVE U = T
  BY <1>2, <1>3 DEF StrictSubsetOrdering
<1> QED BY <1>3

\* g is defined on the subsets of T by recursion: one element is taken away after the other.
Recursive(g, T, base, pick, step) ==
  \A s \in SUBSET T :
    g[s] = IF s = {} THEN base ELSE step[<<pick[s], g[s \ {pick[s]}]>>]

Picks(pick, S) == pick \in [(SUBSET S) \ {{}} -> S] /\ \A s \in (SUBSET S) \ {{}} : pick[s] \in s

LEMMA RecursionIsUnique ==
  ASSUME NEW S, IsFiniteSet(S), NEW base, NEW pick, NEW step, Picks(pick, S),
         NEW T1 \in SUBSET S, NEW T2 \in SUBSET S, NEW g1, NEW g2,
         Recursive(g1, T1, base, pick, step), Recursive(g2, T2, base, pick, step),
         NEW s \in SUBSET (T1 \intersect T2)
  PROVE  g1[s] = g2[s]
<1> DEFINE F == {u \in SUBSET (T1 \intersect T2) : g1[u] # g2[u]}
<1>1. SUFFICES ASSUME F # {} PROVE FALSE
  OBVIOUS
<1>2. PICK u \in F : \A v \in F : v \subseteq u => v = u
  <2>1. F \in SUBSET SUBSET S
    OBVIOUS
  <2> HIDE DEF F
  <2> QED BY <1>1, <2>1, SmallestSet
<1>3. u # {} /\ u \in SUBSET T1 /\ u \in SUBSET T2
  BY DEF Recursive
<1>4. pick[u] \in u
  BY <1>3 DEF Picks
<1>5. u \ {pick[u]} \notin F
  BY <1>2, <1>4
<1>6. g1[u \ {pick[u]}] = g2[u \ {pick[u]}]
  BY <1>5
<1> QED BY <1>3, <1>6 DEF Recursive

LEMMA FiniteRecursion ==
  ASSUME NEW S, IsFiniteSet(S), NEW V, NEW base \in V, NEW pick, Picks(pick, S),
         NEW step \in [S \X V -> V]
  PROVE  \E g \in [SUBSET S -> V] : Recursive(g, S, base, pick, step)
<1> DEFINE Solved(T) == \E g \in [SUBSET T -> V] : Recursive(g, T, base, pick, step)
           F == {T \in SUBSET S : ~Solved(T)}
<1>1. SUFFICES ASSUME F # {} PROVE FALSE
  OBVIOUS
<1>2. PICK T \in F : \A U \in F : U \subseteq T => U = T
  <2>1. F \in SUBSET SUBSET S
    OBVIOUS
  <2> HIDE DEF F
  <2> QED BY <1>1, <2>1, SmallestSet
<1>3. \A x \in T : Solved(T \ {x})
  <2> TAKE x \in T
  <2>1. T \ {x} \in SUBSET S /\ T \ {x} \subseteq T /\ T \ {x} # T
    OBVIOUS
  <2>2. T \ {x} \notin F
    <3> HIDE DEF F
    <3> QED BY <1>2, <2>1
  <2> HIDE DEF Solved
  <2> QED BY <2>1, <2>2
<1> DEFINE G == [x \in T |-> CHOOSE g \in [SUBSET (T \ {x}) -> V] :
                                 Recursive(g, T \ {x}, base, pick, step)]
           val(s) == G[CHOOSE x \in T : x \notin s][s]
           last == IF T = {} THEN base ELSE step[<<pick[T], val(T \ {pick[T]})>>]
           g == [s \in SUBSET T |-> IF s = T THEN last ELSE val(s)]
<1>4. \A x \in T : /\ G[x] \in [SUBSET (T \ {x}) -> V]
                   /\ Recursive(G[x], T \ {x}, base, pick, step)
  BY <1>3
<1>5. ASSUME NEW x \in T, NEW s \in SUBSET (T \ {x})
      PROVE  val(s) = G[x][s] /\ val(s) \in V
  <2>1. PICK y \in T : y = (CHOOSE z \in T : z \notin s) /\ y \notin s
    OBVIOUS
  <2>2. val(s) = G[y][s] /\ s \in SUBSET ((T \ {x}) \intersect (T \ {y}))
    BY <2>1
  <2>3. T \ {x} \in SUBSET S /\ T \ {y} \in SUBSET S
    OBVIOUS
  <2> HIDE DEF G, val
  <2>4. G[y][s] = G[x][s]
    <3>1. /\ Recursive(G[x], T \ {x}, base, pick, step)
          /\ Recursive(G[y], T \ {y}, base, pick, step)
      BY <1>4
    <3>2. PICK T1 \in SUBSET S, T2 \in SUBSET S : T1 = T \ {y} /\ T2 = T \ {x}
      BY <2>3
    <3>3. PICK g1, g2 : g1 = G[y] /\ g2 = G[x]
      OBVIOUS
    <3>4. g1[s] = g2[s]
      <4>1. Recursive(g1, T1, base, pick, step) /\ Recursive(g2, T2, base, pick, step)
        BY <3>1, <3>2, <3>3
      <4>2. s \in SUBSET (T1 \intersect T2)
        BY <2>2, <3>2
      <4>3. IsFiniteSet(S) /\ Picks(pick, S)
        OBVIOUS
      <4> QED BY <4>1, <4>2, <4>3, RecursionIsUnique
    <3> QED BY <3>3, <3>4
  <2>5. G[x][s] \in V
    BY <1>4
  <2> QED BY <2>2, <2>4, <2>5
<1> HIDE DEF G, val
<1>6. T # {} => pick[T] \in T /\ val(T \ {pick[T]}) \in V
  BY <1>5 DEF Picks
<1>7. last \in V
  BY <1>6
<1>8. g \in [SUBSET T -> V]
  <2>1. ASSUME NEW s \in SUBSET T, s # T PROVE val(s) \in V
    <3>1. PICK x \in T : x \notin s
      BY <2>1
    <3> QED BY <1>5, <3>1
  <2> HIDE DEF last
  <2> QED BY <1>7, <2>1
<1>9. Recursive(g, T, base, pick, step)
  <2>1. SUFFICES ASSUME NEW s \in SUBSET T
                 PROVE  g[s] = IF s = {} THEN base ELSE step[<<pick[s], g[s \ {pick[s]}]>>]
    BY DEF Recursive
  <2>2. CASE s = T
    <3>1. CASE T = {}
      BY <2>2, <3>1
    <3>2. CASE T # {}
      <4>1. pick[T] \in T /\ T \ {pick[T]} # T
        BY <1>6, <3>2
      <4>2. g[T \ {pick[T]}] = val(T \ {pick[T]})
        BY <4>1
      <4> QED BY <2>2, <3>2, <4>2
    <3> QED BY <3>1, <3>2
  <2>3. CASE s # T
    <3>1. PICK x \in T : x \notin s
      BY <2>3
    <3>2. g[s] = G[x][s]
      BY <1>5, <2>3, <3>1
    <3>3. CASE s = {}
      BY <1>4, <3>1, <3>2, <3>3 DEF Recursive
    <3>4. CASE s # {}
      <4>1. pick[s] \in s
        BY <3>4 DEF Picks
      <4>2. s \ {pick[s]} \in SUBSET (T \ {x}) /\ s \ {pick[s]} # T
        BY <3>1
      <4>3. g[s \ {pick[s]}] = G[x][s \ {pick[s]}]
        BY <1>5, <4>2
      <4>4. G[x][s] = step[<<pick[s], G[x][s \ {pick[s]}]>>]
        <5>1. Recursive(G[x], T \ {x}, base, pick, step) /\ s \in SUBSET (T \ {x})
          BY <1>4, <3>1
        <5> QED BY <3>4, <5>1 DEF Recursive
      <4> QED BY <3>2, <3>4, <4>3, <4>4
    <3> QED BY <3>3, <3>4
  <2> QED BY <2>2, <2>3
<1>10. Solved(T)
  <2> HIDE DEF g
  <2> QED BY <1>8, <1>9
<1> QED BY <1>2, <1>10

-----------------------------------------------------------------------------
(* Sums over finite sets *)

\* The sum over a finite set: what one element adds does not depend on the order.
Some(t) == CHOOSE x \in t : TRUE

IsSum(g, f, S) ==
  /\ SumFunctionOnSet(f, S) = g[S]
  /\ \A t \in SUBSET S : g[t] = IF t = {} THEN 0 ELSE f[Some(t)] + g[t \ {Some(t)}]

LEMMA SumIsRecursive ==
  ASSUME NEW U, NEW f \in [U -> Nat], NEW S \in SUBSET U, IsFiniteSet(S)
  PROVE  \E g \in [SUBSET S -> Nat] : IsSum(g, f, S)
<1> DEFINE pick == [t \in (SUBSET S) \ {{}} |-> CHOOSE x \in t : TRUE]
           step == [p \in S \X Nat |-> f[p[1]] + p[2]]
           IsFold(g) == g = [t \in SUBSET S |-> IF t = {} THEN 0
                                                ELSE LET x == CHOOSE y \in t : TRUE
                                                     IN  f[x] + g[t \ {x}]]
           iter == CHOOSE g : IsFold(g)
<1>3. Picks(pick, S)
  BY DEF Picks
<1>4. step \in [S \X Nat -> Nat]
  OBVIOUS
<1>5. PICK g \in [SUBSET S -> Nat] : Recursive(g, S, 0, pick, step)
  <2> HIDE DEF pick, step
  <2> QED BY <1>3, <1>4, FiniteRecursion
<1>6. \A t \in SUBSET S : t # {} => /\ pick[t] = (CHOOSE y \in t : TRUE) /\ pick[t] \in t
  OBVIOUS
<1>7. \A t \in SUBSET S :
        g[t] = IF t = {} THEN 0 ELSE f[pick[t]] + g[t \ {pick[t]}]
  <2> TAKE t \in SUBSET S
  <2>1. CASE t = {}
    BY <1>5, <2>1 DEF Recursive
  <2>2. CASE t # {}
    <3>1. g[t] = step[<<pick[t], g[t \ {pick[t]}]>>]
      BY <1>5, <2>2 DEF Recursive
    <3>2. pick[t] \in S /\ g[t \ {pick[t]}] \in Nat
      BY <1>6, <2>2
    <3> HIDE DEF pick
    <3> QED BY <2>2, <3>1, <3>2
  <2> QED BY <2>1, <2>2
<1>8. IsFold(g)
  <2>1. ASSUME NEW t \in SUBSET S
        PROVE  g[t] = IF t = {} THEN 0
                      ELSE f[CHOOSE y \in t : TRUE] + g[t \ {CHOOSE y \in t : TRUE}]
    <3> HIDE DEF pick
    <3> QED BY <1>6, <1>7
  <2> QED BY <2>1
<1>9. IsFold(iter)
  <2> HIDE DEF IsFold
  <2> QED BY <1>8
<1>10. SumFunctionOnSet(f, S) = iter[S]
  BY DEF SumFunctionOnSet, FoldFunctionOnSet, MapThenFoldSet
<1>11. \A t \in SUBSET S :
        iter[t] = IF t = {} THEN 0 ELSE f[pick[t]] + iter[t \ {pick[t]}]
  <2>1. \A h : IsFold(h) => \A t \in SUBSET S :
          h[t] = IF t = {} THEN 0
                      ELSE f[CHOOSE y \in t : TRUE] + h[t \ {CHOOSE y \in t : TRUE}]
    OBVIOUS
  <2> TAKE t \in SUBSET S
  <2>2. iter[t] = IF t = {} THEN 0
                      ELSE f[CHOOSE y \in t : TRUE] + iter[t \ {CHOOSE y \in t : TRUE}]
    <3> HIDE DEF IsFold, iter
    <3> QED BY <1>9, <2>1
  <2>3. t # {} => pick[t] = CHOOSE y \in t : TRUE
    OBVIOUS
  <2> HIDE DEF IsFold, iter, pick
  <2> QED BY <2>2, <2>3
<1>12. iter[S] = g[S]
  <2> DEFINE F == {t \in SUBSET S : iter[t] # g[t]}
  <2>1. SUFFICES ASSUME F # {} PROVE FALSE
    OBVIOUS
  <2>2. PICK t \in F : \A u \in F : u \subseteq t => u = t
    <3>1. F \in SUBSET SUBSET S
      OBVIOUS
    <3> HIDE DEF F
    <3> QED BY <2>1, <3>1, SmallestSet
  <2> HIDE DEF iter, pick
  <2>4. t # {}
    BY <1>7, <1>11
  <2>5. pick[t] \in t
    BY <1>6, <2>4
  <2>6. iter[t \ {pick[t]}] = g[t \ {pick[t]}]
    BY <2>2, <2>5
  <2> QED BY <1>7, <1>11, <2>2, <2>4, <2>6
<1> QED
  <2>1. SumFunctionOnSet(f, S) = g[S]
    BY <1>10, <1>12
  <2>2. \A t \in SUBSET S : t # {} => pick[t] = Some(t)
    BY DEF Some
  <2> HIDE DEF iter, pick
  <2>3. \A t \in SUBSET S : g[t] = IF t = {} THEN 0 ELSE f[Some(t)] + g[t \ {Some(t)}]
    BY <1>7, <2>2
  <2> QED BY <2>1, <2>3 DEF IsSum

LEMMA SumStep ==
  ASSUME NEW U, NEW f \in [U -> Nat], NEW S \in SUBSET U, IsFiniteSet(S), S # {}
  PROVE  \E x \in S : SumFunctionOnSet(f, S) = f[x] + SumFunctionOnSet(f, S \ {x})
<1> DEFINE x == Some(S)
<1>1. x \in S
  BY DEF Some
<1>2. PICK g \in [SUBSET S -> Nat] : IsSum(g, f, S)
  BY SumIsRecursive
<1>3. PICK T \in SUBSET S : T = S \ {x}
  OBVIOUS
<1>4. PICK h \in [SUBSET T -> Nat] : IsSum(h, f, T)
  <2>1. T \in SUBSET U /\ IsFiniteSet(T)
    BY FS_Subset
  <2> HIDE DEF x
  <2> QED BY <2>1, SumIsRecursive
<1>5. h[T] = g[T]
  <2> DEFINE F == {t \in SUBSET T : h[t] # g[t]}
  <2>1. SUFFICES ASSUME F # {} PROVE FALSE
    OBVIOUS
  <2>2. PICK t \in F : \A u \in F : u \subseteq t => u = t
    <3>1. F \in SUBSET SUBSET S
      OBVIOUS
    <3> HIDE DEF F
    <3> QED BY <2>1, <3>1, SmallestSet
  <2>4. t # {}
    BY <1>2, <1>4 DEF IsSum
  <2>5. Some(t) \in t
    BY <2>4 DEF Some
  <2>6. h[t \ {Some(t)}] = g[t \ {Some(t)}]
    BY <2>2, <2>5
  <2> QED BY <1>2, <1>4, <2>2, <2>4, <2>6 DEF IsSum
<1>6. g[S] = f[x] + g[S \ {x}]
  BY <1>2 DEF IsSum
<1> QED BY <1>1, <1>2, <1>3, <1>4, <1>5, <1>6 DEF IsSum

LEMMA SumParts ==
  ASSUME NEW U, NEW f \in [U -> Nat], NEW S \in SUBSET U, IsFiniteSet(S)
  PROVE  /\ SumFunctionOnSet(f, S) \in Nat
         /\ S = {} => SumFunctionOnSet(f, S) = 0
         /\ \A x \in S : SumFunctionOnSet(f, S) = f[x] + SumFunctionOnSet(f, S \ {x})
<1> DEFINE Sum(T) == SumFunctionOnSet(f, T)
           F == {T \in SUBSET S : \E x \in T : Sum(T) # f[x] + Sum(T \ {x})}
<1>0. ASSUME NEW T \in SUBSET S
      PROVE  /\ IsFiniteSet(T)
             /\ Sum(T) \in Nat /\ (T = {} => Sum(T) = 0)
             /\ T # {} => \E z \in T : Sum(T) = f[z] + Sum(T \ {z})
  <2>1. T \in SUBSET U /\ IsFiniteSet(T)
    BY FS_Subset
  <2>2. PICK g \in [SUBSET T -> Nat] : IsSum(g, f, T)
    BY <2>1, SumIsRecursive
  <2>3. T # {} => \E z \in T : Sum(T) = f[z] + Sum(T \ {z})
    BY <2>1, SumStep
  <2>4. Sum(T) \in Nat /\ (T = {} => Sum(T) = 0)
    BY <2>2 DEF IsSum
  <2> QED BY <2>1, <2>3, <2>4
<1>1. SUFFICES ASSUME F # {} PROVE FALSE
  <2>1. S \in SUBSET S
    OBVIOUS
  <2> QED BY <1>0, <2>1
<1>2. PICK T \in F : \A V \in F : V \subseteq T => V = T
  <2>1. F \in SUBSET SUBSET S
    OBVIOUS
  <2> HIDE DEF F
  <2> QED BY <1>1, <2>1, SmallestSet
<1>3. PICK x \in T : Sum(T) # f[x] + Sum(T \ {x})
  BY <1>2
<1>4. PICK z \in T : Sum(T) = f[z] + Sum(T \ {z})
  BY <1>0
<1>5. z # x
  BY <1>3, <1>4
<1>6. \A V \in SUBSET T : V # T => \A y \in V : Sum(V) = f[y] + Sum(V \ {y})
  BY <1>2
<1>7. /\ Sum(T \ {z}) = f[x] + Sum((T \ {z}) \ {x})
      /\ Sum(T \ {x}) = f[z] + Sum((T \ {x}) \ {z})
  BY <1>5, <1>6
<1>8. (T \ {z}) \ {x} = (T \ {x}) \ {z}
  OBVIOUS
<1>9. f[x] \in Nat /\ f[z] \in Nat /\ Sum((T \ {z}) \ {x}) \in Nat
  BY <1>0
<1> DEFINE rest == Sum((T \ {z}) \ {x})
<1>10. rest \in Nat /\ Sum(T) = f[z] + (f[x] + rest) /\ Sum(T \ {x}) = f[z] + rest
  BY <1>4, <1>7, <1>8, <1>9
<1> HIDE DEF Sum, rest, F
<1> QED BY <1>3, <1>9, <1>10

\* A sum over a larger set is not smaller.
LEMMA SumGrows ==
  ASSUME NEW U, NEW f \in [U -> Nat], NEW S \in SUBSET U, IsFiniteSet(S), NEW T \in SUBSET S
  PROVE  SumFunctionOnSet(f, T) <= SumFunctionOnSet(f, S)
<1> DEFINE Sum(V) == SumFunctionOnSet(f, V)
           F == {V \in SUBSET S : T \subseteq V /\ ~(Sum(T) <= Sum(V))}
<1>0. ASSUME NEW V \in SUBSET S
      PROVE  Sum(V) \in Nat /\ \A x \in V : Sum(V) = f[x] + Sum(V \ {x})
  <2>1. V \in SUBSET U /\ IsFiniteSet(V)
    BY FS_Subset
  <2> QED BY <2>1, SumParts
<1>1. SUFFICES ASSUME F # {} PROVE FALSE
  OBVIOUS
<1>2. PICK V \in F : \A W \in F : W \subseteq V => W = V
  <2>1. F \in SUBSET SUBSET S
    OBVIOUS
  <2> HIDE DEF F
  <2> QED BY <1>1, <2>1, SmallestSet
<1>3. V # T
  BY <1>0
<1>4. PICK x \in V : x \notin T
  BY <1>3
<1>5. V \ {x} \notin F
  BY <1>2
<1>6. Sum(T) <= Sum(V \ {x})
  BY <1>4, <1>5
<1>7. Sum(V) = f[x] + Sum(V \ {x}) /\ Sum(V \ {x}) \in Nat /\ f[x] \in Nat /\ Sum(T) \in Nat
  BY <1>0
<1>8. ~(Sum(T) <= Sum(V))
  BY <1>2
<1> HIDE DEF Sum
<1> QED BY <1>6, <1>7, <1>8

LEMMA NamesFinite == IsFiniteSet(Names)
<1> DEFINE soft == [r \in Readers |-> Soft(r)]
           hard == [r \in Readers |-> Hard(r)]
           Softs == {Soft(r) : r \in Readers}
           Hards == {Hard(r) : r \in Readers}
<1>1. soft \in Surjection(Readers, Softs) /\ hard \in Surjection(Readers, Hards)
  BY DEF Surjection
<1>2. IsFiniteSet(Softs) /\ IsFiniteSet(Hards)
  <2> HIDE DEF soft, hard, Softs, Hards
  <2> QED BY <1>1, ReadersAssumption, FS_Surjection
<1>3. IsFiniteSet(Softs \union Hards)
  <2> HIDE DEF Softs, Hards
  <2> QED BY <1>2, FS_Union
<1>4. ASSUME NEW n \in Names PROVE n \in Softs \union Hards
  <2>1. n.soft \in BOOLEAN /\ n.hard \in Readers /\ n = [soft |-> n.soft, hard |-> n.hard]
    BY DEF Names
  <2>2. n = Soft(n.hard) \/ n = Hard(n.hard)
    BY <2>1 DEF Soft, Hard
  <2> QED BY <2>1, <2>2
<1>5. Names \subseteq Softs \union Hards
  BY <1>4
<1> HIDE DEF Softs, Hards
<1> QED BY <1>3, <1>5, FS_Subset

-----------------------------------------------------------------------------
(* The length of a list *)

SizeOf == [n \in Names |-> Size(n) + 1]
All(hardnames) == {n \in Names : n.hard \in hardnames}

LEMMA SizeType == SizeOf \in [Names -> Nat]
<1>1. NameLength \in [Readers -> Nat] /\ PrefixLength \in Nat
  BY ReadersAssumption
<1>2. ASSUME NEW n \in Names PROVE Size(n) + 1 \in Nat
  BY <1>1 DEF Names, Size
<1> QED BY <1>2 DEF SizeOf

LEMMA LengthOfAll ==
  ASSUME NEW H \in SUBSET Readers
  PROVE  /\ Cardinality(H) \in Nat
         /\ SumFunctionOnSet(NameLength, H) \in Nat
         /\ SumFunctionOnSet(SizeOf, All(H))
              = 2 * SumFunctionOnSet(NameLength, H)
                + Cardinality(H) * PrefixLength + 2 * Cardinality(H)
<1>0. /\ NameLength \in [Readers -> Nat] /\ PrefixLength \in Nat
      /\ SizeOf \in [Names -> Nat] /\ IsFiniteSet(Names) /\ IsFiniteSet(Readers)
  BY ReadersAssumption, NamesFinite, SizeType
<1> DEFINE N(h) == SumFunctionOnSet(NameLength, h)
           S(a) == SumFunctionOnSet(SizeOf, a)
           Right(h) == 2 * N(h) + Cardinality(h) * PrefixLength + 2 * Cardinality(h)
           F == {h \in SUBSET H : S(All(h)) # Right(h)}
<1>1. ASSUME NEW h \in SUBSET H
      PROVE  /\ N(h) \in Nat /\ (h = {} => N(h) = 0)
             /\ \A r \in h : N(h) = NameLength[r] + N(h \ {r})
             /\ Cardinality(h) \in Nat /\ (h = {} => Cardinality(h) = 0)
             /\ \A r \in h : Cardinality(h \ {r}) = Cardinality(h) - 1
  <2>1. h \in SUBSET Readers /\ IsFiniteSet(h)
    BY <1>0, FS_Subset
  <2>2. Cardinality(h) \in Nat /\ (h = {} => Cardinality(h) = 0)
    BY <2>1, FS_CardinalityType, FS_EmptySet
  <2>3. \A r \in h : Cardinality(h \ {r}) = Cardinality(h) - 1
    BY <2>1, FS_RemoveElement
  <2>4. /\ N(h) \in Nat /\ (h = {} => N(h) = 0)
        /\ \A r \in h : N(h) = NameLength[r] + N(h \ {r})
    BY <1>0, <2>1, SumParts
  <2> QED BY <2>2, <2>3, <2>4
<1>2. ASSUME NEW a \in SUBSET Names
      PROVE  S(a) \in Nat /\ (a = {} => S(a) = 0) /\ \A n \in a : S(a) = SizeOf[n] + S(a \ {n})
  <2>1. IsFiniteSet(a)
    BY <1>0, FS_Subset
  <2> QED BY <1>0, <2>1, SumParts
<1>3. SUFFICES ASSUME F # {} PROVE FALSE
  <2>0. SUFFICES ASSUME F = {} PROVE /\ Cardinality(H) \in Nat /\ N(H) \in Nat /\ S(All(H)) = Right(H)
    OBVIOUS
  <2>1. H \in SUBSET H /\ H \notin F
    BY <2>0
  <2>2. S(All(H)) = Right(H)
    BY <2>1
  <2>3. N(H) \in Nat /\ Cardinality(H) \in Nat
    BY <1>1, <2>1
  <2> QED BY <2>2, <2>3
<1>4. PICK h \in F : \A g \in F : g \subseteq h => g = h
  <2>1. F \in SUBSET SUBSET Readers
    OBVIOUS
  <2> HIDE DEF F
  <2> QED BY <1>0, <1>3, <2>1, SmallestSet
<1>5. h # {}
  <2>1. SUFFICES ASSUME h = {} PROVE FALSE
    OBVIOUS
  <2>2. All(h) = {} /\ All(h) \in SUBSET Names
    BY <2>1 DEF All
  <2>3. S(All(h)) = 0
    BY <1>2, <2>2
  <2>4. N(h) = 0 /\ Cardinality(h) = 0
    BY <1>1, <2>1
  <2> HIDE DEF N, S
  <2> QED BY <1>0, <1>4, <2>3, <2>4
<1>6. PICK r \in h : TRUE
  BY <1>5
<1>7. S(All(h \ {r})) = Right(h \ {r})
  BY <1>4
<1>8. /\ r \in Readers /\ Soft(r) \in All(h) /\ Hard(r) \in All(h) \ {Soft(r)}
      /\ (All(h) \ {Soft(r)}) \ {Hard(r)} = All(h \ {r})
  <2>1. r \in Readers /\ Soft(r) \in All(h) /\ Hard(r) \in All(h) /\ Soft(r) # Hard(r)
    BY DEF All, Names, Soft, Hard
  <2>2. ASSUME NEW n \in Names PROVE n.hard = r <=> n = Soft(r) \/ n = Hard(r)
    <3>1. n.soft \in BOOLEAN /\ n = [soft |-> n.soft, hard |-> n.hard]
      BY DEF Names
    <3> QED BY <3>1 DEF Soft, Hard
  <2> QED BY <2>1, <2>2 DEF All
<1>9. SizeOf[Soft(r)] + SizeOf[Hard(r)] = 2 * NameLength[r] + PrefixLength + 2
  <2>1. Soft(r) \in Names /\ Hard(r) \in Names
    BY <1>8 DEF All
  <2>2. SizeOf[Soft(r)] = NameLength[r] + PrefixLength + 1 /\ SizeOf[Hard(r)] = NameLength[r] + 1
    BY <1>0, <1>8, <2>1 DEF SizeOf, Size, Soft, Hard
  <2>3. NameLength[r] \in Nat
    BY <1>0, <1>8
  <2> QED BY <1>0, <2>2, <2>3
<1>10. S(All(h)) = SizeOf[Soft(r)] + (SizeOf[Hard(r)] + S(All(h \ {r})))
  <2>1. All(h) \in SUBSET Names /\ All(h) \ {Soft(r)} \in SUBSET Names
    BY DEF All
  <2>2. S(All(h)) = SizeOf[Soft(r)] + S(All(h) \ {Soft(r)})
    BY <1>2, <1>8, <2>1
  <2>3. S(All(h) \ {Soft(r)}) = SizeOf[Hard(r)] + S((All(h) \ {Soft(r)}) \ {Hard(r)})
    BY <1>2, <1>8, <2>1
  <2> QED BY <1>8, <2>2, <2>3
<1>11. /\ SizeOf[Soft(r)] \in Nat /\ SizeOf[Hard(r)] \in Nat /\ NameLength[r] \in Nat
       /\ S(All(h \ {r})) \in Nat
  <2>1. Soft(r) \in Names /\ Hard(r) \in Names /\ All(h \ {r}) \in SUBSET Names
    BY <1>8 DEF All
  <2> QED BY <1>0, <1>2, <1>8, <2>1
<1>12. /\ N(h) = NameLength[r] + N(h \ {r}) /\ N(h \ {r}) \in Nat
       /\ Cardinality(h) = Cardinality(h \ {r}) + 1 /\ Cardinality(h \ {r}) \in Nat
  BY <1>1
<1>13. Cardinality(h) * PrefixLength = Cardinality(h \ {r}) * PrefixLength + PrefixLength
  <2>1. \A k, l \in Nat : (k + 1) * l = k * l + l
    OBVIOUS
  <2> QED BY <1>0, <1>12, <2>1
<1>14. Cardinality(h \ {r}) * PrefixLength \in Nat
  BY <1>0, <1>12
<1>15. S(All(h)) # 2 * N(h) + Cardinality(h) * PrefixLength + 2 * Cardinality(h)
  BY <1>4
<1>16. S(All(h \ {r})) = 2 * N(h \ {r}) + Cardinality(h \ {r}) * PrefixLength
                           + 2 * Cardinality(h \ {r})
  BY <1>7
<1> DEFINE P == Cardinality(h \ {r}) * PrefixLength
<1>17. S(All(h)) # 2 * N(h) + (P + PrefixLength) + 2 * Cardinality(h)
  BY <1>13, <1>15
<1>18. S(All(h \ {r})) = 2 * N(h \ {r}) + P + 2 * Cardinality(h \ {r}) /\ P \in Nat
  BY <1>14, <1>16
<1> DEFINE c == Cardinality(h \ {r})
           n == N(h \ {r})
<1>19. /\ c \in Nat /\ n \in Nat /\ Cardinality(h) = c + 1 /\ N(h) = NameLength[r] + n
       /\ S(All(h \ {r})) = 2 * n + P + 2 * c
  BY <1>12, <1>18
<1> HIDE DEF N, S, P, c, n
<1>20. S(All(h)) = 2 * NameLength[r] + PrefixLength + 2 + (2 * n + P + 2 * c)
  BY <1>0, <1>9, <1>10, <1>11, <1>18, <1>19
<1>21. S(All(h)) # 2 * (NameLength[r] + n) + (P + PrefixLength) + 2 * (c + 1)
  BY <1>17, <1>19
<1> QED BY <1>0, <1>11, <1>18, <1>19, <1>20, <1>21

LEMMA CalcType ==
  ASSUME NEW H \in SUBSET Readers
  PROVE  calcListReadersLength(H) \in Nat
BY LengthOfAll, ReadersAssumption DEF calcListReadersLength

\* The length that is calculated is enough for every list of the same readers.
LEMMA ListFitsLength ==
  ASSUME NEW H \in SUBSET Readers, NEW names \in SUBSET All(H)
  PROVE  MultiString(names) <= calcListReadersLength(H)
<1>1. SizeOf \in [Names -> Nat] /\ All(H) \in SUBSET Names /\ IsFiniteSet(All(H))
  <2>1. All(H) \in SUBSET Names
    BY DEF All
  <2> QED BY <2>1, NamesFinite, SizeType, FS_Subset
<1>2. SumFunctionOnSet(SizeOf, names) <= SumFunctionOnSet(SizeOf, All(H))
  BY <1>1, SumGrows
<1>3. SumFunctionOnSet(SizeOf, names) \in Nat /\ SumFunctionOnSet(SizeOf, All(H)) \in Nat
  <2>1. names \in SUBSET Names /\ IsFiniteSet(names)
    BY <1>1, FS_Subset
  <2> QED BY <1>1, <2>1, SumParts
<1>4. MultiString(names) = SumFunctionOnSet(SizeOf, names) + 1
  BY DEF MultiString, SizeOf
<1>5. SumFunctionOnSet(SizeOf, All(H)) + 1 <= calcListReadersLength(H)
  <2>1. CASE H = {}
    <3>1. All(H) = {}
      BY <2>1 DEF All
    <3>2. SumFunctionOnSet(SizeOf, All(H)) = 0
      BY <1>1, <3>1, SumParts
    <3> QED BY <2>1, <3>2 DEF calcListReadersLength
  <2>2. CASE H # {}
    <3>1. calcListReadersLength(H) = SumFunctionOnSet(SizeOf, All(H)) + 1
      BY <2>2, LengthOfAll DEF calcListReadersLength
    <3> QED BY <1>3, <3>1
  <2> QED BY <2>1, <2>2
<1>6. calcListReadersLength(H) \in Nat
  BY CalcType
<1> QED BY <1>2, <1>3, <1>4, <1>5, <1>6

\* A list of more readers needs a longer buffer.
LEMMA LengthGrows ==
  ASSUME NEW H \in SUBSET Readers, NEW G \in SUBSET H
  PROVE  calcListReadersLength(G) <= calcListReadersLength(H)
<1>1. All(G) \in SUBSET All(H) /\ All(H) \in SUBSET Names /\ All(G) \in SUBSET All(G)
  BY DEF All
<1>2. CASE G # {}
  <2>1. H # {} /\ G \in SUBSET Readers
    BY <1>2
  <2>2. calcListReadersLength(G) = SumFunctionOnSet(SizeOf, All(G)) + 1
    BY <1>2, <2>1, LengthOfAll DEF calcListReadersLength
  <2>3. calcListReadersLength(G) = MultiString(All(G))
    BY <2>2 DEF MultiString, SizeOf
  <2> QED BY <1>1, <2>3, ListFitsLength
<1>3. CASE G = {}
  <2>1. CASE H = {}
    BY <1>3, <2>1 DEF calcListReadersLength
  <2>2. CASE H # {}
    <3>1. /\ SumFunctionOnSet(NameLength, H) \in Nat
          /\ Cardinality(H) \in Nat /\ PrefixLength \in Nat
      BY LengthOfAll, ReadersAssumption
    <3>2. Cardinality(H) # 0
      <4>1. IsFiniteSet(H)
        BY ReadersAssumption, FS_Subset
      <4> QED BY <2>2, <4>1, FS_EmptySet
    <3>3. Cardinality(H) * PrefixLength \in Nat
      BY <3>1
    <3> QED BY <1>3, <2>2, <3>1, <3>2, <3>3 DEF calcListReadersLength
  <2> QED BY <2>1, <2>2
<1> QED BY <1>2, <1>3

-----------------------------------------------------------------------------
(* The order of a list *)

\* Every order is a strict total order of the names.
LEMMA StrictOrder ==
  ASSUME NEW order \in ListReaderOrder, NEW a \in Names, NEW b \in Names, NEW c \in Names
  PROVE  /\ ~precedes(order, a, a)
         /\ precedes(order, a, b) /\ precedes(order, b, c) => precedes(order, a, c)
         /\ a # b => precedes(order, a, b) \/ precedes(order, b, a)
<1>1. /\ a.soft \in BOOLEAN /\ b.soft \in BOOLEAN /\ c.soft \in BOOLEAN
      /\ a.hard \in Nat /\ b.hard \in Nat /\ c.hard \in Nat
      /\ a = [soft |-> a.soft, hard |-> a.hard] /\ b = [soft |-> b.soft, hard |-> b.hard]
  BY ReadersAssumption DEF Names
<1>2. a # b => a.soft # b.soft \/ a.hard # b.hard
  BY <1>1
<1> QED
  BY <1>1, <1>2 DEF ListReaderOrder, precedes, cmpVirtualNameFirst, cmpVirtualNameLast,
                    compare, LooksSoft

\* A list has each name of the set once, and none before one that precedes it.
LEMMA SortedOrder ==
  ASSUME NEW order \in ListReaderOrder, NEW T \in SUBSET Names
  PROVE  /\ Cardinality(T) \in Nat
         /\ Sorted(T, order) \in [1..Cardinality(T) -> T]
         /\ \A i, j \in 1..Cardinality(T) :
              i < j => precedes(order, Sorted(T, order)[i], Sorted(T, order)[j])
         /\ ToSet(Sorted(T, order)) = T
<1> DEFINE before(x) == {m \in T : precedes(order, m, x)}
           rank(x) == Cardinality(before(x))
           n == Cardinality(T)
           s == Sorted(T, order)
           ranks == [x \in T |-> rank(x)]
<1>1. IsFiniteSet(T) /\ n \in Nat
  BY NamesFinite, FS_Subset, FS_CardinalityType
<1>2. ASSUME NEW x \in T PROVE rank(x) \in Nat /\ rank(x) < n
  <2>1. before(x) \in SUBSET T /\ before(x) # T
    BY StrictOrder
  <2>2. IsFiniteSet(before(x)) /\ rank(x) <= n /\ rank(x) # n
    <3> HIDE DEF before
    <3> QED BY <1>1, <2>1, FS_Subset
  <2>3. rank(x) \in Nat
    <3> HIDE DEF before
    <3> QED BY <2>2, FS_CardinalityType
  <2> HIDE DEF rank, n
  <2> QED BY <1>1, <2>2, <2>3
<1>3. ASSUME NEW x \in T, NEW y \in T, precedes(order, x, y) PROVE rank(x) < rank(y)
  <2>1. before(x) \in SUBSET before(y) /\ before(x) # before(y)
    <3>1. x \in before(y) /\ x \notin before(x)
      BY <1>3, StrictOrder
    <3>2. ASSUME NEW m \in before(x) PROVE m \in before(y)
      BY <1>3, <3>2, StrictOrder
    <3> QED BY <3>1, <3>2
  <2>2. before(y) \in SUBSET T
    OBVIOUS
  <2> HIDE DEF before
  <2>3. IsFiniteSet(before(y))
    BY <1>1, <2>2, FS_Subset
  <2>4. rank(x) <= rank(y) /\ rank(x) # rank(y)
    BY <2>1, <2>3, FS_Subset
  <2> HIDE DEF rank
  <2> QED BY <1>2, <2>4
<1>4. ASSUME NEW x \in T, NEW y \in T, x # y PROVE rank(x) # rank(y)
  <2>1. precedes(order, x, y) \/ precedes(order, y, x)
    BY <1>4, StrictOrder
  <2> HIDE DEF rank
  <2> QED BY <1>2, <1>3, <2>1
<1> HIDE DEF rank, n
<1>5. ranks \in Injection(T, 0..(n - 1))
  BY <1>1, <1>2, <1>4 DEF Injection, IsInjective
<1>6. IsFiniteSet(0..(n - 1)) /\ Cardinality(0..(n - 1)) = n
  BY <1>1, FS_Interval
<1>7. ranks \in Surjection(T, 0..(n - 1))
  <2>1. n = Cardinality(T)
    BY DEF n
  <2> HIDE DEF ranks
  <2> QED BY <1>1, <1>5, <1>6, <2>1, FS_Injection
<1>8. \A i \in 0..(n - 1) : \E x \in T : rank(x) = i
  BY <1>7 DEF Surjection
<1>9. s = [i \in 1..n |-> CHOOSE x \in T : rank(x) = i - 1]
  BY DEF Sorted, rank, n
<1>10. ASSUME NEW i \in 1..n PROVE s[i] \in T /\ rank(s[i]) = i - 1
  <2>1. i - 1 \in 0..(n - 1)
    BY <1>1
  <2>2. PICK x \in T : rank(x) = i - 1
    BY <1>8, <2>1
  <2> HIDE DEF s
  <2> QED BY <1>9, <2>2
<1> HIDE DEF s
<1>11. s \in [1..n -> T]
  BY <1>9, <1>10
<1>12. ASSUME NEW i \in 1..n, NEW j \in 1..n, i < j PROVE precedes(order, s[i], s[j])
  <2>1. s[i] \in T /\ s[j] \in T /\ rank(s[i]) = i - 1 /\ rank(s[j]) = j - 1
    BY <1>10
  <2>2. s[i] # s[j] /\ ~(rank(s[j]) < rank(s[i]))
    BY <1>1, <1>12, <2>1
  <2>3. ~precedes(order, s[j], s[i])
    BY <1>3, <2>1, <2>2
  <2> QED BY <2>1, <2>2, <2>3, StrictOrder
<1>13. ASSUME NEW x \in T PROVE \E i \in 1..n : s[i] = x
  <2>1. rank(x) + 1 \in 1..n
    BY <1>1, <1>2
  <2>2. s[rank(x) + 1] \in T /\ rank(s[rank(x) + 1]) = rank(x)
    BY <1>2, <1>10, <2>1
  <2> QED BY <1>4, <2>1, <2>2
<1>14. ToSet(s) = T
  BY <1>11, <1>13 DEF ToSet
<1>15. n = Cardinality(T) /\ s = Sorted(T, order)
  BY DEF n, s
<1> QED BY <1>1, <1>11, <1>12, <1>14, <1>15

LEMMA ReturnedNames ==
  ASSUME NEW H \in SUBSET Readers, NEW order \in ListReaderOrder
  PROVE  /\ returnListNames(H, order) \in Seq(Names)
         /\ ToSet(returnListNames(H, order)) = Shown(H, order)
         /\ \A i, j \in DOMAIN returnListNames(H, order) :
              i < j => precedes(order, returnListNames(H, order)[i], returnListNames(H, order)[j])
<1> DEFINE T == Shown(H, order)
           s == returnListNames(H, order)
<1>1. T \in SUBSET Names
  BY DEF Shown
<1>2. s = Sorted(T, order)
  BY DEF returnListNames
<1> HIDE DEF T, s
<1>3. /\ Cardinality(T) \in Nat /\ s \in [1..Cardinality(T) -> T] /\ ToSet(s) = T
      /\ \A i, j \in 1..Cardinality(T) : i < j => precedes(order, s[i], s[j])
  BY <1>1, <1>2, SortedOrder
<1>4. s \in [1..Cardinality(T) -> Names]
  BY <1>1, <1>3
<1>5. s \in Seq(Names) /\ DOMAIN s = 1..Cardinality(T)
  BY <1>3, <1>4, SeqDef
<1> QED BY <1>3, <1>5 DEF T, s

\* The names of a list are in its order, whatever readers it is made for.
InOrder(names, order) ==
  \A i, j \in DOMAIN names : i < j =>
    LET a == names[i]
        b == names[j]
    IN /\ a # b
       /\ order = "REAL_LAST" => a.soft \/ ~b.soft
       /\ order = "REAL_FIRST" => ~a.soft \/ b.soft \/ b.hard \in PrefixLetters
       /\ order = "HIDE_REAL" => a.soft /\ b.soft
       /\ order = "HIDE_VIRTUAL" => ~a.soft /\ ~b.soft
       /\ a.soft = b.soft /\ LooksSoft(a) = LooksSoft(b) => a.hard < b.hard

LEMMA ReturnedInOrder ==
  ASSUME NEW H \in SUBSET Readers, NEW order \in ListReaderOrder
  PROVE  InOrder(returnListNames(H, order), order)
<1> DEFINE s == returnListNames(H, order)
<1> SUFFICES ASSUME NEW i \in DOMAIN s, NEW j \in DOMAIN s, i < j,
                    NEW a, NEW b, a = s[i], b = s[j]
             PROVE  /\ a # b
                    /\ order = "REAL_LAST" => a.soft \/ ~b.soft
                    /\ order = "REAL_FIRST" => ~a.soft \/ b.soft \/ b.hard \in PrefixLetters
                    /\ order = "HIDE_REAL" => a.soft /\ b.soft
                    /\ order = "HIDE_VIRTUAL" => ~a.soft /\ ~b.soft
                    /\ a.soft = b.soft /\ LooksSoft(a) = LooksSoft(b) => a.hard < b.hard
  BY DEF InOrder
<1>1. precedes(order, a, b) /\ a \in Shown(H, order) /\ b \in Shown(H, order)
  <2>1. ToSet(s) = Shown(H, order) /\ precedes(order, s[i], s[j])
    BY ReturnedNames
  <2>2. s[i] \in ToSet(s) /\ s[j] \in ToSet(s)
    BY DEF ToSet
  <2> QED BY <2>1, <2>2
<1>2. a \in Names /\ b \in Names
  BY <1>1 DEF Shown
<1>3. a # b
  BY <1>1, <1>2, StrictOrder
<1>4. /\ order = "HIDE_REAL" => a.soft /\ b.soft
      /\ order = "HIDE_VIRTUAL" => ~a.soft /\ ~b.soft
  BY <1>1 DEF Shown
<1>5. a.soft \in BOOLEAN /\ b.soft \in BOOLEAN
  BY <1>2 DEF Names
<1>6. /\ order = "REAL_LAST" => cmpVirtualNameFirst(a, b)
      /\ order = "REAL_FIRST" => cmpVirtualNameLast(a, b)
      /\ LooksSoft(a) = LooksSoft(b) => compare(a, b)
  BY <1>1 DEF ListReaderOrder, precedes, cmpVirtualNameFirst, cmpVirtualNameLast
<1>7. order = "REAL_LAST" => a.soft \/ ~b.soft
  BY <1>5, <1>6 DEF cmpVirtualNameFirst, compare, LooksSoft
<1>8. order = "REAL_FIRST" => ~a.soft \/ b.soft \/ b.hard \in PrefixLetters
  BY <1>5, <1>6 DEF cmpVirtualNameLast, compare, LooksSoft
<1>9. a.soft = b.soft /\ LooksSoft(a) = LooksSoft(b) => a.hard < b.hard
  BY <1>6 DEF compare
<1> QED BY <1>3, <1>4, <1>7, <1>8, <1>9

-----------------------------------------------------------------------------
(* Types *)

Listing == [pc : {"listing"}, names : SUBSET Readers, room : Nat \union {NULL}]
Froms == {"caller", "reader", "deleted"}

LEMMA CallType == Call = {Idle, Crashed} \union Listing \union StatusCall
BY DEF Call, Listing

\* What the program point of a call says of its other parts.
LEMMA CallCases ==
  ASSUME NEW c \in Call
  PROVE  /\ c.pc = "listing" => c \in Listing
         /\ c.pc \in StatusCalls => c \in StatusCall
<1>1. c = Idle \/ c = Crashed \/ c \in Listing \/ c \in StatusCall
  BY CallType
<1>2. CASE c = Idle \/ c = Crashed
  BY <1>2 DEF Idle, Crashed, StatusCalls
<1>3. CASE c \in Listing
  BY <1>3 DEF Listing, StatusCalls
<1>4. CASE c \in StatusCall
  BY <1>4 DEF StatusCall, StatusCalls
<1> QED BY <1>1, <1>2, <1>3, <1>4

\* A status call is at one of its elements, and has a state for each.
FormOf(c) == c.i \in DOMAIN c.names /\ DOMAIN c.states = DOMAIN c.names

FormInv == \A t \in Threads : call[t].pc \in StatusCalls => FormOf(call[t])

\* d is the status call c when a list for H has deleted the other readers.
IsFreed(d, c, H) ==
  /\ d.pc = c.pc /\ d.names = c.names /\ d.states = c.states /\ d.i = c.i
  /\ d.sr = Mark(c.sr, c.names[c.i], H)
  /\ d.moved = c.moved \union (readers \ H) \union (H \ readers)
  /\ DOMAIN d.real = DOMAIN c.real
  /\ \A k \in DOMAIN c.real : /\ d.real[k].name = c.real[k].name
                              /\ d.real[k].state = c.real[k].state
                              /\ d.real[k].from = Mark(c.real[k].from, c.real[k].name, H)

LEMMA FreedCall ==
  ASSUME NEW s \in Threads, call[s] \in Call, NEW H \in SUBSET Readers, readers \in SUBSET Readers
  PROVE  /\ Freed(s, H).pc = call[s].pc
         /\ call[s].pc \notin StatusCalls => Freed(s, H) = call[s]
         /\ call[s].pc \in StatusCalls =>
              Freed(s, H) \in StatusCall /\ IsFreed(Freed(s, H), call[s], H)
<1>1. CASE call[s].pc \notin StatusCalls
  BY <1>1 DEF Freed
<1>2. CASE call[s].pc \in StatusCalls
  <2> DEFINE c == call[s]
             sr == Mark(c.sr, c.names[c.i], H)
             real == [k \in DOMAIN c.real |->
                        [c.real[k] EXCEPT !.from = Mark(c.real[k].from, c.real[k].name, H)]]
             moved == c.moved \union (readers \ H) \union (H \ readers)
             d == [c EXCEPT !.sr = sr, !.real = real, !.moved = moved]
  <2>1. c \in StatusCall
    BY <1>2, CallCases
  <2>2. Freed(s, H) = d
    BY <1>2 DEF Freed
  <2>3. c.real \in Seq(Entries) /\ c.sr \in Froms /\ c.moved \in SUBSET Readers
    BY <2>1 DEF StatusCall, Froms
  <2>4. \A from \in Froms : \A name : Mark(from, name, H) \in Froms
    BY DEF Mark, Froms
  <2>5. \A k \in DOMAIN c.real :
          /\ real[k] \in Entries
          /\ real[k].name = c.real[k].name /\ real[k].state = c.real[k].state
          /\ real[k].from = Mark(c.real[k].from, c.real[k].name, H)
    <3> TAKE k \in DOMAIN c.real
    <3>1. c.real[k] \in Entries
      BY <2>3
    <3>2. Mark(c.real[k].from, c.real[k].name, H) \in Froms
      BY <2>4, <3>1 DEF Entries, Froms
    <3> QED BY <3>1, <3>2 DEF Entries, Froms
  <2>6. real \in Seq(Entries) /\ DOMAIN real = DOMAIN c.real
    <3>1. PICK n \in Nat : DOMAIN c.real = 1..n
      BY <2>3
    <3>2. real \in [1..n -> Entries]
      BY <2>5, <3>1
    <3> QED BY <3>1, <3>2, SeqDef
  <2>7. sr \in Froms /\ moved \in SUBSET Readers
    BY <2>3, <2>4
  <2> HIDE DEF sr, real, moved
  <2>8. d \in StatusCall
    BY <2>1, <2>6, <2>7 DEF StatusCall, Froms
  <2>9. /\ d.pc = c.pc /\ d.names = c.names /\ d.states = c.states /\ d.i = c.i
        /\ d.sr = sr /\ d.real = real /\ d.moved = moved
    BY <2>1 DEF StatusCall
  <2>10. IsFreed(d, c, H)
    BY <2>5, <2>6, <2>9 DEF IsFreed, sr, moved
  <2> QED BY <1>2, <2>2, <2>8, <2>9, <2>10
<1> QED BY <1>1, <1>2

\* The loops stay within the elements.
LEMMA NextElementForm ==
  ASSUME NEW c \in StatusCall, FormOf(c), NEW again \in StatusCalls, NEW done,
         done \in StatusCalls \/ c.i < Len(c.names)
  PROVE  NextElement(c, again, done) \in StatusCall /\ FormOf(NextElement(c, again, done))
<1> DEFINE d == NextElement(c, again, done)
           last == c.i = Len(c.names)
           i == IF last THEN 1 ELSE c.i + 1
           place == IF last THEN done ELSE again
<1>1. c.names \in Seq(Names) /\ c.i \in 1..Len(c.names)
  BY DEF StatusCall, FormOf
<1>2. i \in 1..Len(c.names) /\ i \in Nat
  BY <1>1
<1>3. place \in StatusCalls
  BY <1>1
<1>4. d = [c EXCEPT !.i = i, !.pc = place, !.sr = "caller"]
  BY DEF NextElement, StatusCall
<1> HIDE DEF i, place, d
<1>5. d \in StatusCall
  BY <1>2, <1>3, <1>4 DEF StatusCall
<1>6. d.i = i /\ d.names = c.names /\ d.states = c.states
  BY <1>4 DEF StatusCall
<1> QED BY <1>1, <1>2, <1>5, <1>6 DEF FormOf, d

\* The name to look for is the caller's or that of a virtual reader's physical one.
LEMMA NameType ==
  ASSUME NEW c \in StatusCall, FormOf(c)
  PROVE  /\ hardReaderName(c) \in Entries
         /\ hardReaderName(c).from = c.sr
         /\ hardReaderName(c).name = IF c.sr = "caller" THEN c.names[c.i]
                                     ELSE Hard(c.names[c.i].hard)
<1>1. c.names[c.i] \in Names /\ c.states[c.i] \in States /\ c.sr \in Froms
  BY DEF StatusCall, FormOf, Froms
<1>2. Hard(c.names[c.i].hard) \in Names
  BY <1>1 DEF Hard, Names
<1> QED BY <1>1, <1>2 DEF hardReaderName, Entries, Froms

LEMMA InitTypes == Init => TypeOK /\ FormInv
<1> SUFFICES ASSUME Init PROVE TypeOK /\ FormInv
  OBVIOUS
<1>1. call \in [Threads -> Call] /\ result \in {Idle}
  BY CallType DEF Init, Idle
<1>2. asked \in [names : SUBSET Readers, length : Nat]
  BY DEF Init
<1>3. FormInv
  BY DEF Init, FormInv, Idle, StatusCalls
<1> QED BY <1>1, <1>2, <1>3 DEF Init, TypeOK

\* A step of one status call, which goes on.
LEMMA ContinueTypes ==
  ASSUME TypeOK, FormInv, NEW t \in Threads, NEW c \in StatusCall, FormOf(c), Continue(t, c)
  PROVE  TypeOK' /\ FormInv'
<1>1. c \in Call
  BY CallType
<1>2. call' = [call EXCEPT ![t] = c] /\ result' = Idle
      /\ UNCHANGED <<present, fileSize, readers, asked>>
  BY DEF Continue
<1>3. call' \in [Threads -> Call]
  BY <1>1, <1>2 DEF TypeOK
<1>4. TypeOK'
  BY <1>2, <1>3 DEF TypeOK
<1>5. \A s \in Threads : call'[s] = IF s = t THEN c ELSE call[s]
  BY <1>2 DEF TypeOK
<1>6. FormInv'
  <2> SUFFICES ASSUME NEW s \in Threads, call'[s].pc \in StatusCalls PROVE FormOf(call'[s])
    BY DEF FormInv
  <2> QED BY <1>5 DEF FormInv
<1> QED BY <1>4, <1>6

\* The new call of each step of a status call.
Begun(names, states) ==
  [pc |-> "finding", names |-> names, states |-> states, real |-> <<>>,
   i |-> 1, sr |-> "caller", moved |-> {}]

Found(c) ==
  [c EXCEPT !.sr = IF getSoftReaderByName(c.names[c.i]) THEN "reader" ELSE "caller",
            !.pc = IF @ = "finding" THEN "adding" ELSE "updating"]

Added(c, real) == [c EXCEPT !.real = real]

Asked(c, real) == [c EXCEPT !.pc = "refinding", !.real = real]

Updated(c, state) == [c EXCEPT !.states[c.i] = state]

LEMMA BegunForm ==
  ASSUME NEW a \in Arrays
  PROVE  Begun(a.names, a.states) \in StatusCall /\ FormOf(Begun(a.names, a.states))
<1>1. /\ a.names \in Seq(Names) /\ a.names # <<>>
      /\ a.states \in [DOMAIN a.names -> States]
  BY ArraysAssumption
<1>2. Len(a.names) \in Nat /\ Len(a.names) # 0 /\ DOMAIN a.names = 1..Len(a.names)
  BY <1>1, EmptySeq
<1>3. 1 \in DOMAIN a.names
  BY <1>2
<1>4. a.states \in Seq(States)
  BY <1>1, <1>2, SeqDef
<1>5. <<>> \in Seq(Entries)
  OBVIOUS
<1> QED BY <1>1, <1>3, <1>4, <1>5 DEF Begun, StatusCall, StatusCalls, FormOf

LEMMA FoundForm ==
  ASSUME NEW c \in StatusCall, FormOf(c), c.pc \in {"finding", "refinding"}
  PROVE  /\ Found(c) \in StatusCall /\ FormOf(Found(c))
         /\ Found(c).pc = IF c.pc = "finding" THEN "adding" ELSE "updating"
         /\ Found(c).sr = IF getSoftReaderByName(c.names[c.i]) THEN "reader" ELSE "caller"
         /\ Found(c).names = c.names /\ Found(c).states = c.states /\ Found(c).i = c.i
         /\ Found(c).real = c.real /\ Found(c).moved = c.moved
<1> DEFINE sr == IF getSoftReaderByName(c.names[c.i]) THEN "reader" ELSE "caller"
           place == IF c.pc = "finding" THEN "adding" ELSE "updating"
<1>1. sr \in Froms /\ place \in StatusCalls
  BY DEF Froms, StatusCalls
<1>2. Found(c) = [c EXCEPT !.sr = sr, !.pc = place]
  BY DEF Found, StatusCall
<1> HIDE DEF sr, place
<1>3. Found(c) \in StatusCall /\ Found(c).sr = sr /\ Found(c).pc = place
      /\ Found(c).names = c.names /\ Found(c).states = c.states /\ Found(c).i = c.i
      /\ Found(c).real = c.real /\ Found(c).moved = c.moved
  BY <1>1, <1>2 DEF StatusCall, Froms
<1> QED BY <1>3 DEF FormOf, sr, place

LEMMA AddedForm ==
  ASSUME NEW c \in StatusCall, FormOf(c), NEW k
  PROVE  LET real == IF k = 0 THEN Append(c.real, hardReaderName(c)) ELSE c.real
         IN  /\ real \in Seq(Entries)
             /\ Added(c, real) \in StatusCall /\ FormOf(Added(c, real))
<1> DEFINE real == IF k = 0 THEN Append(c.real, hardReaderName(c)) ELSE c.real
<1>1. real \in Seq(Entries)
  BY NameType DEF StatusCall
<1> HIDE DEF real
<1>2. Added(c, real) \in StatusCall /\ FormOf(Added(c, real))
  BY <1>1 DEF Added, StatusCall, FormOf
<1> QED BY <1>1, <1>2 DEF real

LEMMA AskedForm ==
  ASSUME NEW c \in StatusCall, FormOf(c), NEW real \in Seq(Entries)
  PROVE  /\ Asked(c, real) \in StatusCall /\ FormOf(Asked(c, real))
         /\ Asked(c, real).pc = "refinding" /\ Asked(c, real).real = real
         /\ Asked(c, real).names = c.names /\ Asked(c, real).states = c.states
         /\ Asked(c, real).i = c.i /\ Asked(c, real).moved = c.moved
BY DEF Asked, StatusCall, FormOf, StatusCalls

LEMMA UpdatedForm ==
  ASSUME NEW c \in StatusCall, FormOf(c), NEW state \in States
  PROVE  /\ Updated(c, state) \in StatusCall /\ FormOf(Updated(c, state))
         /\ Updated(c, state).pc = c.pc /\ Updated(c, state).names = c.names
         /\ Updated(c, state).real = c.real /\ Updated(c, state).i = c.i
         /\ Updated(c, state).moved = c.moved
         /\ Updated(c, state).states = [c.states EXCEPT ![c.i] = state]
<1> DEFINE states == [c.states EXCEPT ![c.i] = state]
<1>1. states \in Seq(States) /\ DOMAIN states = DOMAIN c.states
  BY DEF StatusCall, FormOf
<1>2. Updated(c, state) = [c EXCEPT !.states = states]
  BY DEF Updated, StatusCall
<1> HIDE DEF states
<1>3. Updated(c, state) \in StatusCall
  BY <1>1, <1>2 DEF StatusCall
<1>4. /\ Updated(c, state).states = states
      /\ Updated(c, state).pc = c.pc /\ Updated(c, state).names = c.names
      /\ Updated(c, state).real = c.real /\ Updated(c, state).i = c.i
      /\ Updated(c, state).moved = c.moved
  BY <1>2 DEF StatusCall
<1> QED BY <1>1, <1>3, <1>4 DEF FormOf, states

\* pSCardGetStatusChange() changes nothing but the states of the names.
LEMMA AskedStep ==
  ASSUME NEW t \in Threads, pSCardGetStatusChange(t), call[t] \in StatusCall
  PROVE  \E real \in Seq(Entries) :
           /\ Continue(t, Asked(call[t], real))
           /\ DOMAIN real = DOMAIN call[t].real
           /\ \A k \in DOMAIN real : /\ real[k].name = call[t].real[k].name
                                     /\ real[k].from = call[t].real[k].from
<1> DEFINE old == call[t].real
<1>1. old \in Seq(Entries)
  BY DEF StatusCall
<1>2. PICK real : /\ \/ real = old
                     \/ \E answer \in [DOMAIN old -> States] :
                          real = [k \in DOMAIN old |-> [old[k] EXCEPT !.state = answer[k]]]
                  /\ Continue(t, Asked(call[t], real))
  BY DEF pSCardGetStatusChange, Asked
<1> HIDE DEF old
<1>3. CASE real = old
  BY <1>1, <1>2, <1>3 DEF old
<1>4. ASSUME NEW answer \in [DOMAIN old -> States],
             real = [k \in DOMAIN old |-> [old[k] EXCEPT !.state = answer[k]]]
      PROVE  /\ real \in Seq(Entries) /\ DOMAIN real = DOMAIN old
             /\ \A k \in DOMAIN old : real[k].name = old[k].name /\ real[k].from = old[k].from
  <2>1. \A k \in DOMAIN old : real[k] = [old[k] EXCEPT !.state = answer[k]]
    BY <1>4
  <2>2. \A k \in DOMAIN old : old[k] \in Entries /\ answer[k] \in States
    BY <1>1
  <2>3. \A k \in DOMAIN old : real[k] \in Entries
    BY <2>1, <2>2 DEF Entries
  <2>4. real \in [DOMAIN old -> Entries]
    BY <1>4, <2>3
  <2>5. \A k \in DOMAIN old : real[k].name = old[k].name /\ real[k].from = old[k].from
    BY <2>1, <2>2 DEF Entries
  <2>6. PICK n \in Nat : DOMAIN old = 1..n
    BY <1>1
  <2> QED BY <2>4, <2>5, <2>6, SeqDef
<1> QED BY <1>2, <1>3, <1>4 DEF old

\* What GetState() may find: an element with that name, or none.
LEMMA GetStateType ==
  ASSUME NEW real \in Seq(Entries), NEW e, NEW k \in GetState(real, e)
  PROVE  k = 0 \/ (k \in DOMAIN real /\ real[k].state \in States)
<1>1. k = 0 \/ k \in DOMAIN real
  BY DEF GetState
<1>2. \A j \in DOMAIN real : real[j].state \in States
  <2>1. \A j \in DOMAIN real : real[j] \in Entries
    OBVIOUS
  <2> QED BY <2>1 DEF Entries
<1> QED BY <1>1, <1>2

LEMMA VisibilityType == Visibilities \subseteq ListReaderOrder
<1>1. \A f \in ListReaderOrder \union {NULL} : getVisibility(f) \in ListReaderOrder
  BY DEF getVisibility, ListReaderOrder
<1> QED BY <1>1 DEF Visibilities

\* The steps of a status call: it goes on, or returns.
StatusStep(t) ==
  \/ \E a \in Arrays : GetStatusChange(t, a.names, a.states)
  \/ FindReader(t) \/ AddState(t) \/ pSCardGetStatusChange(t) \/ UpdateStates(t)

GoesOn(t) == \E c \in StatusCall : FormOf(c) /\ Continue(t, c)

Return(t) ==
  /\ call' = [call EXCEPT ![t] = Idle] /\ result' \in StatusCall /\ result'.pc = "updating"
  /\ UNCHANGED <<present, fileSize, readers, asked>>

LEMMA StatusSteps ==
  ASSUME TypeOK, FormInv, NEW t \in Threads, StatusStep(t)
  PROVE  GoesOn(t) \/ Return(t)
<1>0. call[t] \in Call
  BY DEF TypeOK
<1>s. ASSUME call[t].pc \in StatusCalls PROVE call[t] \in StatusCall /\ FormOf(call[t])
  BY <1>0, <1>s, CallCases DEF FormInv
<1>1. ASSUME NEW a \in Arrays, GetStatusChange(t, a.names, a.states) PROVE GoesOn(t)
  <2>1. Continue(t, Begun(a.names, a.states))
    BY <1>1 DEF GetStatusChange, Begun
  <2> QED BY <2>1, BegunForm DEF GoesOn
<1>2. CASE FindReader(t)
  <2>1. call[t].pc \in {"finding", "refinding"} /\ Continue(t, Found(call[t]))
    BY <1>2 DEF FindReader, Found
  <2>2. call[t] \in StatusCall /\ FormOf(call[t])
    BY <1>s, <2>1 DEF StatusCalls
  <2> QED BY <2>1, <2>2, FoundForm DEF GoesOn
<1>3. CASE AddState(t)
  <2> DEFINE c == call[t]
             real(k) == IF k = 0 THEN Append(c.real, hardReaderName(c)) ELSE c.real
  <2>1. c.pc = "adding"
    BY <1>3 DEF AddState
  <2>2. c \in StatusCall /\ FormOf(c)
    BY <1>s, <2>1 DEF StatusCalls
  <2>3. PICK k : Continue(t, NextElement(Added(c, real(k)), "finding", "waiting"))
    BY <1>3, <2>2 DEF AddState, Added, StatusCall
  <2>4. Added(c, real(k)) \in StatusCall /\ FormOf(Added(c, real(k)))
    BY <2>2, AddedForm
  <2> HIDE DEF real
  <2> DEFINE d == Added(c, real(k))
  <2>5. d \in StatusCall /\ FormOf(d)
    BY <2>4
  <2> HIDE DEF d, c
  <2>6. /\ NextElement(d, "finding", "waiting") \in StatusCall
        /\ FormOf(NextElement(d, "finding", "waiting"))
    BY <2>5, NextElementForm DEF StatusCalls
  <2>7. Continue(t, NextElement(d, "finding", "waiting"))
    BY <2>3 DEF d
  <2> QED BY <2>6, <2>7 DEF GoesOn
<1>4. CASE pSCardGetStatusChange(t)
  <2>1. call[t].pc = "waiting"
    BY <1>4 DEF pSCardGetStatusChange
  <2>2. call[t] \in StatusCall /\ FormOf(call[t])
    BY <1>s, <2>1 DEF StatusCalls
  <2>3. PICK real \in Seq(Entries) : Continue(t, Asked(call[t], real))
    BY <1>4, <2>2, AskedStep
  <2> QED BY <2>2, <2>3, AskedForm DEF GoesOn
<1>5. CASE UpdateStates(t)
  <2> DEFINE c == call[t]
  <2>1. c.pc = "updating"
    BY <1>5 DEF UpdateStates
  <2>2. c \in StatusCall /\ FormOf(c)
    BY <1>s, <2>1 DEF StatusCalls
  <2>3. PICK k \in GetState(c.real, hardReaderName(c)) :
          Update(t, IF k = 0 THEN c.states[c.i] ELSE c.real[k].state)
    BY <1>5 DEF UpdateStates
  <2> DEFINE state == IF k = 0 THEN c.states[c.i] ELSE c.real[k].state
             d == Updated(c, state)
  <2>4. state \in States
    <3>1. c.real \in Seq(Entries) /\ c.states[c.i] \in States
      BY <2>2 DEF StatusCall, FormOf
    <3> QED BY <3>1, GetStateType
  <2>5. Update(t, state)
    BY <2>3
  <2> HIDE DEF state
  <2>6. d \in StatusCall /\ FormOf(d) /\ d.i = c.i /\ d.names = c.names
        /\ d.pc = c.pc
    BY <2>2, <2>4, UpdatedForm
  <2>7. CASE c.i < Len(c.names)
    <3>1. Continue(t, NextElement(d, "refinding", "returned"))
      BY <2>5, <2>7 DEF Update, Updated
    <3>2. d.i < Len(d.names)
      BY <2>6, <2>7
    <3> HIDE DEF d, c
    <3>3. /\ NextElement(d, "refinding", "returned") \in StatusCall
          /\ FormOf(NextElement(d, "refinding", "returned"))
      BY <2>6, <3>2, NextElementForm DEF StatusCalls
    <3> QED BY <3>1, <3>3 DEF GoesOn
  <2>8. CASE ~(c.i < Len(c.names))
    <3>1. call' = [call EXCEPT ![t] = Idle] /\ result' = d
          /\ UNCHANGED <<present, fileSize, readers, asked>>
      BY <2>5, <2>8 DEF Update, Updated
    <3> HIDE DEF d
    <3> QED BY <2>1, <2>6, <3>1 DEF Return
  <2> QED BY <2>7, <2>8
<1> QED BY <1>1, <1>2, <1>3, <1>4, <1>5 DEF StatusStep

LEMMA NextTypes == ASSUME TypeOK, FormInv, [Next]_vars PROVE TypeOK' /\ FormInv'
<1>0. /\ \A t \in Threads : call[t] \in Call
      /\ call \in [Threads -> Call]
      /\ readers \in SUBSET Readers /\ present \in SUBSET Readers
      /\ asked \in [names : SUBSET Readers, length : Nat]
  BY DEF TypeOK
<1>1. ASSUME NEW t \in Threads, ListReadersLength(t) PROVE TypeOK' /\ FormInv'
  <2>1. PICK found \in SUBSET Readers :
          asked' = [names |-> present, length |-> calcListReadersLength(found)]
    BY <1>0, <1>1 DEF ListReadersLength
  <2>2. asked' \in [names : SUBSET Readers, length : Nat]
    BY <1>0, <2>1, CalcType
  <2> QED BY <1>1, <2>2 DEF ListReadersLength, TypeOK, FormInv
<1>2. ASSUME NEW t \in Threads, ListReadersAllocated(t) \/ ListReadersBuffer(t)
      PROVE  TypeOK' /\ FormInv'
  <2>1. CASE \E c \in Listing : call' = [call EXCEPT ![t] = c]
    <3>1. PICK c \in Listing : call' = [call EXCEPT ![t] = c]
      BY <2>1
    <3>2. call' \in [Threads -> Call]
      BY <1>0, <3>1, CallType
    <3>3. c.pc \notin StatusCalls
      BY DEF Listing, StatusCalls
    <3>4. \A s \in Threads : call'[s] = IF s = t THEN c ELSE call[s]
      BY <1>0, <3>1
    <3>5. FormInv'
      <4> SUFFICES ASSUME NEW s \in Threads, call'[s].pc \in StatusCalls PROVE FormOf(call'[s])
        BY DEF FormInv
      <4> QED BY <3>3, <3>4 DEF FormInv
    <3> QED BY <1>2, <3>2, <3>5 DEF ListReadersAllocated, ListReadersBuffer, TypeOK
  <2>2. CASE call' = [s \in Threads |-> Crashed]
    <3>1. call' \in [Threads -> Call]
      BY <2>2, CallType
    <3>2. FormInv'
      BY <2>2 DEF FormInv, Crashed, StatusCalls
    <3> QED BY <1>2, <3>1, <3>2 DEF ListReadersAllocated, ListReadersBuffer, TypeOK
  <2>3. CASE ListReadersAllocated(t)
    BY <1>0, <2>1, <2>2, <2>3, CalcType DEF ListReadersAllocated, Enter, Listing
  <2>4. CASE ListReadersBuffer(t)
    <3> DEFINE room == IF present \subseteq asked.names THEN asked.length ELSE NULL
               c == [pc |-> "listing", names |-> present, room |-> room]
    <3>1. call' = [call EXCEPT ![t] = c]
      BY <2>4 DEF ListReadersBuffer, Enter
    <3>2. room \in Nat \union {NULL}
      BY <1>0
    <3> HIDE DEF room
    <3>3. c \in Listing
      BY <1>0, <3>2 DEF Listing
    <3> HIDE DEF c
    <3> QED BY <2>1, <3>1, <3>3
  <2> QED BY <1>2, <2>3, <2>4
<1>3. ASSUME NEW t \in Threads, NEW order \in Visibilities, createSoftReaders(t, order)
      PROVE  TypeOK' /\ FormInv'
  <2> DEFINE H == call[t].names
  <2>1. order \in ListReaderOrder
    BY VisibilityType
  <2>2. call[t] \in Listing
    BY <1>0, <1>3, CallCases DEF createSoftReaders
  <2>4. H \in SUBSET Readers
    BY <2>2 DEF Listing
  <2>5. returnListNames(H, order) \in Seq(Names)
    BY <2>1, <2>4, ReturnedNames
  <2>6. /\ readers' = H /\ UNCHANGED <<present, fileSize, asked>>
        /\ result' = [pc |-> "listing", names |-> returnListNames(H, order), order |-> order,
                      fits |-> call[t].room # NULL =>
                                 MultiString(ToSet(returnListNames(H, order))) <= call[t].room]
        /\ call' = [s \in Threads |-> IF s = t THEN Idle ELSE Freed(s, H)]
    BY <1>3 DEF createSoftReaders
  <2>7. result' \in [pc : {"listing"}, names : Seq(Names), order : ListReaderOrder, fits : BOOLEAN]
    <3> DEFINE fits == call[t].room # NULL =>
                         MultiString(ToSet(returnListNames(H, order))) <= call[t].room
    <3>1. fits \in BOOLEAN
      OBVIOUS
    <3> HIDE DEF fits, H
    <3>2. result' = [pc |-> "listing", names |-> returnListNames(H, order), order |-> order,
                     fits |-> fits]
      BY <2>6 DEF fits, H
    <3> QED BY <2>1, <2>5, <3>1, <3>2, Zenon
  <2> HIDE DEF H
  <2>8. ASSUME NEW s \in Threads PROVE Freed(s, H) \in Call
    BY <1>0, <2>4, FreedCall, CallType
  <2>9. call' \in [Threads -> Call]
    <3>1. Idle \in Call
      BY CallType
    <3> QED BY <2>6, <2>8, <3>1
  <2>10. ASSUME NEW s \in Threads, call'[s].pc \in StatusCalls PROVE FormOf(call'[s])
    <3>1. s # t /\ call'[s] = Freed(s, H)
      BY <2>6, <2>10 DEF Idle, StatusCalls
    <3>2. call[s].pc \in StatusCalls /\ IsFreed(Freed(s, H), call[s], H)
      BY <1>0, <2>4, <2>10, <3>1, FreedCall
    <3>3. FormOf(call[s])
      BY <3>2 DEF FormInv
    <3> QED BY <3>1, <3>2, <3>3 DEF FormOf, IsFreed
  <2>11. readers' \in SUBSET Readers
    BY <2>4, <2>6
  <2> QED BY <2>6, <2>7, <2>9, <2>10, <2>11 DEF TypeOK, FormInv
<1>4. ASSUME NEW t \in Threads, StatusStep(t) PROVE TypeOK' /\ FormInv'
  <2>1. CASE GoesOn(t)
    BY <2>1, ContinueTypes DEF GoesOn
  <2>2. CASE Return(t)
    <3>1. call' = [call EXCEPT ![t] = Idle] /\ result' \in StatusCall
          /\ UNCHANGED <<present, fileSize, readers, asked>>
      BY <2>2 DEF Return
    <3>2. call' \in [Threads -> Call]
      BY <1>0, <3>1, CallType
    <3>3. \A s \in Threads : call'[s] = IF s = t THEN Idle ELSE call[s]
      BY <1>0, <3>1
    <3>4. FormInv'
      <4> SUFFICES ASSUME NEW s \in Threads, call'[s].pc \in StatusCalls PROVE FormOf(call'[s])
        BY DEF FormInv
      <4> QED BY <3>3 DEF FormInv, Idle, StatusCalls
    <3> QED BY <3>1, <3>2, <3>4 DEF TypeOK
  <2> QED BY <1>4, <2>1, <2>2, StatusSteps
<1>5. ASSUME NEW r \in Readers, Plug(r) PROVE TypeOK' /\ FormInv'
  BY <1>0, <1>5 DEF Plug, TypeOK, FormInv
<1>6. CASE UNCHANGED vars
  BY <1>6 DEF vars, TypeOK, FormInv
<1> QED BY <1>1, <1>2, <1>3, <1>4, <1>5, <1>6 DEF Next, StatusStep

-----------------------------------------------------------------------------
(* Buffers that are long enough *)

\* A length that was got is that of the readers there were, and a list that should fit
\* has been given a buffer for at least its readers.
LengthInv ==
  /\ asked.names # {} => asked.length = calcListReadersLength(asked.names)
  /\ \A t \in Threads : call[t].pc = "listing" /\ call[t].room # NULL =>
       calcListReadersLength(call[t].names) <= call[t].room
  /\ result.pc = "listing" => result.fits

LEMMA InitLength == Init => LengthInv
  BY DEF Init, LengthInv, Idle

\* A step that begins no list, or one with a long enough buffer.
LEMMA OtherLength ==
  ASSUME LengthInv, result'.pc = "listing" => result'.fits, asked' = asked,
         \A t \in Threads : call'[t].pc = "listing" /\ call'[t].room # NULL =>
            \/ call'[t] = call[t]
            \/ calcListReadersLength(call'[t].names) <= call'[t].room
  PROVE  LengthInv'
BY DEF LengthInv

\* A step of a status call.
LEMMA ContinueLength ==
  ASSUME TypeOK, LengthInv, NEW t \in Threads, NEW c \in StatusCall, Continue(t, c)
  PROVE  LengthInv'
<1>1. c.pc # "listing"
  BY DEF StatusCall, StatusCalls
<1>2. \A s \in Threads : call'[s] = IF s = t THEN c ELSE call[s]
  BY DEF Continue, TypeOK
<1>3. asked' = asked /\ result'.pc # "listing"
  BY DEF Continue, Idle
<1> QED BY <1>1, <1>2, <1>3, OtherLength

LEMMA NextLength == ASSUME TypeOK, FormInv, LengthInv, [Next]_vars PROVE LengthInv'
<1>0. /\ DOMAIN call = Threads /\ \A t \in Threads : call[t] \in Call
      /\ readers \in SUBSET Readers /\ present \in SUBSET Readers
      /\ asked.names \in SUBSET Readers
  BY DEF TypeOK
<1>1. ASSUME NEW t \in Threads, ListReadersLength(t) PROVE LengthInv'
  <2>1. asked'.names # {} => asked'.length = calcListReadersLength(asked'.names)
    BY <1>1 DEF ListReadersLength
  <2>2. call' = call /\ result' = Idle
    BY <1>1 DEF ListReadersLength
  <2> QED BY <2>1, <2>2 DEF LengthInv, Idle
<1>2. ASSUME NEW t \in Threads, ListReadersAllocated(t) PROVE LengthInv'
  <2>1. result' = Idle /\ asked' = asked
    BY <1>2 DEF ListReadersAllocated
  <2>2. CASE present # {}
    <3>1. calcListReadersLength(present) <= calcListReadersLength(present)
      BY <1>0, LengthGrows
    <3>2. \A s \in Threads : call'[s].pc = "listing" /\ call'[s].room # NULL =>
              \/ call'[s] = call[s]
              \/ calcListReadersLength(call'[s].names) <= call'[s].room
      BY <1>0, <1>2, <2>2, <3>1 DEF ListReadersAllocated, Enter
    <3> QED BY <2>1, <3>2, OtherLength DEF Idle
  <2>3. CASE present = {}
    <3>1. \A s \in Threads : call'[s].pc # "listing"
      BY <1>2, <2>3 DEF ListReadersAllocated, Crashed
    <3> QED BY <2>1, <3>1, OtherLength DEF Idle
  <2> QED BY <2>2, <2>3
<1>3. ASSUME NEW t \in Threads, ListReadersBuffer(t) PROVE LengthInv'
  <2>1. present \subseteq asked.names => calcListReadersLength(present) <= asked.length
    <3>1. present # {}
      BY <1>3 DEF ListReadersBuffer
    <3>2. present \subseteq asked.names =>
            calcListReadersLength(present) <= calcListReadersLength(asked.names)
      BY <1>0, LengthGrows
    <3> QED BY <3>1, <3>2 DEF LengthInv
  <2>2. \A s \in Threads : call'[s].pc = "listing" /\ call'[s].room # NULL =>
            \/ call'[s] = call[s]
            \/ calcListReadersLength(call'[s].names) <= call'[s].room
    <3> DEFINE room == IF present \subseteq asked.names THEN asked.length ELSE NULL
    <3>1. room # NULL => calcListReadersLength(present) <= room
      BY <2>1
    <3>2. call' = [call EXCEPT ![t] = [pc |-> "listing", names |-> present, room |-> room]]
      BY <1>3 DEF ListReadersBuffer, Enter
    <3> HIDE DEF room
    <3> QED BY <1>0, <3>1, <3>2
  <2>3. result' = Idle /\ asked' = asked
    BY <1>3 DEF ListReadersBuffer
  <2> QED BY <2>2, <2>3, OtherLength DEF Idle
<1>4. ASSUME NEW t \in Threads, NEW order \in Visibilities, createSoftReaders(t, order)
      PROVE  LengthInv'
  <2> DEFINE H == call[t].names
             names == returnListNames(H, order)
  <2>1. order \in ListReaderOrder
    BY VisibilityType
  <2>2. call[t] \in Listing
    BY <1>0, <1>4, CallCases DEF createSoftReaders
  <2>3. H \in SUBSET Readers /\ call[t].room \in Nat \union {NULL}
    BY <2>2 DEF Listing
  <2>4. ToSet(names) = Shown(H, order)
    BY <2>1, <2>3, ReturnedNames
  <2>5. ToSet(names) \in SUBSET All(H)
    BY <2>4 DEF Shown, All
  <2>6. MultiString(ToSet(names)) <= calcListReadersLength(H)
    BY <2>3, <2>5, ListFitsLength
  <2>7. MultiString(ToSet(names)) \in Nat /\ calcListReadersLength(H) \in Nat
    <3>1. ToSet(names) \in SUBSET Names /\ IsFiniteSet(ToSet(names))
      BY <2>5, NamesFinite, FS_Subset DEF All
    <3>2. SumFunctionOnSet(SizeOf, ToSet(names)) \in Nat
      BY <3>1, SizeType, SumParts
    <3> QED BY <2>3, <3>2, CalcType DEF MultiString, SizeOf
  <2>8. call[t].room # NULL => calcListReadersLength(H) <= call[t].room
    BY <1>4 DEF createSoftReaders, LengthInv
  <2>9. call[t].room # NULL => MultiString(ToSet(names)) <= call[t].room
    BY <2>3, <2>6, <2>7, <2>8
  <2>10. result'.fits
    BY <1>4, <2>9 DEF createSoftReaders
  <2>11. \A s \in Threads : call'[s].pc = "listing" => call'[s] = call[s]
    <3> SUFFICES ASSUME NEW s \in Threads, call'[s].pc = "listing" PROVE call'[s] = call[s]
      OBVIOUS
    <3>1. s # t /\ call'[s] = Freed(s, H)
      BY <1>4 DEF createSoftReaders, Idle
    <3>2. Freed(s, H).pc = call[s].pc
      BY <1>0, <2>3, FreedCall
    <3> QED BY <3>1, <3>2 DEF Freed, StatusCalls
  <2>12. asked' = asked
    BY <1>4 DEF createSoftReaders
  <2> QED BY <2>10, <2>11, <2>12, OtherLength
<1>5. ASSUME NEW t \in Threads, StatusStep(t) PROVE LengthInv'
  <2>1. CASE GoesOn(t)
    BY <2>1, ContinueLength DEF GoesOn
  <2>2. CASE Return(t)
    <3>1. \A s \in Threads : call'[s].pc = "listing" => call'[s] = call[s]
      BY <1>0, <2>2 DEF Return, Idle
    <3>2. asked' = asked /\ result'.pc # "listing"
      BY <2>2 DEF Return
    <3> QED BY <3>1, <3>2, OtherLength
  <2> QED BY <1>5, <2>1, <2>2, StatusSteps
<1>6. ASSUME NEW r \in Readers, Plug(r) PROVE LengthInv'
  BY <1>6, OtherLength DEF Plug, Idle
<1>7. CASE UNCHANGED vars
  BY <1>7 DEF vars, LengthInv
<1> QED BY <1>1, <1>2, <1>3, <1>4, <1>5, <1>6, <1>7 DEF Next, StatusStep

-----------------------------------------------------------------------------
(* Lists in order *)

LEMMA NextOrdered == ASSUME TypeOK, FormInv, ListOrdered, [Next]_vars PROVE ListOrdered'
<1>1. CASE result' = Idle \/ result' = result
  BY <1>1 DEF ListOrdered, Idle, LooksSoft
<1>2. ASSUME NEW t \in Threads, NEW order \in Visibilities, createSoftReaders(t, order)
      PROVE  ListOrdered'
  <2>1. order \in ListReaderOrder
    BY VisibilityType
  <2>2. call[t] \in Call
    BY DEF TypeOK
  <2>3. call[t] \in Listing
    BY <1>2, <2>2, CallCases DEF createSoftReaders
  <2>4. call[t].names \in SUBSET Readers
    BY <2>3 DEF Listing
  <2>5. InOrder(returnListNames(call[t].names, order), order)
    BY <2>1, <2>4, ReturnedInOrder
  <2>6. InOrder(result'.names, result'.order)
    BY <1>2, <2>5 DEF createSoftReaders
  <2> QED BY <2>6 DEF InOrder, ListOrdered, LooksSoft
<1>3. ASSUME NEW t \in Threads, StatusStep(t) PROVE ListOrdered'
  <2>1. CASE GoesOn(t)
    BY <1>1, <2>1 DEF GoesOn, Continue
  <2>2. CASE Return(t)
    BY <2>2 DEF Return, ListOrdered
  <2> QED BY <1>3, <2>1, <2>2, StatusSteps
<1> QED
  BY <1>1, <1>2, <1>3
     DEF Next, vars, ListReadersLength, ListReadersAllocated, ListReadersBuffer, Plug, StatusStep

-----------------------------------------------------------------------------
(* Status calls *)

\* The name that the PC/SC library knows an element's reader by, with these soft readers.
Target(R, n) == IF n.soft /\ n.hard \in R THEN Hard(n.hard) ELSE n

Excused(c, n) == n.soft /\ n.hard \in c.moved

\* No name is twice in realReaderStates, of those that can still be read.
Distinct(real) ==
  \A j, k \in DOMAIN real :
    real[j].from # "deleted" /\ real[k].from # "deleted" /\ real[j].name = real[k].name => j = k

\* A search for this name ends at it or at freed memory; and the element has got its state.
Findable(real, name) == Blurred(real, name) \/ Places(real, name) # {}
Answered(c, name, i) ==
  Blurred(c.real, name) \/ \E k \in Places(c.real, name) : c.states[i] = c.real[k].state

\* The reader that was looked up last is still there, or has been made or deleted since.
PointsTo(R, c) ==
  LET n == c.names[c.i]
  IN /\ c.sr # "caller" => n.soft
     /\ \/ Excused(c, n)
        \/ c.sr # "deleted" /\ hardReaderName(c).name = Target(R, n)

\* The elements before i have been asked for in the first loop and answered in the second.
StatusOf(R, c) ==
  /\ Distinct(c.real)
  /\ c.pc = "waiting" => c.i = 1
  /\ c.pc \in {"adding", "updating"} => PointsTo(R, c)
  /\ \A j \in DOMAIN c.names :
       \/ Excused(c, c.names[j])
       \/ /\ \/ c.pc \in {"finding", "adding"} /\ c.i <= j
             \/ Findable(c.real, Target(R, c.names[j]))
          /\ c.pc \in {"refinding", "updating"} /\ j < c.i =>
               Answered(c, Target(R, c.names[j]), j)

AnswerInv ==
  /\ \A t \in Threads : call[t].pc \in StatusCalls => StatusOf(readers, call[t])
  /\ StatusReported

\* What a list leaves of the names: those that it does not free, and freed memory.
LEMMA FreedFinds ==
  ASSUME NEW c, NEW d, NEW H, IsFreed(d, c, H), c.real \in Seq(Entries), NEW name
  PROVE  /\ Places(d.real, name) \subseteq Places(c.real, name)
         /\ Blurred(c.real, name) => Blurred(d.real, name)
         /\ Distinct(c.real) => Distinct(d.real)
         /\ \A k \in Places(c.real, name) :
              k \in Places(d.real, name) \/ (Distinct(c.real) => Blurred(d.real, name))
<1>1. /\ DOMAIN d.real = DOMAIN c.real
      /\ \A k \in DOMAIN c.real :
           /\ d.real[k].name = c.real[k].name
           /\ d.real[k].from = c.real[k].from \/ d.real[k].from = "deleted"
  BY DEF IsFreed, Mark
<1>2. Places(d.real, name) \subseteq Places(c.real, name)
  BY <1>1 DEF Places
<1>3. Blurred(c.real, name) => Blurred(d.real, name)
  BY <1>1, <1>2 DEF Blurred
<1>4. Distinct(c.real) => Distinct(d.real)
  BY <1>1 DEF Distinct
<1>5. ASSUME NEW k \in Places(c.real, name), k \notin Places(d.real, name), Distinct(c.real)
      PROVE  Blurred(d.real, name)
  <2>1. k \in DOMAIN d.real /\ d.real[k].from = "deleted"
    BY <1>1, <1>5 DEF Places
  <2>2. PICK n \in Nat : DOMAIN c.real = 1..n
    OBVIOUS
  <2>3. ASSUME NEW j \in 1..(k - 1) PROVE j \notin Places(c.real, name)
    <3>1. j # k
      BY <2>1, <2>2, <1>1
    <3> QED BY <1>5, <3>1 DEF Places, Distinct
  <2> QED BY <1>2, <2>1, <2>3 DEF Blurred
<1> QED BY <1>2, <1>3, <1>4, <1>5

\* Another name at the end.
LEMMA AppendFinds ==
  ASSUME NEW real \in Seq(Entries), NEW e \in Entries, NEW name
  PROVE  /\ Places(real, name) \subseteq Places(Append(real, e), name)
         /\ Blurred(real, name) => Blurred(Append(real, e), name)
         /\ e.from # "deleted" => Places(Append(real, e), e.name) # {}
         /\ Distinct(real) /\ (\A j \in DOMAIN real : ~Same(real[j], e)) =>
              Distinct(Append(real, e))
<1> DEFINE d == Append(real, e)
<1>1. /\ Len(real) \in Nat /\ DOMAIN real = 1..Len(real)
      /\ DOMAIN d = 1..(Len(real) + 1) /\ d[Len(real) + 1] = e
      /\ \A k \in DOMAIN real : k \in DOMAIN d /\ d[k] = real[k]
  OBVIOUS
<1> HIDE DEF d
<1>2. Places(real, name) \subseteq Places(d, name)
  BY <1>1 DEF Places
<1>3. ASSUME Blurred(real, name) PROVE Blurred(d, name)
  <2>1. PICK k \in DOMAIN real :
          real[k].from = "deleted" /\ \A j \in 1..(k - 1) : j \notin Places(real, name)
    BY <1>3 DEF Blurred
  <2>2. ASSUME NEW j \in 1..(k - 1) PROVE j \notin Places(d, name)
    <3>1. j \in DOMAIN real
      BY <1>1
    <3> QED BY <1>1, <2>1, <3>1 DEF Places
  <2>3. k \in DOMAIN d /\ d[k].from = "deleted"
    BY <1>1, <2>1
  <2> QED BY <2>2, <2>3 DEF Blurred
<1>4. e.from # "deleted" => Len(real) + 1 \in Places(d, e.name)
  BY <1>1 DEF Places
<1>5. ASSUME Distinct(real), \A j \in DOMAIN real : ~Same(real[j], e) PROVE Distinct(d)
  <2>1. \A k \in DOMAIN d : k \in DOMAIN real \/ k = Len(real) + 1
    BY <1>1
  <2>2. \A j \in DOMAIN real :
          d[j].from = "deleted" \/ e.from = "deleted" \/ d[j].name # e.name
    BY <1>1, <1>5 DEF Same
  <2>3. \A j, k \in DOMAIN real :
          d[j].from # "deleted" /\ d[k].from # "deleted" /\ d[j].name = d[k].name => j = k
    BY <1>1, <1>5 DEF Distinct
  <2> QED BY <1>1, <2>1, <2>2, <2>3 DEF Distinct
<1> QED BY <1>2, <1>3, <1>4, <1>5 DEF d

\* Other states for the same names.
LEMMA AnswerFinds ==
  ASSUME NEW real, NEW d, DOMAIN d = DOMAIN real,
         \A k \in DOMAIN real : d[k].name = real[k].name /\ d[k].from = real[k].from
  PROVE  /\ Distinct(real) => Distinct(d)
         /\ \A name : Findable(real, name) => Findable(d, name)
<1>1. \A name : Places(real, name) = Places(d, name)
  BY DEF Places
<1>2. \A name : Blurred(real, name) => Blurred(d, name)
  BY <1>1 DEF Blurred
<1> QED BY <1>1, <1>2 DEF Distinct, Findable

\* A search for a name, and for one that is not freed.
LEMMA SearchFinds ==
  ASSUME NEW real \in Seq(Entries), NEW e, NEW k \in GetState(real, e)
  PROVE  /\ k = 0 => \A j \in DOMAIN real : ~Same(real[j], e)
         /\ k = 0 /\ e.from # "deleted" => Places(real, e.name) = {}
         /\ k # 0 /\ e.from # "deleted" => k \in Places(real, e.name) \/ Blurred(real, e.name)
<1>1. 0 \notin DOMAIN real
  OBVIOUS
<1>2. k = 0 => \A j \in DOMAIN real : ~Same(real[j], e)
  BY <1>1 DEF GetState
<1>3. k = 0 /\ e.from # "deleted" => Places(real, e.name) = {}
  BY <1>2 DEF Places, Same
<1>4. ASSUME k # 0, e.from # "deleted"
      PROVE  k \in Places(real, e.name) \/ Blurred(real, e.name)
  <2>1. /\ k \in DOMAIN real /\ MayBeSame(real[k], e)
        /\ \A j \in 1..(k - 1) : ~Same(real[j], e)
    BY <1>4 DEF GetState
  <2>2. \A j \in 1..(k - 1) : j \notin Places(real, e.name)
    BY <1>4, <2>1 DEF Places, Same
  <2>3. CASE real[k].from = "deleted"
    BY <2>1, <2>2, <2>3 DEF Blurred
  <2>4. CASE real[k].from # "deleted"
    BY <1>4, <2>1, <2>4 DEF Places, MayBeSame
  <2> QED BY <2>3, <2>4
<1> QED BY <1>2, <1>3, <1>4

\* The status of a call that goes on to the next element, when d is c with element c.i
\* done: its reader asked for, or its state there.
LEMMA NextStatus ==
  ASSUME NEW R, NEW d \in StatusCall, FormOf(d), Distinct(d.real),
         NEW again \in {"finding", "refinding"}, NEW done, NEW e, e = NextElement(d, again, done),
         \/ again = "finding" /\ done = "waiting"
         \/ again = "refinding" /\ d.i < Len(d.names),
         \A j \in DOMAIN d.names :
            \/ Excused(d, d.names[j])
            \/ /\ \/ again = "finding" /\ d.i < j
                  \/ Findable(d.real, Target(R, d.names[j]))
               /\ again = "refinding" /\ j <= d.i => Answered(d, Target(R, d.names[j]), j)
  PROVE  StatusOf(R, e)
<1>1. d.names \in Seq(Names) /\ d.i \in 1..Len(d.names) /\ Len(d.names) \in Nat
      /\ DOMAIN d.names = 1..Len(d.names)
  BY DEF StatusCall, FormOf
<1>2. /\ e.names = d.names /\ e.real = d.real /\ e.states = d.states /\ e.moved = d.moved
      /\ e.i = IF d.i = Len(d.names) THEN 1 ELSE d.i + 1
      /\ e.pc = IF d.i = Len(d.names) THEN done ELSE again
  BY DEF NextElement, StatusCall
<1>3. Distinct(e.real) /\ e.pc \notin {"adding", "updating"}
  BY <1>1, <1>2
<1>4. e.pc = "waiting" => e.i = 1
  BY <1>1, <1>2
<1>5. ASSUME NEW j \in DOMAIN e.names, ~Excused(e, e.names[j])
      PROVE  /\ \/ e.pc \in {"finding", "adding"} /\ e.i <= j
                \/ Findable(e.real, Target(R, e.names[j]))
             /\ e.pc \in {"refinding", "updating"} /\ j < e.i =>
                  Answered(e, Target(R, e.names[j]), j)
  <2>1. j \in DOMAIN d.names /\ ~Excused(d, d.names[j])
    BY <1>2, <1>5 DEF Excused
  <2> DEFINE name == Target(R, d.names[j])
  <2>2. (again = "finding" /\ d.i < j) \/ Findable(d.real, name)
    BY <2>1
  <2>3. again = "refinding" /\ j <= d.i => Answered(d, name, j)
    BY <2>1
  <2>4. Answered(d, name, j) => Answered(e, name, j)
    BY <1>2 DEF Answered
  <2> HIDE DEF name
  <2>5. again = "finding" /\ d.i < j => e.pc = "finding" /\ e.i <= j
    BY <1>1, <1>2, <2>1
  <2>6. e.pc \in {"refinding", "updating"} /\ j < e.i => again = "refinding" /\ j <= d.i
    BY <1>1, <1>2, <2>1
  <2>7. e.names[j] = d.names[j] /\ e.real = d.real
    BY <1>2
  <2> QED BY <2>2, <2>3, <2>4, <2>5, <2>6, <2>7 DEF name
<1> QED BY <1>3, <1>4, <1>5 DEF StatusOf

LEMMA BegunStatus ==
  ASSUME NEW a \in Arrays, NEW R PROVE StatusOf(R, Begun(a.names, a.states))
<1>1. a.names \in Seq(Names)
  BY ArraysAssumption
<1>2. \A j \in DOMAIN a.names : 1 <= j
  BY <1>1
<1> QED BY <1>2 DEF StatusOf, Begun, Distinct

LEMMA FoundStatus ==
  ASSUME NEW c \in StatusCall, FormOf(c), StatusOf(readers, c), c.pc \in {"finding", "refinding"}
  PROVE  StatusOf(readers, Found(c))
<1> DEFINE d == Found(c)
<1>1. /\ d \in StatusCall /\ FormOf(d)
      /\ d.pc = IF c.pc = "finding" THEN "adding" ELSE "updating"
      /\ d.sr = IF getSoftReaderByName(c.names[c.i]) THEN "reader" ELSE "caller"
      /\ d.names = c.names /\ d.states = c.states /\ d.i = c.i
      /\ d.real = c.real /\ d.moved = c.moved
  BY FoundForm
<1> HIDE DEF d
<1>2. PointsTo(readers, d)
  BY <1>1, NameType DEF PointsTo, Target, getSoftReaderByName
<1>3. Distinct(d.real) /\ d.pc # "waiting"
  BY <1>1 DEF StatusOf
<1>4. ASSUME NEW j \in DOMAIN d.names, ~Excused(d, d.names[j])
      PROVE  /\ \/ d.pc \in {"finding", "adding"} /\ d.i <= j
                \/ Findable(d.real, Target(readers, d.names[j]))
             /\ d.pc \in {"refinding", "updating"} /\ j < d.i =>
                  Answered(d, Target(readers, d.names[j]), j)
  <2>1. j \in DOMAIN c.names /\ ~Excused(c, c.names[j])
    BY <1>1, <1>4 DEF Excused
  <2>2. \A name : Answered(c, name, j) => Answered(d, name, j)
    BY <1>1 DEF Answered
  <2> QED BY <1>1, <2>1, <2>2 DEF StatusOf
<1> QED BY <1>2, <1>3, <1>4 DEF StatusOf, d

LEMMA AddedStatus ==
  ASSUME NEW c \in StatusCall, FormOf(c), StatusOf(readers, c), c.pc = "adding",
         NEW k \in GetState(c.real, hardReaderName(c)), NEW real,
         real = IF k = 0 THEN Append(c.real, hardReaderName(c)) ELSE c.real
  PROVE  StatusOf(readers, NextElement(Added(c, real), "finding", "waiting"))
<1> DEFINE e == hardReaderName(c)
           d == Added(c, real)
           n == c.names[c.i]
<1>1. e \in Entries /\ e.from = c.sr /\ c.real \in Seq(Entries)
  BY NameType DEF StatusCall
<1>2. d \in StatusCall /\ FormOf(d)
  BY AddedForm
<1>3. /\ d.names = c.names /\ d.i = c.i /\ d.real = real /\ d.moved = c.moved
  BY DEF Added, StatusCall
<1>4. PointsTo(readers, c) /\ Distinct(c.real)
  BY DEF StatusOf
<1>5. \A name : Findable(c.real, name) => Findable(real, name)
  BY <1>1, AppendFinds DEF Findable
<1>6. Distinct(real)
  BY <1>1, <1>4, SearchFinds, AppendFinds
<1>7. Excused(c, n) \/ Findable(real, Target(readers, n))
  <2> SUFFICES ASSUME ~Excused(c, n) PROVE Findable(real, e.name)
    BY <1>4 DEF PointsTo
  <2>1. e.from # "deleted"
    BY <1>1, <1>4 DEF PointsTo
  <2> HIDE DEF e
  <2>2. CASE k = 0
    BY <1>1, <2>1, <2>2, AppendFinds DEF Findable, e
  <2>3. CASE k # 0
    BY <1>1, <2>1, <2>3, SearchFinds DEF Findable, e
  <2> QED BY <2>2, <2>3
<1>8. \A j \in DOMAIN d.names :
        Excused(d, d.names[j]) \/ d.i < j \/ Findable(d.real, Target(readers, d.names[j]))
  <2> SUFFICES ASSUME NEW j \in DOMAIN c.names, ~Excused(c, c.names[j]), ~(c.i < j)
               PROVE  Findable(real, Target(readers, c.names[j]))
    BY <1>3 DEF Excused
  <2>1. c.i \in Nat /\ j \in Nat
    BY DEF StatusCall
  <2>2. CASE j = c.i
    BY <1>7, <2>2
  <2>3. CASE j # c.i
    <3>1. ~(c.i <= j)
      BY <2>1, <2>3
    <3>2. Findable(c.real, Target(readers, c.names[j]))
      BY <3>1 DEF StatusOf
    <3> QED BY <1>5, <3>2
  <2> QED BY <2>2, <2>3
<1> HIDE DEF d
<1> QED BY <1>2, <1>3, <1>6, <1>8, NextStatus DEF d

LEMMA AskedStatus ==
  ASSUME NEW c \in StatusCall, FormOf(c), StatusOf(readers, c), c.pc = "waiting",
         NEW real \in Seq(Entries), DOMAIN real = DOMAIN c.real,
         \A k \in DOMAIN real : real[k].name = c.real[k].name /\ real[k].from = c.real[k].from
  PROVE  StatusOf(readers, Asked(c, real))
<1> DEFINE d == Asked(c, real)
<1>1. /\ d.pc = "refinding" /\ d.real = real /\ d.names = c.names /\ d.states = c.states
      /\ d.i = c.i /\ d.moved = c.moved
  BY AskedForm
<1> HIDE DEF d
<1>2. c.i = 1 /\ \A j \in DOMAIN c.names : ~(j < 1)
  BY DEF StatusOf, StatusCall
<1>3. Distinct(real) /\ \A name : Findable(c.real, name) => Findable(real, name)
  BY AnswerFinds DEF StatusOf
<1>4. ASSUME NEW j \in DOMAIN d.names
      PROVE  Excused(d, d.names[j]) \/ Findable(d.real, Target(readers, d.names[j]))
  BY <1>1, <1>3 DEF StatusOf, Excused
<1> QED BY <1>1, <1>2, <1>3, <1>4 DEF StatusOf, d

\* The element gets the state that was found for its reader.
LEMMA UpdatedAnswers ==
  ASSUME NEW c \in StatusCall, FormOf(c), StatusOf(readers, c), c.pc = "updating",
         NEW k \in GetState(c.real, hardReaderName(c)), NEW state \in States,
         state = IF k = 0 THEN c.states[c.i] ELSE c.real[k].state
  PROVE  \A j \in DOMAIN c.names :
           \/ Excused(c, c.names[j])
           \/ /\ Findable(c.real, Target(readers, c.names[j]))
              /\ j <= c.i => Answered(Updated(c, state), Target(readers, c.names[j]), j)
<1> DEFINE e == hardReaderName(c)
           d == Updated(c, state)
<1>1. e \in Entries /\ e.from = c.sr /\ c.real \in Seq(Entries)
  BY NameType DEF StatusCall
<1>2. d.real = c.real /\ d.states = [c.states EXCEPT ![c.i] = state]
  BY UpdatedForm
<1>3. c.i \in DOMAIN c.states /\ c.i \in Nat
  BY DEF FormOf, StatusCall
<1> HIDE DEF d
<1> SUFFICES ASSUME NEW j \in DOMAIN c.names, ~Excused(c, c.names[j])
             PROVE  /\ Findable(c.real, Target(readers, c.names[j]))
                    /\ j <= c.i => Answered(d, Target(readers, c.names[j]), j)
  BY DEF d
<1> DEFINE name == Target(readers, c.names[j])
<1>4. Findable(c.real, name) /\ (j < c.i => Answered(c, name, j))
  BY DEF StatusOf
<1> HIDE DEF name
<1>5. j \in Nat
  BY DEF StatusCall
<1>6. CASE j < c.i
  <2>1. Answered(c, name, j) => Answered(d, name, j)
    BY <1>2, <1>3, <1>5, <1>6 DEF Answered
  <2> QED BY <1>4, <1>6, <2>1 DEF name
<1>7. CASE j = c.i
  <2>1. PointsTo(readers, c)
    BY DEF StatusOf
  <2>2. e.from # "deleted" /\ e.name = name
    BY <1>1, <1>7, <2>1 DEF PointsTo, name
  <2> HIDE DEF e
  <2>3. d.states[j] = state
    BY <1>2, <1>3, <1>7
  <2>4. CASE k = 0
    <3>1. Places(c.real, name) = {}
      BY <1>1, <2>2, <2>4, SearchFinds DEF e
    <3> QED BY <1>2, <1>4, <3>1 DEF Findable, Answered, name
  <2>5. CASE k # 0
    <3>1. k \in Places(c.real, name) \/ Blurred(c.real, name)
      BY <1>1, <2>2, <2>5, SearchFinds DEF e
    <3> QED BY <1>2, <1>4, <2>3, <2>5, <3>1 DEF Answered, name
  <2> QED BY <2>4, <2>5
<1>8. CASE ~(j <= c.i)
  BY <1>4, <1>8 DEF name
<1> QED BY <1>3, <1>5, <1>6, <1>7, <1>8

\* A list of another thread excuses the elements whose readers it makes or deletes.
LEMMA FreedStatus ==
  ASSUME NEW c \in StatusCall, FormOf(c), StatusOf(readers, c), NEW d \in StatusCall,
         NEW H, IsFreed(d, c, H)
  PROVE  StatusOf(H, d)
<1>1. /\ d.pc = c.pc /\ d.names = c.names /\ d.states = c.states /\ d.i = c.i
      /\ d.sr = Mark(c.sr, c.names[c.i], H)
      /\ d.moved = c.moved \union (readers \ H) \union (H \ readers)
  BY DEF IsFreed
<1>2. c.real \in Seq(Entries) /\ Distinct(c.real)
  BY DEF StatusCall, StatusOf
<1>3. ASSUME NEW n, ~Excused(d, n)
      PROVE  /\ ~Excused(c, n) /\ Target(H, n) = Target(readers, n)
             /\ n.soft => n.hard \notin readers \ H
  BY <1>1, <1>3 DEF Excused, Target
<1>4. Distinct(d.real) /\ (d.pc = "waiting" => d.i = 1)
  BY <1>1, <1>2, FreedFinds DEF StatusOf
<1>5. ASSUME d.pc \in {"adding", "updating"} PROVE PointsTo(H, d)
  <2> DEFINE n == c.names[c.i]
  <2>1. PointsTo(readers, c)
    BY <1>1, <1>5 DEF StatusOf
  <2>2. d.sr # "caller" => n.soft
    BY <1>1, <2>1 DEF PointsTo, Mark
  <2>3. ASSUME ~Excused(d, n)
        PROVE  d.sr # "deleted" /\ hardReaderName(d).name = Target(H, n)
    <3>1. d.sr = c.sr /\ c.sr # "deleted"
      BY <1>1, <1>3, <2>1, <2>3 DEF PointsTo, Mark
    <3>2. hardReaderName(d).name = hardReaderName(c).name
      BY <1>1, <3>1 DEF hardReaderName
    <3> QED BY <1>3, <2>1, <2>3, <3>1, <3>2 DEF PointsTo
  <2> QED BY <1>1, <2>2, <2>3 DEF PointsTo
<1>6. ASSUME NEW j \in DOMAIN d.names, ~Excused(d, d.names[j])
      PROVE  /\ \/ d.pc \in {"finding", "adding"} /\ d.i <= j
                \/ Findable(d.real, Target(H, d.names[j]))
             /\ d.pc \in {"refinding", "updating"} /\ j < d.i =>
                  Answered(d, Target(H, d.names[j]), j)
  <2> DEFINE name == Target(readers, c.names[j])
  <2>1. /\ j \in DOMAIN c.names /\ ~Excused(c, c.names[j])
        /\ Target(H, d.names[j]) = name
    BY <1>1, <1>3, <1>6
  <2>2. /\ \/ c.pc \in {"finding", "adding"} /\ c.i <= j
           \/ Findable(c.real, name)
        /\ c.pc \in {"refinding", "updating"} /\ j < c.i => Answered(c, name, j)
    BY <2>1 DEF StatusOf
  <2> HIDE DEF name
  <2>3. Findable(c.real, name) => Findable(d.real, name)
    BY <1>2, FreedFinds DEF Findable
  <2>4. Answered(c, name, j) => Answered(d, name, j)
    <3>1. \A k \in Places(c.real, name) : d.real[k].state = c.real[k].state
      BY DEF Places, IsFreed
    <3> QED BY <1>1, <1>2, <3>1, FreedFinds DEF Answered
  <2> QED BY <1>1, <2>1, <2>2, <2>3, <2>4
<1> QED BY <1>4, <1>5, <1>6 DEF StatusOf

LEMMA InitAnswers == Init => AnswerInv
BY DEF Init, AnswerInv, StatusReported, Idle, StatusCalls

\* What an answer says is what StatusReported asks for.
LEMMA AnsweredReported ==
  ASSUME NEW c, NEW i, Excused(c, c.names[i]) \/ Answered(c, Target(readers, c.names[i]), i)
  PROVE  Reported(c, i)
<1>1. HardName(c.names[i]) = Target(readers, c.names[i])
  BY DEF HardName, Target, getSoftReaderByName
<1> QED BY <1>1 DEF Reported, Answered, Excused

\* A step of a status call that goes on.
LEMMA ContinueAnswers ==
  ASSUME TypeOK, AnswerInv, NEW t \in Threads, NEW c, Continue(t, c), StatusOf(readers, c)
  PROVE  AnswerInv'
<1>1. \A s \in Threads : call'[s] = IF s = t THEN c ELSE call[s]
  BY DEF Continue, TypeOK
<1>2. readers' = readers /\ result'.pc # "updating"
  BY DEF Continue, Idle
<1> QED BY <1>1, <1>2 DEF AnswerInv, StatusReported

LEMMA NextAnswers == ASSUME TypeOK, FormInv, AnswerInv, [Next]_vars PROVE AnswerInv'
<1>0. /\ DOMAIN call = Threads /\ \A t \in Threads : call[t] \in Call
      /\ readers \in SUBSET Readers
  BY DEF TypeOK
<1>s. ASSUME NEW t \in Threads, call[t].pc \in StatusCalls
      PROVE  call[t] \in StatusCall /\ FormOf(call[t]) /\ StatusOf(readers, call[t])
  BY <1>0, <1>s, CallCases DEF FormInv, AnswerInv
<1>1. ASSUME readers' = readers, result'.pc # "updating",
             \A s \in Threads : call'[s] = call[s] \/ call'[s].pc \notin StatusCalls
      PROVE  AnswerInv'
  BY <1>1 DEF AnswerInv, StatusReported
<1>2. ASSUME NEW t \in Threads,
             ListReadersLength(t) \/ ListReadersAllocated(t) \/ ListReadersBuffer(t)
      PROVE  AnswerInv'
  <2>1. readers' = readers /\ result' = Idle
    BY <1>2 DEF ListReadersLength, ListReadersAllocated, ListReadersBuffer
  <2>2. \A s \in Threads : call'[s] = call[s] \/ call'[s].pc \notin StatusCalls
    BY <1>0, <1>2
       DEF ListReadersLength, ListReadersAllocated, ListReadersBuffer, Enter, Crashed, StatusCalls
  <2> QED BY <1>1, <2>1, <2>2 DEF Idle
<1>3. ASSUME NEW t \in Threads, NEW order \in Visibilities, createSoftReaders(t, order)
      PROVE  AnswerInv'
  <2> DEFINE H == call[t].names
  <2>1. H \in SUBSET Readers
    BY <1>0, <1>3, CallCases DEF createSoftReaders, Listing
  <2>2. /\ readers' = H /\ result'.pc = "listing"
        /\ \A s \in Threads : call'[s] = IF s = t THEN Idle ELSE Freed(s, H)
    BY <1>3 DEF createSoftReaders
  <2> HIDE DEF H
  <2>3. ASSUME NEW s \in Threads, call'[s].pc \in StatusCalls PROVE StatusOf(H, call'[s])
    <3>1. call'[s] = Freed(s, H)
      BY <2>2, <2>3 DEF Idle, StatusCalls
    <3>2. /\ call[s].pc \in StatusCalls /\ Freed(s, H) \in StatusCall
          /\ IsFreed(Freed(s, H), call[s], H)
      BY <1>0, <2>1, <2>3, <3>1, FreedCall
    <3>3. call[s] \in StatusCall /\ FormOf(call[s]) /\ StatusOf(readers, call[s])
      BY <1>s, <3>2
    <3> QED BY <3>1, <3>2, <3>3, FreedStatus
  <2> QED BY <2>2, <2>3 DEF AnswerInv, StatusReported
<1>4. ASSUME NEW t \in Threads, NEW a \in Arrays, GetStatusChange(t, a.names, a.states)
      PROVE  AnswerInv'
  <2>1. Continue(t, Begun(a.names, a.states))
    BY <1>4 DEF GetStatusChange, Begun
  <2> QED BY <2>1, BegunStatus, ContinueAnswers
<1>5. ASSUME NEW t \in Threads, FindReader(t) PROVE AnswerInv'
  <2>1. call[t].pc \in {"finding", "refinding"} /\ Continue(t, Found(call[t]))
    BY <1>5 DEF FindReader, Found
  <2>2. call[t] \in StatusCall /\ FormOf(call[t]) /\ StatusOf(readers, call[t])
    BY <1>s, <2>1 DEF StatusCalls
  <2> QED BY <2>1, <2>2, FoundStatus, ContinueAnswers
<1>6. ASSUME NEW t \in Threads, AddState(t) PROVE AnswerInv'
  <2> DEFINE c == call[t]
  <2>1. c.pc = "adding"
    BY <1>6 DEF AddState
  <2>2. c \in StatusCall /\ FormOf(c) /\ StatusOf(readers, c)
    BY <1>s, <2>1 DEF StatusCalls
  <2>3. PICK k \in GetState(c.real, hardReaderName(c)) :
          Continue(t, NextElement([c EXCEPT !.real =
                                     IF k = 0 THEN Append(@, hardReaderName(c)) ELSE @],
                                  "finding", "waiting"))
    BY <1>6 DEF AddState
  <2> DEFINE real == IF k = 0 THEN Append(c.real, hardReaderName(c)) ELSE c.real
  <2>4. Continue(t, NextElement(Added(c, real), "finding", "waiting"))
    BY <2>3 DEF Added
  <2>5. StatusOf(readers, NextElement(Added(c, real), "finding", "waiting"))
    BY <2>1, <2>2, AddedStatus
  <2> QED BY <2>4, <2>5, ContinueAnswers
<1>7. ASSUME NEW t \in Threads, pSCardGetStatusChange(t) PROVE AnswerInv'
  <2>1. call[t].pc = "waiting"
    BY <1>7 DEF pSCardGetStatusChange
  <2>2. call[t] \in StatusCall /\ FormOf(call[t]) /\ StatusOf(readers, call[t])
    BY <1>s, <2>1 DEF StatusCalls
  <2>3. PICK real \in Seq(Entries) :
          /\ Continue(t, Asked(call[t], real))
          /\ DOMAIN real = DOMAIN call[t].real
          /\ \A k \in DOMAIN real : /\ real[k].name = call[t].real[k].name
                                    /\ real[k].from = call[t].real[k].from
    BY <1>7, <2>2, AskedStep
  <2>4. StatusOf(readers, Asked(call[t], real))
    BY <2>1, <2>2, <2>3, AskedStatus
  <2> QED BY <2>3, <2>4, ContinueAnswers
<1>8. ASSUME NEW t \in Threads, UpdateStates(t) PROVE AnswerInv'
  <2> DEFINE c == call[t]
  <2>1. c.pc = "updating"
    BY <1>8 DEF UpdateStates
  <2>2. c \in StatusCall /\ FormOf(c) /\ StatusOf(readers, c)
    BY <1>s, <2>1 DEF StatusCalls
  <2>3. PICK k \in GetState(c.real, hardReaderName(c)) :
          Update(t, IF k = 0 THEN c.states[c.i] ELSE c.real[k].state)
    BY <1>8 DEF UpdateStates
  <2> DEFINE state == IF k = 0 THEN c.states[c.i] ELSE c.real[k].state
             d == Updated(c, state)
  <2>4. state \in States
    <3>1. c.real \in Seq(Entries) /\ c.states[c.i] \in States
      BY <2>2 DEF StatusCall, FormOf
    <3> QED BY <3>1, GetStateType
  <2>5. Update(t, state)
    BY <2>3
  <2>6. \A j \in DOMAIN c.names :
           \/ Excused(c, c.names[j])
           \/ /\ Findable(c.real, Target(readers, c.names[j]))
              /\ j <= c.i => Answered(d, Target(readers, c.names[j]), j)
    BY <2>1, <2>2, <2>4, UpdatedAnswers
  <2> HIDE DEF state
  <2>7. /\ d \in StatusCall /\ FormOf(d) /\ d.i = c.i /\ d.names = c.names /\ d.pc = c.pc
        /\ d.real = c.real /\ d.moved = c.moved
    BY <2>2, <2>4, UpdatedForm
  <2>8. CASE c.i < Len(c.names)
    <3>1. Continue(t, NextElement(d, "refinding", "returned"))
      BY <2>5, <2>8 DEF Update, Updated
    <3>2. d.i < Len(d.names) /\ Distinct(d.real)
      BY <2>2, <2>7, <2>8 DEF StatusOf
    <3>3. \A j \in DOMAIN d.names :
             \/ Excused(d, d.names[j])
             \/ /\ Findable(d.real, Target(readers, d.names[j]))
                /\ j <= d.i => Answered(d, Target(readers, d.names[j]), j)
      BY <2>6, <2>7 DEF Excused
    <3> HIDE DEF d, c
    <3>4. StatusOf(readers, NextElement(d, "refinding", "returned"))
      BY <2>7, <3>2, <3>3, NextStatus
    <3> QED BY <3>1, <3>4, ContinueAnswers
  <2>9. CASE ~(c.i < Len(c.names))
    <3>1. call' = [call EXCEPT ![t] = Idle] /\ result' = d /\ readers' = readers
      BY <2>5, <2>9 DEF Update, Updated
    <3>2. \A s \in Threads : call'[s] = IF s = t THEN Idle ELSE call[s]
      BY <1>0, <3>1
    <3>3. ASSUME NEW i \in DOMAIN d.names PROVE Reported(d, i)
      <4>1. i <= c.i /\ i \in DOMAIN c.names
        BY <2>2, <2>7, <2>9 DEF StatusCall, FormOf
      <4>2. Excused(d, d.names[i]) \/ Answered(d, Target(readers, d.names[i]), i)
        BY <2>6, <2>7, <4>1 DEF Excused
      <4> QED BY <4>2, AnsweredReported
    <3> HIDE DEF d
    <3>4. \A i \in DOMAIN result'.names : Reported(result, i)'
      BY <3>1, <3>3 DEF Reported, HardName, getSoftReaderByName
    <3>5. \A s \in Threads : call'[s].pc \in StatusCalls => StatusOf(readers', call'[s])
      BY <3>1, <3>2 DEF AnswerInv, Idle, StatusCalls
    <3> QED BY <3>4, <3>5 DEF AnswerInv, StatusReported
  <2> QED BY <2>8, <2>9
<1>9. ASSUME NEW r \in Readers, Plug(r) PROVE AnswerInv'
  BY <1>1, <1>9 DEF Plug, Idle
<1>10. CASE UNCHANGED vars
  BY <1>10 DEF vars, AnswerInv, StatusReported, Reported, HardName, getSoftReaderByName
<1> QED BY <1>2, <1>3, <1>4, <1>5, <1>6, <1>7, <1>8, <1>9, <1>10 DEF Next

-----------------------------------------------------------------------------
(* The invariant and the theorems *)

IInv == TypeOK /\ FormInv /\ LengthInv /\ ListOrdered /\ AnswerInv

LEMMA Invariance == Spec => []IInv
<1>1. Init => IInv
  <2>1. Init => ListOrdered
    BY DEF Init, Idle, ListOrdered
  <2> QED BY <2>1, InitTypes, InitLength, InitAnswers DEF IInv
<1>2. IInv /\ [Next]_vars => IInv'
  BY NextTypes, NextLength, NextOrdered, NextAnswers DEF IInv
<1> QED BY <1>1, <1>2, PTL DEF Spec

\* Every variable keeps its type: in particular a list is a sequence of names, though it
\* is described by what stands before each of them.
THEOREM TypeCorrect == Spec => []TypeOK
<1>1. IInv => TypeOK
  BY DEF IInv
<1> QED BY <1>1, Invariance, PTL

\* A list is never longer than the buffer that was made for it, or that has the length
\* that was asked for when there were the same readers, or more, for any readers with names of
\* any lengths and for every order (WinscardImpl.cpp:183-230).
THEOREM ListFitsHolds == Spec => []ListFits
<1>1. IInv => ListFits
  BY DEF IInv, LengthInv, ListFits
<1> QED BY <1>1, Invariance, PTL

\* The comparison of each visibility is a strict total order of the names, so that a list
\* shows each of its names once and in that order (SoftReaderManager.cpp:158-183,
\* 246-279).
THEOREM ListOrderedHolds == Spec => []ListOrdered
<1>1. IInv => ListOrdered
  BY DEF IInv
<1> QED BY <1>1, Invariance, PTL

\* However lists of other threads make and delete readers between the steps of a status
\* call, each element gets the answer for its physical reader, or its soft reader was made
\* or deleted meanwhile, or the search came by a name whose reader was deleted
\* (WinscardImpl.cpp:436-467).
THEOREM StatusReportedHolds == Spec => []StatusReported
<1>1. IInv => StatusReported
  BY DEF IInv, AnswerInv
<1> QED BY <1>1, Invariance, PTL

-----------------------------------------------------------------------------
(* CMutex, which excludes and is recursive, for any set of callers *)

\* Thread t has the pthread mutex: it is between the trylock or lock that
\* succeeded and the unlock that gives it back, or nested inside.
Has(t) == depth[t] > 0 \/ pc[t] \in {"own", "count"}

\* At these points of an outermost call the owner field names nobody.
Unowned(t) == pc[t] \in {"own", "uncount", "release"}

MutexHolder ==
  \A t \in Callers : Has(t) <=> m_Mutex = t

MutexOwner ==
  \A t \in Callers : m_MutexOwner = t <=> m_Mutex = t /\ ~Unowned(t)

MutexCount ==
  /\ m_Mutex = NoThread => m_MutexLockcount = 0
  /\ \A t \in Callers :
       m_Mutex = t => m_MutexLockcount = IF pc[t] = "release" THEN 0 ELSE depth[t]

MutexPc ==
  \A t \in Callers :
    /\ pc[t] \in {"own", "block"} => depth[t] = 0
    /\ pc[t] \in {"disown", "uncount", "release"} => depth[t] = 1
    /\ pc[t] = "unlock" => depth[t] > 0

MutexInv == MutexTypeOK /\ MutexHolder /\ MutexOwner /\ MutexCount /\ MutexPc

-----------------------------------------------------------------------------
LEMMA InitMutexInv == MutexInit => MutexInv
<1> USE CallersAssumption
<1> SUFFICES ASSUME MutexInit PROVE MutexInv
  OBVIOUS
<1>1. MutexTypeOK
  BY DEF MutexInit, MutexTypeOK, PCs
<1>2. MutexHolder /\ MutexOwner /\ MutexCount /\ MutexPc
  BY DEF MutexInit, MutexHolder, MutexOwner, MutexCount, MutexPc, Has, Unowned
<1>3. QED
  BY <1>1, <1>2 DEF MutexInv

\* The steps that take, pass or give back the pthread mutex and those that only
\* move one thread, each kept apart so that a leaf sees a single action.
LEMMA NextMutexInv == MutexInv /\ [MutexNext]_mutexVars => MutexInv'
<1> USE CallersAssumption DEF Goto, PCs
<1> SUFFICES ASSUME MutexInv, [MutexNext]_mutexVars PROVE MutexInv'
  OBVIOUS
<1>0. CASE UNCHANGED mutexVars
  BY <1>0 DEF MutexInv, MutexTypeOK, MutexHolder, MutexOwner, MutexCount, MutexPc, Has, Unowned, mutexVars
<1>a. ASSUME NEW t \in Callers, CallLock(t) PROVE MutexInv'
  BY <1>a DEF CallLock, MutexInv, MutexTypeOK, MutexHolder, MutexOwner, MutexCount, MutexPc, Has, Unowned
<1>b. ASSUME NEW t \in Callers, CallUnlock(t) PROVE MutexInv'
  BY <1>b DEF CallUnlock, MutexInv, MutexTypeOK, MutexHolder, MutexOwner, MutexCount, MutexPc, Has, Unowned
<1>c. ASSUME NEW t \in Callers, TryLock(t) PROVE MutexInv'
  BY <1>c DEF TryLock, MutexInv, MutexTypeOK, MutexHolder, MutexOwner, MutexCount, MutexPc, Has, Unowned
<1>d. ASSUME NEW t \in Callers, CompareOwner(t) PROVE MutexInv'
  BY <1>d DEF CompareOwner, MutexInv, MutexTypeOK, MutexHolder, MutexOwner, MutexCount, MutexPc, Has, Unowned
<1>e. ASSUME NEW t \in Callers, BlockingLock(t) PROVE MutexInv'
  BY <1>e DEF BlockingLock, MutexInv, MutexTypeOK, MutexHolder, MutexOwner, MutexCount, MutexPc, Has, Unowned
<1>f. ASSUME NEW t \in Callers, SetOwner(t) PROVE MutexInv'
  BY <1>f DEF SetOwner, MutexInv, MutexTypeOK, MutexHolder, MutexOwner, MutexCount, MutexPc, Has, Unowned
<1>g. ASSUME NEW t \in Callers, IncrementCount(t) PROVE MutexInv'
  BY <1>g DEF IncrementCount, MutexInv, MutexTypeOK, MutexHolder, MutexOwner, MutexCount, MutexPc, Has, Unowned
<1>h. ASSUME NEW t \in Callers, UnlockTest(t) PROVE MutexInv'
  BY <1>h DEF UnlockTest, MutexInv, MutexTypeOK, MutexHolder, MutexOwner, MutexCount, MutexPc, Has, Unowned
<1>i. ASSUME NEW t \in Callers, ClearOwner(t) PROVE MutexInv'
  BY <1>i DEF ClearOwner, MutexInv, MutexTypeOK, MutexHolder, MutexOwner, MutexCount, MutexPc, Has, Unowned
<1>j. ASSUME NEW t \in Callers, DecrementCount(t) PROVE MutexInv'
  BY <1>j DEF DecrementCount, MutexInv, MutexTypeOK, MutexHolder, MutexOwner, MutexCount, MutexPc, Has, Unowned
<1>k. ASSUME NEW t \in Callers, ReleaseMutex(t) PROVE MutexInv'
  BY <1>k DEF ReleaseMutex, MutexInv, MutexTypeOK, MutexHolder, MutexOwner, MutexCount, MutexPc, Has, Unowned
<1>z. QED
  BY <1>0, <1>a, <1>b, <1>c, <1>d, <1>e, <1>f, <1>g, <1>h, <1>i, <1>j, <1>k
     DEF MutexNext, Lock, Unlock

LEMMA SpecMutexInv == MutexSpec => []MutexInv
  BY InitMutexInv, NextMutexInv, PTL DEF MutexSpec

-----------------------------------------------------------------------------
\* Type correctness: in particular m_MutexLockcount never goes below zero, so the
\* int of Mutex.h:51 is a count.
THEOREM MutexTypeCorrect == MutexSpec => []MutexTypeOK
<1>1. MutexInv => MutexTypeOK
  BY DEF MutexInv
<1>2. QED
  BY <1>1, SpecMutexInv, PTL

\* At most one thread is inside CMutex, for any number of threads and any nesting
\* (Mutex.cpp:54-98).
THEOREM MutexExcludes == MutexSpec => []MutualExclusion
<1>1. MutexInv => MutualExclusion
  BY DEF MutexInv, MutexHolder, Has, MutualExclusion
<1>2. QED
  BY <1>1, SpecMutexInv, PTL

\* A thread that waits in pthread_mutex_lock() waits for a free mutex, or for another
\* thread that has it, does not wait itself and, when it is between its calls, is the
\* recorded owner and so still has an Unlock() to make that counts.
WaitsForHolder ==
  \A t \in Callers : pc[t] = "block" =>
    \/ m_Mutex = NoThread
    \/ \E u \in Callers \ {t} :
         /\ m_Mutex = u
         /\ pc[u] # "block"
         /\ pc[u] = "out" => depth[u] > 0 /\ m_MutexOwner = u

\* No thread waits for itself, or for a mutex whose holder has gone, for any number of
\* threads and any nesting: the safety that NoLostUnlock rests on
\* (Mutex.cpp:61-76, 85-95).
THEOREM MutexNobodyStuck == MutexSpec => []WaitsForHolder
<1>1. MutexInv => WaitsForHolder
  <2> SUFFICES ASSUME MutexInv, NEW t \in Callers, pc[t] = "block", m_Mutex # NoThread
               PROVE  \E u \in Callers \ {t} :
                        /\ m_Mutex = u
                        /\ pc[u] # "block"
                        /\ pc[u] = "out" => depth[u] > 0 /\ m_MutexOwner = u
    BY DEF WaitsForHolder
  <2>1. PICK u \in Callers : m_Mutex = u
    BY DEF MutexInv, MutexTypeOK
  <2>2. Has(u) /\ ~Has(t)
    BY <2>1 DEF MutexInv, MutexTypeOK, MutexHolder, MutexPc, Has
  <2>3. pc[u] # "block"
    BY <2>2 DEF MutexInv, MutexTypeOK, MutexPc, Has
  <2>4. pc[u] = "out" => depth[u] > 0 /\ m_MutexOwner = u
    BY <2>1, <2>2 DEF MutexInv, MutexOwner, Has, Unowned
  <2> QED BY <2>1, <2>2, <2>3, <2>4
<1>2. QED
  BY <1>1, SpecMutexInv, PTL

\* A thread inside is the recorded owner and the count is the number of Unlock()s it
\* still owes (Mutex.cpp:61-76, 85-95).
THEOREM MutexCountIsDepth == MutexSpec => []CountIsDepth
<1>1. MutexInv => CountIsDepth
  BY DEF MutexInv, MutexHolder, MutexOwner, MutexCount, Has, Unowned, CountIsDepth
<1>2. QED
  BY <1>1, SpecMutexInv, PTL

\* CMutex implements the reentrant lock its users rely on: each step of Lock() and
\* Unlock() is a step of ReentrantLock or changes nothing a client sees.
THEOREM MutexRefinement == MutexSpec => ImplementsReentrantLock
<1>1. MutexInit => Abstract!Init
  BY DEF MutexInit, Abstract!Init
<1>2. MutexInv /\ [MutexNext]_mutexVars => [Abstract!Next]_depth
  <2> SUFFICES ASSUME MutexInv, [MutexNext]_mutexVars PROVE [Abstract!Next]_depth
    OBVIOUS
  <2>1. ASSUME NEW t \in Callers, IncrementCount(t) PROVE Abstract!Acquire(t)
    BY <2>1
       DEF IncrementCount, Goto, Abstract!Acquire, MutexInv, MutexTypeOK, MutexHolder, Has
  <2>2. ASSUME NEW t \in Callers, UnlockTest(t) PROVE Abstract!Release(t) \/ UNCHANGED depth
    BY <2>2 DEF UnlockTest, Goto, Abstract!Release, MutexInv, MutexPc
  <2>3. ASSUME NEW t \in Callers, ReleaseMutex(t) PROVE Abstract!Release(t)
    BY <2>3 DEF ReleaseMutex, Goto, Abstract!Release, MutexInv, MutexPc, MutexTypeOK
  <2>4. ASSUME NEW t \in Callers,
               CallLock(t) \/ CallUnlock(t) \/ TryLock(t) \/ CompareOwner(t) \/ BlockingLock(t)
                 \/ SetOwner(t) \/ ClearOwner(t) \/ DecrementCount(t)
        PROVE UNCHANGED depth
    BY <2>4 DEF CallLock, CallUnlock, TryLock, CompareOwner, BlockingLock, SetOwner,
                ClearOwner, DecrementCount
  <2>5. CASE UNCHANGED mutexVars
    BY <2>5 DEF mutexVars
  <2>6. QED
    BY <2>1, <2>2, <2>3, <2>4, <2>5 DEF MutexNext, Lock, Unlock, Abstract!Next
<1>3. QED
  BY <1>1, <1>2, SpecMutexInv, PTL DEF MutexSpec, ImplementsReentrantLock, Abstract!Spec
===============================================================================
