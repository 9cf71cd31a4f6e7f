----------------------------- MODULE CycleFacts -----------------------------
(***************************************************************************)
(* What the proofs of the counters share: induction over sets, adjacency   *)
(* lists and simple cycles, and which cycles a depth-first search has      *)
(* still ahead of it.                                                      *)
(***************************************************************************)
EXTENDS SimpleCycles, FiniteSetTheorems, SequenceTheorems, TLAPS

-----------------------------------------------------------------------------
(***************************************************************************)
(* Induction.  A property proved by induction is given as the set of the   *)
(* numbers, or of the finite sets, that have it.                           *)
(***************************************************************************)
\* Induction on natural numbers: a set with 0 and with the successors of its
\* members holds all of them.
LEMMA NatSetInduction ==
  ASSUME NEW S, 0 \in S, \A n \in Nat : n \in S => n + 1 \in S
  PROVE  \A n \in Nat : n \in S
<1> DEFINE T == {0..(n - 1) : n \in {m \in Nat : m \notin S}}
           R == StrictSubsetOrdering(Nat)
<1>1. SUFFICES ASSUME NEW n \in Nat, n \notin S
               PROVE  FALSE
  OBVIOUS
<1>2. IsWellFoundedOn(R, FiniteSubsetsOf(Nat))
  BY FS_StrictSubsetOrderingWellFounded
<1>3. T \subseteq FiniteSubsetsOf(Nat)
  <2>1. ASSUME NEW m \in Nat
        PROVE  0..(m - 1) \in FiniteSubsetsOf(Nat)
    <3>1. IsFiniteSet(0..(m - 1))
      BY FS_Interval
    <3>2. QED
      BY <3>1 DEF FiniteSubsetsOf
  <2>2. QED
    BY <2>1
<1>4. T # {}
  BY <1>1
<1>5. PICK x \in T : \A y \in T : ~(<<y, x>> \in R)
  <2> HIDE DEF R, T
  <2> QED BY <1>2, <1>3, <1>4, WFMin
<1>6. PICK m \in Nat : m \notin S /\ x = 0..(m - 1)
  OBVIOUS
<1>7. m # 0 /\ m - 1 \in Nat
  BY <1>6
<1>8. 0..(m - 2) \in T
  BY <1>6, <1>7
<1>9. 0..(m - 2) # 0..(m - 1) /\ 0..(m - 2) \subseteq 0..(m - 1)
  BY <1>6, <1>7
<1>10. <<0..(m - 2), x>> \in R
  BY <1>6, <1>7, <1>9 DEF StrictSubsetOrdering
<1>11. QED
  BY <1>5, <1>8, <1>10

\* Induction on the subsets of a finite set, one member at a time.
LEMMA FiniteSetInduction ==
  ASSUME NEW U, IsFiniteSet(U), NEW F, {} \in F,
         \A T \in SUBSET U, x \in U : T \in F /\ x \notin T => T \cup {x} \in F
  PROVE  U \in F
<1> DEFINE Good == {n \in Nat : \A T \in SUBSET U : Cardinality(T) = n => T \in F}
<1>1. \A T \in SUBSET U : IsFiniteSet(T) /\ Cardinality(T) \in Nat
  BY FS_Subset, FS_CardinalityType
<1>2. 0 \in Good
  BY <1>1, FS_EmptySet
<1>3. ASSUME NEW n \in Nat, n \in Good
      PROVE  n + 1 \in Good
  <2>1. ASSUME NEW T \in SUBSET U, Cardinality(T) = n + 1
        PROVE  T \in F
    <3>1. PICK x \in T : TRUE
      <4>1. n + 1 # 0
        OBVIOUS
      <4>2. T # {}
        BY <2>1, <4>1, FS_EmptySet
      <4>3. QED
        BY <4>2
    <3>2. Cardinality(T \ {x}) = n
      <4>1. IsFiniteSet(T)
        BY <1>1
      <4>2. Cardinality(T \ {x}) = Cardinality(T) - 1
        BY <3>1, <4>1, FS_RemoveElement
      <4>3. QED
        BY <2>1, <4>2
    <3>3. T \ {x} \in F
      BY <1>3, <3>2
    <3>4. (T \ {x}) \cup {x} = T
      BY <3>1
    <3>5. QED
      BY <3>1, <3>3, <3>4
  <2>2. QED
    BY <2>1
<1>4. \A n \in Nat : n \in Good
  <2> HIDE DEF Good
  <2> QED BY <1>2, <1>3, NatSetInduction
<1>5. QED
  BY <1>1, <1>4

\* w holds a and what n applications of a step make of it.
AreIterates(w, D, a, step, n) ==
  w \in [0..n -> D] /\ w[0] = a /\ \A k \in 1..n : w[k] = step[w[k - 1]]

\* A function given by its first value and by a step from each value to the
\* next is well defined.
LEMMA IteratesExist ==
  ASSUME NEW D, NEW a \in D, NEW step \in [D -> D], NEW n \in Nat
  PROVE  \E w : AreIterates(w, D, a, step, n)
<1> DEFINE Good == {m \in Nat : \E w \in [0..m -> D] :
                                  /\ w[0] = a
                                  /\ \A k \in 1..m : w[k] = step[w[k - 1]]}
<1>1. 0 \in Good
  <2> DEFINE x == [k \in 0..0 |-> a]
  <2>1. x \in [0..0 -> D] /\ x[0] = a /\ \A k \in 1..0 : x[k] = step[x[k - 1]]
    OBVIOUS
  <2>2. QED
    <3> HIDE DEF x
    <3> QED BY <2>1
<1>2. ASSUME NEW m \in Nat, m \in Good
      PROVE  m + 1 \in Good
  <2>1. PICK w \in [0..m -> D] : w[0] = a /\ \A k \in 1..m : w[k] = step[w[k - 1]]
    BY <1>2
  <2>2. w[m] \in D
    OBVIOUS
  <2> DEFINE x == [k \in 0..(m + 1) |-> IF k = m + 1 THEN step[w[m]] ELSE w[k]]
  <2>3. x \in [0..(m + 1) -> D]
    BY <2>2
  <2>4. x[0] = a
    BY <2>1
  <2>5. ASSUME NEW k \in 1..(m + 1)
        PROVE  x[k] = step[x[k - 1]]
    <3>1. CASE k = m + 1
      BY <3>1
    <3>2. CASE k # m + 1
      <4>1. k \in 1..m /\ k - 1 \in 0..m /\ k - 1 # m + 1
        BY <3>2
      <4>2. x[k] = w[k] /\ x[k - 1] = w[k - 1]
        BY <3>2, <4>1
      <4>3. QED
        BY <2>1, <4>1, <4>2
    <3>3. QED
      BY <3>1, <3>2
  <2>6. QED
    <3> HIDE DEF x
    <3> QED BY <2>3, <2>4, <2>5
<1>3. \A m \in Nat : m \in Good
  <2> HIDE DEF Good
  <2> QED BY <1>1, <1>2, NatSetInduction
<1>4. QED
  BY <1>3 DEF AreIterates

\* M is the least subset of U that holds a and that the step does not leave.
IsLeastClosed(M, U, a, step) ==
  /\ M \in SUBSET U /\ a \subseteq M /\ step[M] = M
  /\ \A S \in SUBSET U :
       a \subseteq S /\ (\A R \in SUBSET S : step[R] \subseteq S) => M \subseteq S

\* Iterating a step that only adds members of a finite set reaches a set that
\* the step leaves as it is, within as many iterations as there are members;
\* and it stays within every set that the step does not leave.
LEMMA IteratesClose ==
  ASSUME NEW U, IsFiniteSet(U), NEW n \in Nat, Cardinality(U) <= n,
         NEW step \in [SUBSET U -> SUBSET U],
         \A R \in SUBSET U : R \subseteq step[R],
         NEW w \in [0..n -> SUBSET U],
         \A k \in 1..n : w[k] = step[w[k - 1]]
  PROVE  IsLeastClosed(w[n], U, w[0], step)
<1> DEFINE Grows == {k \in Nat : k <= n => /\ w[0] \subseteq w[k]
                                           /\ \/ step[w[k]] = w[k]
                                              \/ Cardinality(w[k]) >= k}
<1>1. \A R \in SUBSET U : IsFiniteSet(R) /\ Cardinality(R) \in Nat
  BY FS_Subset, FS_CardinalityType
<1>2. 0 \in Grows
  <2>1. Cardinality(w[0]) >= 0
    BY <1>1
  <2>2. QED
    BY <2>1
<1>3. ASSUME NEW k \in Nat, k \in Grows
      PROVE  k + 1 \in Grows
  <2>1. SUFFICES ASSUME k + 1 <= n
                 PROVE  /\ w[0] \subseteq w[k + 1]
                        /\ \/ step[w[k + 1]] = w[k + 1]
                           \/ Cardinality(w[k + 1]) >= k + 1
    OBVIOUS
  <2>2. k \in 0..n /\ k + 1 \in 1..n /\ (k + 1) - 1 = k
    BY <2>1
  <2>3. w[k + 1] = step[w[k]] /\ w[k] \in SUBSET U /\ w[k + 1] \in SUBSET U
    BY <2>2
  <2>4. w[k] \subseteq w[k + 1] /\ w[0] \subseteq w[k + 1]
    BY <1>3, <2>2, <2>3
  <2>5. CASE step[w[k]] = w[k]
    BY <2>3, <2>4, <2>5
  <2>6. CASE step[w[k]] # w[k]
    <3>1. Cardinality(w[k]) >= k
      BY <1>3, <2>2, <2>6
    <3>2. /\ Cardinality(w[k]) <= Cardinality(w[k + 1])
          /\ Cardinality(w[k]) = Cardinality(w[k + 1]) => w[k] = w[k + 1]
      BY <1>1, <2>3, <2>4, FS_Subset
    <3>3. Cardinality(w[k]) \in Nat /\ Cardinality(w[k + 1]) \in Nat
      BY <1>1, <2>3
    <3>4. QED
      BY <2>3, <2>4, <2>6, <3>1, <3>2, <3>3
  <2>7. QED
    BY <2>5, <2>6
<1>4. \A k \in Nat : k \in Grows
  <2> HIDE DEF Grows
  <2> QED BY <1>2, <1>3, NatSetInduction
<1>5. w[0] \subseteq w[n] /\ (step[w[n]] = w[n] \/ Cardinality(w[n]) >= n)
  BY <1>4
<1>6. step[w[n]] = w[n]
  <2>1. SUFFICES ASSUME Cardinality(w[n]) >= n
                 PROVE  step[w[n]] = w[n]
    BY <1>5
  <2>2. w[n] \in SUBSET U
    OBVIOUS
  <2>3. Cardinality(w[n]) <= Cardinality(U) /\ (Cardinality(w[n]) = Cardinality(U) => U = w[n])
    BY <2>2, FS_Subset
  <2>4. Cardinality(U) \in Nat /\ Cardinality(w[n]) \in Nat
    BY <1>1
  <2>5. U = w[n]
    BY <2>1, <2>3, <2>4
  <2>6. step[w[n]] \in SUBSET U /\ w[n] \subseteq step[w[n]]
    BY <2>2
  <2>7. QED
    BY <2>5, <2>6
<1>7. ASSUME NEW S \in SUBSET U, w[0] \subseteq S,
             \A R \in SUBSET S : step[R] \subseteq S
      PROVE  w[n] \subseteq S
  <2> DEFINE Within == {k \in Nat : k <= n => w[k] \subseteq S}
  <2>1. 0 \in Within
    BY <1>7
  <2>2. ASSUME NEW k \in Nat, k \in Within
        PROVE  k + 1 \in Within
    <3>1. SUFFICES ASSUME k + 1 <= n
                   PROVE  w[k + 1] \subseteq S
      OBVIOUS
    <3>2. k + 1 \in 1..n /\ (k + 1) - 1 = k /\ k <= n
      BY <3>1
    <3>3. w[k + 1] = step[w[k]]
      BY <3>2
    <3>4. w[k] \in SUBSET S
      BY <2>2, <3>2
    <3>5. QED
      BY <1>7, <3>3, <3>4
  <2>3. \A k \in Nat : k \in Within
    <3> HIDE DEF Within
    <3> QED BY <2>1, <2>2, NatSetInduction
  <2>4. QED
    BY <2>3
<1>8. w[n] \in SUBSET U
  OBVIOUS
<1>9. \A S \in SUBSET U :
        w[0] \subseteq S /\ (\A R \in SUBSET S : step[R] \subseteq S) => w[n] \subseteq S
  BY <1>7
<1>10. QED
  BY <1>5, <1>6, <1>8, <1>9 DEF IsLeastClosed

\* The two together: growing a subset a of U by a step that only adds members.
Grows(step, U) ==
  step \in [SUBSET U -> SUBSET U] /\ \A R \in SUBSET U : R \subseteq step[R]

LEMMA Iteration ==
  ASSUME NEW U, IsFiniteSet(U), NEW n \in Nat, Cardinality(U) <= n,
         NEW a, a \subseteq U, NEW step, Grows(step, U)
  PROVE  \E w : AreIterates(w, SUBSET U, a, step, n) /\ IsLeastClosed(w[n], U, a, step)
<1>1. a \in SUBSET U /\ step \in [SUBSET U -> SUBSET U] /\ \A R \in SUBSET U : R \subseteq step[R]
  BY DEF Grows
<1>2. \E w : AreIterates(w, SUBSET U, a, step, n)
  <2> DEFINE D == SUBSET U
  <2>1. a \in D /\ step \in [D -> D]
    BY <1>1
  <2>2. \E w : AreIterates(w, D, a, step, n)
    <3> HIDE DEF D
    <3> QED BY <2>1, IteratesExist
  <2>3. QED
    BY <2>2
<1>3. PICK w : AreIterates(w, SUBSET U, a, step, n)
  BY <1>2
<1>4. w \in [0..n -> SUBSET U] /\ w[0] = a /\ \A k \in 1..n : w[k] = step[w[k - 1]]
  BY <1>3 DEF AreIterates
<1>5. IsLeastClosed(w[n], U, w[0], step)
  BY <1>1, <1>4, IteratesClose
<1>6. QED
  BY <1>3, <1>4, <1>5

-----------------------------------------------------------------------------
(***************************************************************************)
(* Adjacency lists and cycles.                                             *)
(***************************************************************************)
LEMMA LenOfFunction ==
  ASSUME NEW S, NEW k \in Nat, NEW c \in [1..k -> S]
  PROVE  Len(c) = k
<1>1. c \in Seq(S)
  BY SeqDef
<1>2. Len(c) \in Nat /\ 1..Len(c) = 1..k
  BY <1>1, LenProperties
<1>3. QED
  BY <1>2

\* An adjacency list names vertices, each one once.
LEMMA AdjacencyShape ==
  ASSUME NEW U \in SUBSET Int, NEW g \in Adjacencies(U)
  PROVE  /\ DOMAIN g = U
         /\ \A v \in U : /\ Len(g[v]) \in Nat
                         /\ \A i \in 1..Len(g[v]) : g[v][i] \in U
                         /\ \A i, j \in 1..Len(g[v]) : i # j => g[v][i] # g[v][j]
<1>1. g \in [U -> Seq(U)]
  BY DEF Adjacencies
<1>2. ASSUME NEW v \in U
      PROVE  /\ Len(g[v]) \in Nat
             /\ \A i \in 1..Len(g[v]) : g[v][i] \in U
             /\ \A i, j \in 1..Len(g[v]) : i # j => g[v][i] # g[v][j]
  <2>1. g[v] \in Seq(U)
    BY <1>1
  <2>2. \A i, j \in 1..Len(g[v]) : i < j => g[v][i] < g[v][j]
    BY DEF Adjacencies
  <2>3. Len(g[v]) \in Nat /\ \A i \in 1..Len(g[v]) : g[v][i] \in U
    BY <2>1
  <2>4. ASSUME NEW i \in 1..Len(g[v]), NEW j \in 1..Len(g[v]), i # j
        PROVE  g[v][i] # g[v][j]
    <3>1. g[v][i] \in Int /\ g[v][j] \in Int
      BY <2>3
    <3>2. i < j \/ j < i
      BY <2>3, <2>4
    <3>3. QED
      BY <2>2, <3>1, <3>2
  <2>5. QED
    BY <2>3, <2>4
<1>3. QED
  BY <1>1, <1>2

LEMMA CycleShape ==
  ASSUME NEW U, NEW g \in Adjacencies(U), NEW max \in Nat, NEW c \in Cycles(g, max)
  PROVE  /\ Len(c) \in 2..max /\ c \in [1..Len(c) -> U]
         /\ \A i \in 1..Len(c) : c[i] \in U
         /\ \A i, j \in 1..Len(c) : i # j => c[i] # c[j]
         /\ \A i \in 2..Len(c) : c[1] < c[i]
         /\ \A k \in 1..Len(c) : Successor(c, k) \in Neighbours(g, c[k])
<1>1. DOMAIN g = U
  BY DEF Adjacencies
<1>2. PICK k \in 2..max : c \in [1..k -> U]
  BY <1>1 DEF Cycles
<1>3. Len(c) = k
  BY <1>2, LenOfFunction
<1>4. IsSimpleCycle(g, c)
  BY DEF Cycles
<1>5. QED
  BY <1>2, <1>3, <1>4 DEF IsSimpleCycle

\* A simple path above its first vertex, the last vertex of which has the
\* first as a neighbour, is a cycle.
LEMMA ClosedPathIsCycle ==
  ASSUME NEW U, NEW g \in Adjacencies(U), NEW max \in Nat,
         NEW d \in 2..max, NEW c \in [1..d -> U],
         \A i, j \in 1..d : i # j => c[i] # c[j],
         \A i \in 2..d : c[1] < c[i],
         \A i \in 1..(d - 1) : c[i + 1] \in Neighbours(g, c[i]),
         c[1] \in Neighbours(g, c[d])
  PROVE  c \in Cycles(g, max) /\ Len(c) = d
<1>1. Len(c) = d
  BY LenOfFunction
<1>2. ASSUME NEW k \in 1..d
      PROVE  Successor(c, k) \in Neighbours(g, c[k])
  <2>1. CASE k = d
    BY <1>1, <2>1 DEF Successor
  <2>2. CASE k # d
    <3>1. k \in 1..(d - 1)
      BY <2>2
    <3>2. Successor(c, k) = c[k + 1]
      BY <1>1, <2>2 DEF Successor
    <3>3. QED
      BY <3>1, <3>2
  <2>3. QED
    BY <2>1, <2>2
<1>3. IsSimpleCycle(g, c)
  BY <1>1, <1>2 DEF IsSimpleCycle
<1>4. DOMAIN g = U
  BY DEF Adjacencies
<1>5. c \in UNION {[1..k -> DOMAIN g] : k \in 2..max}
  BY <1>4
<1>6. QED
  BY <1>1, <1>3, <1>5 DEF Cycles

\* Cycles by length.
LEMMA OfLengthFinite ==
  ASSUME NEW S, IsFiniteSet(S), NEW n
  PROVE  IsFiniteSet(OfLength(S, n)) /\ Cardinality(OfLength(S, n)) \in Nat
<1>1. OfLength(S, n) \subseteq S
  BY DEF OfLength
<1>2. QED
  BY <1>1, FS_Subset, FS_CardinalityType

LEMMA OfLengthAdd ==
  ASSUME NEW S, IsFiniteSet(S), NEW c, c \notin S, NEW n
  PROVE  Cardinality(OfLength(S \cup {c}, n))
           = IF Len(c) = n THEN Cardinality(OfLength(S, n)) + 1
                           ELSE Cardinality(OfLength(S, n))
<1>1. CASE Len(c) = n
  <2>1. OfLength(S \cup {c}, n) = OfLength(S, n) \cup {c} /\ c \notin OfLength(S, n)
    BY <1>1 DEF OfLength
  <2>2. QED
    BY <1>1, <2>1, OfLengthFinite, FS_AddElement
<1>2. CASE Len(c) # n
  <2>1. OfLength(S \cup {c}, n) = OfLength(S, n)
    BY <1>2 DEF OfLength
  <2>2. QED
    BY <1>2, <2>1
<1>3. QED
  BY <1>1, <1>2

-----------------------------------------------------------------------------
(***************************************************************************)
(* Depth-first search.  The frames of a search hold a vertex each, and the *)
(* offset of the next edge of it to look at; the frame above a vertex is   *)
(* of the edge consumed last.                                              *)
(***************************************************************************)
\* The cycle c starts with the path of the first d frames.
Follows(frames, d, c) ==
  d <= Len(c) /\ \A i \in 1..d : c[i] = frames[i].vertex

\* The cycle leaves the path of the frames at one of base .. d, by an edge not
\* consumed there.
Pending(g, frames, base, d, c) ==
  \E k \in base..d :
    /\ Follows(frames, k, c)
    /\ \E j \in frames[k].offset..Len(g[frames[k].vertex]) :
         g[frames[k].vertex][j] = Successor(c, k)

\* The frames base .. d are those of a search.
IsSearch(U, g, frames, base, d) ==
  /\ \A k \in base..d : /\ frames[k].vertex \in U
                        /\ frames[k].offset \in 1..(Len(g[frames[k].vertex]) + 1)
  /\ \A k \in base..(d - 1) :
       /\ frames[k].offset >= 2
       /\ g[frames[k].vertex][frames[k].offset - 1] = frames[k + 1].vertex

\* A closed walk of the graph.
IsWalk(g, c) ==
  Len(c) \in Nat /\ \A k \in 1..Len(c) : Successor(c, k) \in Neighbours(g, c[k])

LEMMA CycleIsWalk ==
  ASSUME NEW U, NEW g \in Adjacencies(U), NEW max \in Nat, NEW c \in Cycles(g, max)
  PROVE  IsWalk(g, c)
BY CycleShape DEF IsWalk

\* A walk that follows all the frames is pending at the last of them only.
LEMMA WalkAtTheEnd ==
  ASSUME NEW U \in SUBSET Int, NEW g \in Adjacencies(U),
         NEW c, IsWalk(g, c), NEW base \in Nat \ {0}, NEW d \in Nat, NEW frames,
         IsSearch(U, g, frames, base, d), Follows(frames, d, c),
         NEW k \in base..(d - 1)
  PROVE  ~ \E j \in frames[k].offset..Len(g[frames[k].vertex]) :
             g[frames[k].vertex][j] = Successor(c, k)
<1>1. k \in base..d /\ k + 1 \in 1..d /\ k + 1 <= Len(c) /\ Len(c) \in Nat
  BY DEF Follows, IsWalk
<1>2. Successor(c, k) = frames[k + 1].vertex
  BY <1>1 DEF Successor, Follows
<1>3. /\ frames[k].vertex \in U /\ frames[k].offset >= 2
      /\ frames[k].offset \in 1..(Len(g[frames[k].vertex]) + 1)
      /\ g[frames[k].vertex][frames[k].offset - 1] = frames[k + 1].vertex
  BY <1>1 DEF IsSearch
<1>4. /\ Len(g[frames[k].vertex]) \in Nat
      /\ \A i, j \in 1..Len(g[frames[k].vertex]) :
           i # j => g[frames[k].vertex][i] # g[frames[k].vertex][j]
  <2>1. \A v \in U : Len(g[v]) \in Nat /\ \A i, j \in 1..Len(g[v]) : i # j => g[v][i] # g[v][j]
    BY AdjacencyShape
  <2>2. QED
    BY <1>3, <2>1
<1>5. SUFFICES ASSUME NEW j \in frames[k].offset..Len(g[frames[k].vertex]),
                      g[frames[k].vertex][j] = Successor(c, k)
               PROVE  FALSE
  OBVIOUS
<1>6. frames[k].offset - 1 \in 1..Len(g[frames[k].vertex]) /\ j \in 1..Len(g[frames[k].vertex])
      /\ j # frames[k].offset - 1
  <2> DEFINE o == frames[k].offset
             n == Len(g[frames[k].vertex])
  <2>1. o \in 1..(n + 1) /\ o >= 2 /\ n \in Nat /\ j \in o..n
    BY <1>3, <1>4
  <2>2. o - 1 \in 1..n /\ j \in 1..n /\ j # o - 1
    <3> HIDE DEF o, n
    <3> QED BY <2>1
  <2>3. QED
    BY <2>2
<1>7. QED
  BY <1>2, <1>3, <1>4, <1>5, <1>6

\* Consuming an edge leaves pending the walks but those that take it.
LEMMA WalkConsume ==
  ASSUME NEW U \in SUBSET Int, NEW g \in Adjacencies(U),
         NEW c, IsWalk(g, c), NEW base \in Nat \ {0}, NEW d \in Nat, base <= d,
         NEW frames, NEW after,
         IsSearch(U, g, frames, base, d),
         \A i \in 1..d : after[i].vertex = frames[i].vertex,
         \A i \in 1..(d - 1) : after[i].offset = frames[i].offset,
         after[d].offset = frames[d].offset + 1,
         frames[d].offset <= Len(g[frames[d].vertex])
  PROVE  Pending(g, after, base, d, c)
           <=> /\ Pending(g, frames, base, d, c)
               /\ ~ /\ Follows(frames, d, c)
                    /\ Successor(c, d) = g[frames[d].vertex][frames[d].offset]
<1> DEFINE Left(f, k) == \E j \in f[k].offset..Len(g[f[k].vertex]) :
                            g[f[k].vertex][j] = Successor(c, k)
<1>1. \A k \in 1..d : Follows(after, k, c) <=> Follows(frames, k, c)
  BY DEF Follows
<1>2. \A k \in base..(d - 1) : Left(after, k) <=> Left(frames, k)
  <2>1. \A k \in base..(d - 1) : k \in 1..(d - 1) /\ k \in 1..d
    OBVIOUS
  <2>2. QED
    BY <2>1
<1>3. /\ frames[d].vertex \in U /\ d \in 1..d
      /\ frames[d].offset \in 1..Len(g[frames[d].vertex])
      /\ Len(g[frames[d].vertex]) \in Nat
      /\ \A i, j \in 1..Len(g[frames[d].vertex]) :
           i # j => g[frames[d].vertex][i] # g[frames[d].vertex][j]
  <2>1. d \in base..d /\ d \in 1..d
    OBVIOUS
  <2>2. frames[d].vertex \in U /\ frames[d].offset \in 1..(Len(g[frames[d].vertex]) + 1)
    BY <2>1 DEF IsSearch
  <2>3. \A v \in U : Len(g[v]) \in Nat /\ \A i, j \in 1..Len(g[v]) : i # j => g[v][i] # g[v][j]
    BY AdjacencyShape
  <2> DEFINE o == frames[d].offset
             v == frames[d].vertex
  <2>4. v \in U /\ o \in 1..(Len(g[v]) + 1) /\ o <= Len(g[v])
    BY <2>2
  <2>5. o \in 1..Len(g[v]) /\ Len(g[v]) \in Nat
        /\ \A i, j \in 1..Len(g[v]) : i # j => g[v][i] # g[v][j]
    <3> HIDE DEF o, v
    <3> QED BY <2>3, <2>4
  <2>6. QED
    BY <2>1, <2>4, <2>5
<1>4. Left(after, d) <=> /\ Left(frames, d)
                         /\ Successor(c, d) # g[frames[d].vertex][frames[d].offset]
  <2>1. after[d].vertex = frames[d].vertex
    BY <1>3
  <2>2. QED
    BY <1>3, <2>1, SMTT(30)
<1>5. /\ Pending(g, after, base, d, c) <=> \E k \in base..d : Follows(after, k, c) /\ Left(after, k)
      /\ Pending(g, frames, base, d, c) <=> \E k \in base..d : Follows(frames, k, c) /\ Left(frames, k)
  BY DEF Pending
<1>6. ASSUME Follows(frames, d, c), NEW k \in base..(d - 1)
      PROVE  ~Left(frames, k)
  <2>1. ~ \E j \in frames[k].offset..Len(g[frames[k].vertex]) :
            g[frames[k].vertex][j] = Successor(c, k)
    <3> HIDE DEF Left
    <3> QED BY <1>6, WalkAtTheEnd
  <2>2. QED
    BY <2>1
<1>7. \A k \in base..d : k \in 1..d /\ (k = d \/ k \in base..(d - 1))
  OBVIOUS
<1> HIDE DEF Left
<1>8. QED
  BY <1>1, <1>2, <1>3, <1>4, <1>5, <1>6, <1>7

\* A frame of a vertex just reached has every walk pending that follows it.
LEMMA WalkFresh ==
  ASSUME NEW U \in SUBSET Int, NEW g \in Adjacencies(U),
         NEW c, IsWalk(g, c), NEW d \in Nat \ {0}, NEW frames,
         frames[d].offset = 1, Follows(frames, d, c)
  PROVE  \E j \in frames[d].offset..Len(g[frames[d].vertex]) :
           g[frames[d].vertex][j] = Successor(c, d)
<1>1. d \in 1..Len(c) /\ c[d] = frames[d].vertex
  BY DEF Follows, IsWalk
<1>2. Successor(c, d) \in Neighbours(g, frames[d].vertex)
  BY <1>1 DEF IsWalk
<1>3. QED
  BY <1>2 DEF Neighbours

\* Going on to the vertex of the edge just consumed makes pending the walks
\* that take the edge.
LEMMA WalkPush ==
  ASSUME NEW U \in SUBSET Int, NEW g \in Adjacencies(U),
         NEW c, IsWalk(g, c), NEW base \in Nat \ {0}, NEW d \in Nat,
         base <= d + 1, NEW frames, NEW after,
         \A i \in 1..d : after[i] = frames[i],
         after[d + 1].offset = 1
  PROVE  Pending(g, after, base, d + 1, c)
           <=> Pending(g, frames, base, d, c) \/ Follows(after, d + 1, c)
<1> DEFINE Left(f, k) == \E j \in f[k].offset..Len(g[f[k].vertex]) :
                            g[f[k].vertex][j] = Successor(c, k)
<1>1. \A k \in base..d : /\ Follows(after, k, c) <=> Follows(frames, k, c)
                         /\ Left(after, k) <=> Left(frames, k)
  <2>1. \A k \in base..d : k \in 1..d /\ \A i \in 1..k : i \in 1..d
    OBVIOUS
  <2>2. QED
    BY <2>1 DEF Follows
<1>2. ASSUME Follows(after, d + 1, c)
      PROVE  Left(after, d + 1)
  <2>1. d + 1 \in Nat \ {0}
    OBVIOUS
  <2>2. \E j \in after[d + 1].offset..Len(g[after[d + 1].vertex]) :
           g[after[d + 1].vertex][j] = Successor(c, d + 1)
    <3> HIDE DEF Left
    <3> QED BY <1>2, <2>1, WalkFresh
  <2>3. QED
    BY <2>2
<1>3. /\ Pending(g, after, base, d + 1, c)
           <=> \E k \in base..(d + 1) : Follows(after, k, c) /\ Left(after, k)
      /\ Pending(g, frames, base, d, c)
           <=> \E k \in base..d : Follows(frames, k, c) /\ Left(frames, k)
  BY DEF Pending
<1>4. \A k \in base..(d + 1) : k \in base..d \/ k = d + 1
  OBVIOUS
<1>5. d + 1 \in base..(d + 1) /\ \A k \in base..d : k \in base..(d + 1)
  OBVIOUS
<1> HIDE DEF Left
<1>6. QED
  BY <1>1, <1>2, <1>3, <1>4, <1>5

\* The same of the simple cycles.
LEMMA PendingConsume ==
  ASSUME NEW U \in SUBSET Int, NEW g \in Adjacencies(U), NEW max \in Nat,
         NEW c \in Cycles(g, max), NEW base \in Nat \ {0}, NEW d \in Nat, base <= d,
         NEW frames, NEW after,
         IsSearch(U, g, frames, base, d),
         \A i \in 1..d : after[i].vertex = frames[i].vertex,
         \A i \in 1..(d - 1) : after[i].offset = frames[i].offset,
         after[d].offset = frames[d].offset + 1,
         frames[d].offset <= Len(g[frames[d].vertex])
  PROVE  Pending(g, after, base, d, c)
           <=> /\ Pending(g, frames, base, d, c)
               /\ ~ /\ Follows(frames, d, c)
                    /\ Successor(c, d) = g[frames[d].vertex][frames[d].offset]
<1>1. IsWalk(g, c)
  BY CycleIsWalk
<1>2. QED
  BY <1>1, WalkConsume

LEMMA PendingFresh ==
  ASSUME NEW U \in SUBSET Int, NEW g \in Adjacencies(U), NEW max \in Nat,
         NEW c \in Cycles(g, max), NEW d \in Nat \ {0}, NEW frames,
         frames[d].offset = 1, Follows(frames, d, c)
  PROVE  \E j \in frames[d].offset..Len(g[frames[d].vertex]) :
           g[frames[d].vertex][j] = Successor(c, d)
<1>1. IsWalk(g, c)
  BY CycleIsWalk
<1>2. QED
  BY <1>1, WalkFresh

LEMMA PendingPush ==
  ASSUME NEW U \in SUBSET Int, NEW g \in Adjacencies(U), NEW max \in Nat,
         NEW c \in Cycles(g, max), NEW base \in Nat \ {0}, NEW d \in Nat,
         base <= d + 1, NEW frames, NEW after,
         \A i \in 1..d : after[i] = frames[i],
         after[d + 1].offset = 1
  PROVE  Pending(g, after, base, d + 1, c)
           <=> Pending(g, frames, base, d, c) \/ Follows(after, d + 1, c)
<1>1. IsWalk(g, c)
  BY CycleIsWalk
<1>2. QED
  BY <1>1, WalkPush

\* Nothing is pending at a frame all edges of which are consumed.
LEMMA PendingPop ==
  ASSUME NEW U, NEW g \in Adjacencies(U), NEW c,
         NEW base \in Nat \ {0}, NEW d \in Nat \ {0}, NEW frames, NEW after,
         \A i \in 1..(d - 1) : /\ after[i].vertex = frames[i].vertex
                               /\ after[i].offset = frames[i].offset,
         frames[d].offset \in Nat, Len(g[frames[d].vertex]) \in Nat,
         frames[d].offset > Len(g[frames[d].vertex])
  PROVE  Pending(g, after, base, d - 1, c) <=> Pending(g, frames, base, d, c)
<1> DEFINE Left(f, k) == \E j \in f[k].offset..Len(g[f[k].vertex]) :
                            g[f[k].vertex][j] = Successor(c, k)
<1>1. \A k \in base..(d - 1) : /\ Follows(after, k, c) <=> Follows(frames, k, c)
                               /\ Left(after, k) <=> Left(frames, k)
  <2>1. \A k \in base..(d - 1) : k \in 1..(d - 1) /\ \A i \in 1..k : i \in 1..(d - 1)
    OBVIOUS
  <2>2. QED
    BY <2>1 DEF Follows
<1>2. ~Left(frames, d)
  OBVIOUS
<1>3. /\ Pending(g, after, base, d - 1, c)
           <=> \E k \in base..(d - 1) : Follows(after, k, c) /\ Left(after, k)
      /\ Pending(g, frames, base, d, c)
           <=> \E k \in base..d : Follows(frames, k, c) /\ Left(frames, k)
  BY DEF Pending
<1>4. \A k \in base..d : k \in base..(d - 1) \/ k = d
  OBVIOUS
<1>5. \A k \in base..(d - 1) : k \in base..d
  OBVIOUS
<1> HIDE DEF Left
<1>6. QED
  BY <1>1, <1>2, <1>3, <1>4, <1>5

-----------------------------------------------------------------------------
(***************************************************************************)
(* Sums over a finite set, as the folds of the community modules form      *)
(* them: the function that sums the subsets of S takes away one element    *)
(* after the other.                                                        *)
(***************************************************************************)
Pick(s) == CHOOSE x \in s : TRUE

SumStep(f, n, sums, s) == IF s = {} THEN 0 ELSE f[Pick(s)][n] + sums[s \ {Pick(s)}]

TallySum(f, n, S) == CHOOSE sums : sums = [s \in SUBSET S |-> SumStep(f, n, sums, s)]

LEMMA PickFrom ==
  ASSUME NEW s, s # {}
  PROVE  Pick(s) \in s
BY DEF Pick

\* The recursion that defines the sum is well-founded.
LEMMA TallySumExists ==
  ASSUME NEW S, IsFiniteSet(S), NEW f, NEW n
  PROVE  \A s \in SUBSET S :
           TallySum(f, n, S)[s] = SumStep(f, n, TallySum(f, n, S), s)
<1> DEFINE Small(k) == {s \in SUBSET S : Cardinality(s) <= k}
           Good == {k \in Nat : \E sums : sums = [s \in Small(k) |-> SumStep(f, n, sums, s)]}
<1>1. \A s \in SUBSET S : /\ IsFiniteSet(s) /\ Cardinality(s) \in Nat
                          /\ Cardinality(s) = 0 <=> s = {}
                          /\ Cardinality(s) <= Cardinality(S)
  BY FS_Subset, FS_CardinalityType, FS_EmptySet
<1>2. 0 \in Good
  <2> DEFINE zero == [s \in Small(0) |-> 0]
  <2>1. \A s \in Small(0) : s = {}
    BY <1>1
  <2>2. zero = [s \in Small(0) |-> SumStep(f, n, zero, s)]
    BY <2>1 DEF SumStep
  <2>3. \E sums : sums = [s \in Small(0) |-> SumStep(f, n, sums, s)]
    <3> HIDE DEF zero, Small
    <3> QED BY <2>2
  <2>4. QED
    BY <2>3
<1>3. ASSUME NEW k \in Nat, k \in Good
      PROVE  k + 1 \in Good
  <2>1. PICK old : old = [s \in Small(k) |-> SumStep(f, n, old, s)]
    BY <1>3
  <2> DEFINE new == [s \in Small(k + 1) |-> SumStep(f, n, old, s)]
  <2>2. ASSUME NEW s \in Small(k + 1), s # {}
        PROVE  s \ {Pick(s)} \in Small(k) /\ s \ {Pick(s)} \in Small(k + 1)
    <3>1. Pick(s) \in s /\ IsFiniteSet(s) /\ Cardinality(s) \in Nat /\ Cardinality(s) <= k + 1
      BY <1>1, <2>2, PickFrom
    <3>2. Cardinality(s \ {Pick(s)}) = Cardinality(s) - 1
      BY <3>1, FS_RemoveElement
    <3>3. s \ {Pick(s)} \in SUBSET S
      OBVIOUS
    <3> HIDE DEF Small
    <3>4. Cardinality(s \ {Pick(s)}) <= k /\ Cardinality(s \ {Pick(s)}) <= k + 1
      BY <3>1, <3>2
    <3>5. QED
      BY <3>3, <3>4 DEF Small
  <2>3. \A s \in Small(k) : s \in Small(k + 1)
    BY <1>1
  <2>4. \A s \in Small(k) : old[s] = SumStep(f, n, old, s)
    <3> HIDE DEF Small
    <3> QED BY <2>1
  <2>5. \A s \in Small(k + 1) : new[s] = SumStep(f, n, old, s)
    <3> HIDE DEF Small
    <3> QED OBVIOUS
  <2>6. \A s \in Small(k + 1) : SumStep(f, n, old, s) = SumStep(f, n, new, s)
    <3> HIDE DEF Small, new
    <3> QED BY <2>2, <2>3, <2>4, <2>5 DEF SumStep
  <2>7. new = [s \in Small(k + 1) |-> new[s]]
    <3> HIDE DEF Small
    <3> QED OBVIOUS
  <2>8. new = [s \in Small(k + 1) |-> SumStep(f, n, new, s)]
    <3> HIDE DEF Small, new
    <3> QED BY <2>5, <2>6, <2>7
  <2>9. \E sums : sums = [s \in Small(k + 1) |-> SumStep(f, n, sums, s)]
    <3> HIDE DEF Small, new
    <3> QED BY <2>8
  <2>10. QED
    <3> HIDE DEF Small
    <3> QED BY <2>9
<1>4. Cardinality(S) \in Good
  <2>1. \A k \in Nat : k \in Good
    <3> HIDE DEF Good
    <3> QED BY <1>2, <1>3, NatSetInduction
  <2>2. QED
    BY <2>1, FS_CardinalityType
<1>5. Small(Cardinality(S)) = SUBSET S
  BY <1>1
<1>6. \E sums : sums = [s \in SUBSET S |-> SumStep(f, n, sums, s)]
  <2> HIDE DEF Small
  <2> QED BY <1>4, <1>5
<1>7. TallySum(f, n, S) = [s \in SUBSET S |-> SumStep(f, n, TallySum(f, n, S), s)]
  BY <1>6 DEF TallySum
<1>8. QED
  <2> DEFINE total == TallySum(f, n, S)
  <2>1. total = [s \in SUBSET S |-> SumStep(f, n, total, s)]
    BY <1>7
  <2> HIDE DEF total
  <2>2. \A s \in SUBSET S : total[s] = SumStep(f, n, total, s)
    BY <2>1
  <2>3. QED
    BY <2>2 DEF total

\* The numbers f[_][n] are the sizes of sets that have no element in common.
AreSizes(f, n, A, S) ==
  /\ \A x \in S : IsFiniteSet(A[x]) /\ f[x][n] = Cardinality(A[x])
  /\ \A x, y \in S : x # y => A[x] \cap A[y] = {}

\* Their sum is the size of the union.
LEMMA SumOfDisjoint ==
  ASSUME NEW S, IsFiniteSet(S), NEW f, NEW n, NEW A, AreSizes(f, n, A, S),
         NEW all, all = UNION {A[x] : x \in S}
  PROVE  IsFiniteSet(all) /\ TallySum(f, n, S)[S] = Cardinality(all)
<1> DEFINE Sum(s) == TallySum(f, n, S)[s]
           All(s) == UNION {A[x] : x \in s}
           Good == {k \in Nat : \A s \in SUBSET S :
                      Cardinality(s) = k => IsFiniteSet(All(s)) /\ Sum(s) = Cardinality(All(s))}
<1>1. \A s \in SUBSET S : /\ IsFiniteSet(s) /\ Cardinality(s) \in Nat
                          /\ Cardinality(s) = 0 <=> s = {}
  BY FS_Subset, FS_CardinalityType, FS_EmptySet
<1>2. \A s \in SUBSET S :
        Sum(s) = IF s = {} THEN 0 ELSE f[Pick(s)][n] + Sum(s \ {Pick(s)})
  BY TallySumExists DEF SumStep
<1> HIDE DEF Sum
<1>3. 0 \in Good
  <2>1. All({}) = {}
    OBVIOUS
  <2>2. Sum({}) = 0
    BY <1>2
  <2>3. QED
    <3> HIDE DEF All
    <3> QED BY <1>1, <2>1, <2>2, FS_EmptySet
<1>4. ASSUME NEW k \in Nat, k \in Good
      PROVE  k + 1 \in Good
  <2>1. ASSUME NEW s \in SUBSET S, Cardinality(s) = k + 1
        PROVE  IsFiniteSet(All(s)) /\ Sum(s) = Cardinality(All(s))
    <3> DEFINE x == Pick(s)
               r == s \ {x}
    <3>1. s # {} /\ IsFiniteSet(s)
      BY <1>1, <2>1
    <3>2. x \in s /\ x \in S
      BY <3>1, PickFrom
    <3>3. Cardinality(r) = k /\ r \in SUBSET S
      <4> HIDE DEF x
      <4>1. Cardinality(r) = Cardinality(s) - 1
        BY <3>1, <3>2, FS_RemoveElement
      <4>2. QED
        BY <2>1, <4>1
    <3>4. IsFiniteSet(All(r)) /\ Sum(r) = Cardinality(All(r))
      <4> HIDE DEF All, r
      <4> QED BY <1>4, <3>3
    <3>5. Sum(s) = f[x][n] + Sum(r)
      BY <1>2, <3>1
    <3> HIDE DEF x
    <3>6. All(s) = All(r) \cup A[x] /\ All(r) \cap A[x] = {}
      <4>1. All(s) = All(r) \cup A[x]
        BY <3>2
      <4>2. All(r) \cap A[x] = {}
        BY <3>2 DEF AreSizes
      <4>3. QED
        BY <4>1, <4>2
    <3>7. IsFiniteSet(A[x]) /\ f[x][n] = Cardinality(A[x])
      BY <3>2 DEF AreSizes
    <3> HIDE DEF All, r
    <3>8. /\ IsFiniteSet(All(r) \cup A[x])
          /\ Cardinality(All(r) \cup A[x])
               = Cardinality(All(r)) + Cardinality(A[x]) - Cardinality(All(r) \cap A[x])
      BY <3>4, <3>7, FS_Union
    <3>9. /\ Cardinality(All(r)) \in Nat /\ Cardinality(A[x]) \in Nat
          /\ Cardinality(All(r) \cap A[x]) = 0
      BY <3>4, <3>6, <3>7, FS_CardinalityType, FS_EmptySet
    <3>10. QED
      BY <3>4, <3>5, <3>6, <3>7, <3>8, <3>9
  <2>2. QED
    <3> HIDE DEF All
    <3> QED BY <2>1
<1>5. \A k \in Nat : k \in Good
  <2> HIDE DEF Good
  <2> QED BY <1>3, <1>4, NatSetInduction
<1>6. all = All(S)
  OBVIOUS
<1>7. IsFiniteSet(All(S)) /\ Sum(S) = Cardinality(All(S))
  <2> HIDE DEF All
  <2>1. Cardinality(S) \in Nat /\ S \in SUBSET S
    BY FS_CardinalityType
  <2>2. QED
    BY <1>5, <2>1
<1>8. QED
  <2> HIDE DEF All
  <2> QED BY <1>6, <1>7 DEF Sum

\* A sum in which one number grows by k grows by k.
LEMMA SumOfChanged ==
  ASSUME NEW S, IsFiniteSet(S), NEW n, NEW f, NEW h, NEW x \in S, NEW k \in Int,
         \A y \in S : f[y][n] \in Int /\ h[y][n] = IF y = x THEN f[y][n] + k ELSE f[y][n]
  PROVE  /\ TallySum(f, n, S)[S] \in Int
         /\ TallySum(h, n, S)[S] = TallySum(f, n, S)[S] + k
<1> DEFINE Old(s) == TallySum(f, n, S)[s]
           New(s) == TallySum(h, n, S)[s]
           More(s) == IF x \in s THEN k ELSE 0
           Good == {m \in Nat : \A s \in SUBSET S :
                      Cardinality(s) = m => Old(s) \in Int /\ New(s) = Old(s) + More(s)}
<1>1. \A s \in SUBSET S : /\ IsFiniteSet(s) /\ Cardinality(s) \in Nat
                          /\ Cardinality(s) = 0 <=> s = {}
  BY FS_Subset, FS_CardinalityType, FS_EmptySet
<1>2. \A s \in SUBSET S :
        /\ Old(s) = IF s = {} THEN 0 ELSE f[Pick(s)][n] + Old(s \ {Pick(s)})
        /\ New(s) = IF s = {} THEN 0 ELSE h[Pick(s)][n] + New(s \ {Pick(s)})
  <2>1. \A s \in SUBSET S : Old(s) = IF s = {} THEN 0 ELSE f[Pick(s)][n] + Old(s \ {Pick(s)})
    BY TallySumExists DEF SumStep
  <2>2. \A s \in SUBSET S : New(s) = IF s = {} THEN 0 ELSE h[Pick(s)][n] + New(s \ {Pick(s)})
    BY TallySumExists DEF SumStep
  <2>3. QED
    BY <2>1, <2>2
<1> HIDE DEF Old, New
<1>3. 0 \in Good
  <2>1. Old({}) = 0 /\ New({}) = 0
    BY <1>2
  <2>2. More({}) = 0
    OBVIOUS
  <2> HIDE DEF More
  <2>3. QED
    BY <1>1, <2>1, <2>2
<1>4. ASSUME NEW m \in Nat, m \in Good
      PROVE  m + 1 \in Good
  <2>1. ASSUME NEW s \in SUBSET S, Cardinality(s) = m + 1
        PROVE  Old(s) \in Int /\ New(s) = Old(s) + More(s)
    <3> DEFINE y == Pick(s)
               r == s \ {y}
    <3>1. s # {} /\ IsFiniteSet(s)
      BY <1>1, <2>1
    <3>2. y \in s /\ y \in S
      BY <3>1, PickFrom
    <3>3. Cardinality(r) = m /\ r \in SUBSET S
      <4> HIDE DEF y
      <4>1. Cardinality(r) = Cardinality(s) - 1
        BY <3>1, <3>2, FS_RemoveElement
      <4>2. QED
        BY <2>1, <4>1
    <3>4. Old(r) \in Int /\ New(r) = Old(r) + More(r)
      <4> HIDE DEF r, More
      <4> QED BY <1>4, <3>3
    <3>5. Old(s) = f[y][n] + Old(r) /\ New(s) = h[y][n] + New(r)
      BY <1>2, <3>1
    <3> HIDE DEF y
    <3>6. f[y][n] \in Int /\ h[y][n] = IF y = x THEN f[y][n] + k ELSE f[y][n]
      BY <3>2
    <3>7. More(s) = (IF y = x THEN k ELSE 0) + More(r)
      BY <3>2
    <3>8. More(r) \in Int
      OBVIOUS
    <3> HIDE DEF r, More
    <3>9. QED
      BY <3>4, <3>5, <3>6, <3>7, <3>8
  <2>2. QED
    <3> HIDE DEF More
    <3> QED BY <2>1
<1>5. \A m \in Nat : m \in Good
  <2> HIDE DEF Good
  <2> QED BY <1>3, <1>4, NatSetInduction
<1>6. Old(S) \in Int /\ New(S) = Old(S) + More(S)
  <2>1. Cardinality(S) \in Nat /\ S \in SUBSET S
    BY FS_CardinalityType
  <2> HIDE DEF More
  <2>2. QED
    BY <1>5, <2>1
<1>7. QED
  BY <1>6 DEF Old, New

\* A sum of equal numbers, pairwise, and one of zeros.
LEMMA SumOfEqual ==
  ASSUME NEW S, IsFiniteSet(S), NEW n, NEW f, NEW h,
         \A y \in S : f[y][n] \in Int /\ h[y][n] = f[y][n]
  PROVE  TallySum(f, n, S)[S] \in Int /\ TallySum(h, n, S)[S] = TallySum(f, n, S)[S]
<1>1. CASE S = {}
  <2>1. S \in SUBSET S
    OBVIOUS
  <2>2. TallySum(f, n, S)[S] = 0 /\ TallySum(h, n, S)[S] = 0
    BY <1>1, <2>1, TallySumExists DEF SumStep
  <2>3. QED
    BY <2>2
<1>2. CASE S # {}
  <2>1. PICK x \in S : TRUE
    BY <1>2
  <2>2. \A y \in S : f[y][n] \in Int /\ h[y][n] = IF y = x THEN f[y][n] + 0 ELSE f[y][n]
    OBVIOUS
  <2>3. 0 \in Int
    OBVIOUS
  <2>4. /\ TallySum(f, n, S)[S] \in Int
        /\ TallySum(h, n, S)[S] = TallySum(f, n, S)[S] + 0
    BY <2>2, <2>3, SumOfChanged
  <2>5. QED
    BY <2>4
<1>3. QED
  BY <1>1, <1>2

LEMMA SumOfZeros ==
  ASSUME NEW S, IsFiniteSet(S), NEW n, NEW f, \A y \in S : f[y][n] = 0
  PROVE  TallySum(f, n, S)[S] = 0
<1> DEFINE A == [y \in S |-> {}]
<1>1. AreSizes(f, n, A, S)
  BY FS_EmptySet DEF AreSizes
<1>2. UNION {A[y] : y \in S} = {}
  OBVIOUS
<1> HIDE DEF A
<1>3. TallySum(f, n, S)[S] = Cardinality({})
  BY <1>1, <1>2, SumOfDisjoint
<1>4. QED
  BY <1>3, FS_EmptySet
=============================================================================
