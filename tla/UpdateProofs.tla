---------------------------- MODULE UpdateProofs ----------------------------
(***************************************************************************)
(* What holds of the incremental update, by a team of threads and by the   *)
(* CUDA kernel, for every graph, batch, length bound, team and device: the *)
(* visited buffers are restored, no cycle is counted for two changes nor   *)
(* missed, and the histogram returned is that of the graph after the       *)
(* batch.                                                                  *)
(*                                                                         *)
(* First come facts about the operators of an update: sorted lists, the    *)
(* graph after a batch, a cycle named from its least vertex on and the     *)
(* closed walks it is found as, and the search of the cycles that have a   *)
(* change as the first one on them.  Then the team; and then the kernel,   *)
(* which searches all changes at once, in the slices of three pools.       *)
(***************************************************************************)
EXTENDS CudaUpdate, CycleFacts

-----------------------------------------------------------------------------
(***************************************************************************)
(* Sorted lists.                                                           *)
(***************************************************************************)
\* Below[x] are the elements before x in a strict total order of S.
IsOrder(S, Below) ==
  /\ Below \in [S -> SUBSET S]
  /\ \A x \in S : x \notin Below[x]
  /\ \A x, y \in S : x # y => x \in Below[y] \/ y \in Below[x]
  /\ \A x, y, z \in S : x \in Below[y] /\ y \in Below[z] => x \in Below[z]

\* In a finite order the number of elements below tells elements apart, and
\* every rank is taken.
LEMMA Ranks ==
  ASSUME NEW S, IsFiniteSet(S), NEW Below, IsOrder(S, Below)
  PROVE  /\ Cardinality(S) \in Nat
         /\ \A x \in S : Cardinality(Below[x]) \in 0..(Cardinality(S) - 1)
         /\ \A x, y \in S : x \in Below[y] <=> Cardinality(Below[x]) < Cardinality(Below[y])
         /\ \A x, y \in S : Cardinality(Below[x]) = Cardinality(Below[y]) => x = y
         /\ \A i \in 1..Cardinality(S) : \E x \in S : Cardinality(Below[x]) = i - 1
<1> DEFINE n == Cardinality(S)
           rank(x) == Cardinality(Below[x])
<1>1. n \in Nat
  BY FS_CardinalityType
<1>2. ASSUME NEW x \in S
      PROVE  IsFiniteSet(Below[x]) /\ rank(x) \in Nat /\ rank(x) < n
  <2>1. Below[x] \in SUBSET S /\ Below[x] # S
    BY DEF IsOrder
  <2>2. QED
    BY <1>1, <2>1, FS_Subset, FS_CardinalityType
<1>3. ASSUME NEW x \in S, NEW y \in S, x \in Below[y]
      PROVE  rank(x) < rank(y)
  <2>1. Below[x] \subseteq Below[y] /\ Below[x] # Below[y]
    BY <1>3 DEF IsOrder
  <2>2. IsFiniteSet(Below[y])
    BY <1>2
  <2>3. Cardinality(Below[x]) <= Cardinality(Below[y])
        /\ Cardinality(Below[x]) # Cardinality(Below[y])
    BY <2>1, <2>2, FS_Subset
  <2>4. rank(x) \in Nat /\ rank(y) \in Nat
    BY <1>2
  <2>5. QED
    BY <2>3, <2>4
<1>4. ASSUME NEW x \in S, NEW y \in S, rank(x) < rank(y)
      PROVE  x \in Below[y]
  <2>1. rank(x) \in Nat /\ rank(y) \in Nat
    BY <1>2
  <2>2. x # y
    BY <1>4, <2>1
  <2>3. y \notin Below[x]
    <3>1. ~(rank(y) < rank(x))
      <4> HIDE DEF rank
      <4> QED BY <1>4, <2>1
    <3>2. QED
      BY <1>3, <3>1
  <2>4. QED
    BY <2>2, <2>3 DEF IsOrder
<1>5. ASSUME NEW x \in S, NEW y \in S, rank(x) = rank(y)
      PROVE  x = y
  <2>1. rank(x) \in Nat /\ rank(y) \in Nat
    BY <1>2
  <2>2. ~(rank(x) < rank(y)) /\ ~(rank(y) < rank(x))
    <3> HIDE DEF rank
    <3> QED BY <1>5, <2>1
  <2>3. QED
    BY <1>3, <2>2 DEF IsOrder
<1>6. ASSUME NEW i \in 1..n
      PROVE  \E x \in S : rank(x) = i - 1
  <2> DEFINE R == 0..(n - 1)
             f == [x \in S |-> rank(x)]
  <2>1. IsFiniteSet(R) /\ Cardinality(R) = n
    <3>1. 0 \in Int /\ n - 1 \in Int /\ (0 > n - 1 => n = 0) /\ (n - 1) - 0 + 1 = n
      BY <1>1
    <3> HIDE DEF n
    <3>2. QED
      BY <3>1, FS_Interval
  <2>2. f \in Injection(S, R)
    <3>1. f \in [S -> R]
      BY <1>1, <1>2
    <3>2. \A x, y \in S : f[x] = f[y] => x = y
      BY <1>5
    <3> HIDE DEF f, R
    <3>3. QED
      BY <3>1, <3>2 DEF Injection, IsInjective
  <2>3. f \in Surjection(S, R)
    <3> HIDE DEF f, R
    <3> QED BY <2>1, <2>2, FS_Injection
  <2>4. i - 1 \in R
    BY <1>1
  <2>5. \E x \in S : f[x] = i - 1
    <3> HIDE DEF f, R
    <3> QED BY <2>3, <2>4 DEF Surjection
  <2>6. QED
    BY <2>5
<1>7. \A x \in S : rank(x) \in 0..(n - 1)
  BY <1>1, <1>2
<1>8. QED
  BY <1>1, <1>3, <1>4, <1>5, <1>6, <1>7

LEMMA RankTaken ==
  ASSUME NEW S, IsFiniteSet(S), NEW Below, IsOrder(S, Below), NEW i \in 1..Cardinality(S)
  PROVE  \E x \in S : Cardinality(Below[x]) = i - 1
BY Ranks

\* A list of the elements of S, each one once, the smaller before the greater.
IsListOf(list, S, Below) ==
  /\ list \in [1..Cardinality(S) -> S] /\ Cardinality(S) \in Nat
  /\ \A x \in S : \E i \in 1..Cardinality(S) : list[i] = x
  /\ \A i, j \in 1..Cardinality(S) : list[i] \in Below[list[j]] <=> i < j

LEMMA ListOfRanks ==
  ASSUME NEW S, IsFiniteSet(S), NEW Below, IsOrder(S, Below),
         NEW list, DOMAIN list = 1..Cardinality(S), list = [i \in DOMAIN list |-> list[i]],
         \A i \in 1..Cardinality(S) : list[i] \in S /\ Cardinality(Below[list[i]]) = i - 1
  PROVE  IsListOf(list, S, Below)
<1> DEFINE n == Cardinality(S)
           rank(x) == Cardinality(Below[x])
<1>1. /\ n \in Nat
      /\ \A x \in S : rank(x) \in 0..(n - 1)
      /\ \A x, y \in S : x \in Below[y] <=> rank(x) < rank(y)
      /\ \A x, y \in S : rank(x) = rank(y) => x = y
  BY Ranks
<1> HIDE DEF n, rank
<1>2. DOMAIN list = 1..n /\ \A i \in 1..n : list[i] \in S /\ rank(list[i]) = i - 1
  BY DEF n, rank
<1>3. list \in [1..n -> S]
  BY <1>2
<1>4. ASSUME NEW x \in S
      PROVE  \E i \in 1..n : list[i] = x
  <2>1. rank(x) + 1 \in 1..n /\ (rank(x) + 1) - 1 = rank(x)
    BY <1>1
  <2>2. QED
    BY <1>1, <1>2, <2>1
<1>5. ASSUME NEW i \in 1..n, NEW j \in 1..n
      PROVE  list[i] \in Below[list[j]] <=> i < j
  BY <1>1, <1>2
<1>6. QED
  BY <1>1, <1>3, <1>4, <1>5 DEF n, IsListOf

\* The vertices in order.
VerticesBelow(S) == [x \in S |-> {y \in S : y < x}]

LEMMA VertexOrder ==
  ASSUME NEW S, S \subseteq Int
  PROVE  IsOrder(S, VerticesBelow(S))
BY DEF IsOrder, VerticesBelow

LEMMA ListOfVertices ==
  ASSUME NEW S, S \subseteq Int, IsFiniteSet(S)
  PROVE  IsListOf(InOrder(S, <), S, VerticesBelow(S))
<1> DEFINE list == InOrder(S, <)
           B == VerticesBelow(S)
<1>1. \A x \in S : B[x] = {y \in S : y < x}
  BY DEF VerticesBelow
<1>2. \A i \in 1..Cardinality(S) : \E x \in S : Cardinality(B[x]) = i - 1
  <2>1. IsOrder(S, B)
    BY VertexOrder
  <2> HIDE DEF B, list
  <2>2. QED
    BY <2>1, RankTaken, Zenon
<1>3. list = [i \in 1..Cardinality(S) |->
                CHOOSE x \in S : Cardinality({y \in S : y < x}) = i - 1]
  BY DEF InOrder
<1>4. ASSUME NEW i \in 1..Cardinality(S)
      PROVE  list[i] \in S /\ Cardinality(B[list[i]]) = i - 1
  <2>1. list[i] = CHOOSE x \in S : Cardinality({y \in S : y < x}) = i - 1
    BY <1>3
  <2>2. \E x \in S : Cardinality({y \in S : y < x}) = i - 1
    BY <1>1, <1>2
  <2> HIDE DEF list
  <2>3. list[i] \in S /\ Cardinality({y \in S : y < list[i]}) = i - 1
    BY <2>1, <2>2
  <2>4. QED
    BY <1>1, <2>3
<1>5. DOMAIN list = 1..Cardinality(S) /\ list = [i \in DOMAIN list |-> list[i]]
  BY <1>3
<1>6. QED
  <2> HIDE DEF list, B
  <2>1. IsOrder(S, B)
    BY VertexOrder DEF B
  <2>2. IsListOf(list, S, B)
    BY <1>4, <1>5, <2>1, ListOfRanks
  <2>3. QED
    BY <2>2 DEF list, B

\* The edges in order.
EdgesBelow(S) == [e \in S |-> {f \in S : SmallerEdge(f, e)}]

LEMMA EdgeOrder ==
  ASSUME NEW S, S \subseteq V \X V, V \subseteq Int
  PROVE  IsOrder(S, EdgesBelow(S))
<1>1. \A e \in S : e = <<e[1], e[2]>> /\ e[1] \in Int /\ e[2] \in Int
  <2>1. \A e \in V \X V : e = <<e[1], e[2]>> /\ e[1] \in V /\ e[2] \in V
    OBVIOUS
  <2>2. QED
    BY <2>1
<1>2. \A e, f \in S : f \in EdgesBelow(S)[e] <=> SmallerEdge(f, e)
  BY DEF EdgesBelow
<1>3. \A e \in S : ~SmallerEdge(e, e)
  BY <1>1 DEF SmallerEdge
<1>4. \A e, f \in S : e # f => SmallerEdge(e, f) \/ SmallerEdge(f, e)
  <2>1. \A e, f \in S : e # f => e[1] # f[1] \/ e[2] # f[2]
    BY <1>1
  <2>2. QED
    BY <1>1, <2>1 DEF SmallerEdge
<1>5. \A e, f, h \in S : SmallerEdge(e, f) /\ SmallerEdge(f, h) => SmallerEdge(e, h)
  BY <1>1 DEF SmallerEdge
<1>6. EdgesBelow(S) \in [S -> SUBSET S]
  BY DEF EdgesBelow
<1>7. QED
  BY <1>2, <1>3, <1>4, <1>5, <1>6 DEF IsOrder

LEMMA ListOfEdges ==
  ASSUME NEW S, S \subseteq V \X V, V \subseteq Int, IsFiniteSet(S)
  PROVE  IsListOf(InOrder(S, SmallerEdge), S, EdgesBelow(S))
<1> DEFINE list == InOrder(S, SmallerEdge)
           B == EdgesBelow(S)
<1>1. \A x \in S : B[x] = {y \in S : SmallerEdge(y, x)}
  BY DEF EdgesBelow
<1>2. \A i \in 1..Cardinality(S) : \E x \in S : Cardinality(B[x]) = i - 1
  <2>1. IsOrder(S, B)
    BY EdgeOrder
  <2> HIDE DEF B, list
  <2>2. QED
    BY <2>1, RankTaken, Zenon
<1>3. list = [i \in 1..Cardinality(S) |->
                CHOOSE x \in S : Cardinality({y \in S : SmallerEdge(y, x)}) = i - 1]
  BY DEF InOrder
<1>4. ASSUME NEW i \in 1..Cardinality(S)
      PROVE  list[i] \in S /\ Cardinality(B[list[i]]) = i - 1
  <2>1. list[i] = CHOOSE x \in S : Cardinality({y \in S : SmallerEdge(y, x)}) = i - 1
    BY <1>3
  <2>2. \E x \in S : Cardinality({y \in S : SmallerEdge(y, x)}) = i - 1
    BY <1>1, <1>2
  <2> HIDE DEF list
  <2>3. list[i] \in S /\ Cardinality({y \in S : SmallerEdge(y, list[i])}) = i - 1
    BY <2>1, <2>2
  <2>4. QED
    BY <1>1, <2>3
<1>5. DOMAIN list = 1..Cardinality(S) /\ list = [i \in DOMAIN list |-> list[i]]
  BY <1>3
<1>6. QED
  <2> HIDE DEF list, B
  <2>1. IsOrder(S, B)
    BY EdgeOrder DEF B
  <2>2. IsListOf(list, S, B)
    BY <1>4, <1>5, <2>1, ListOfRanks
  <2>3. QED
    BY <2>2 DEF list, B

-----------------------------------------------------------------------------
(***************************************************************************)
(* Graphs and batches.                                                     *)
(***************************************************************************)
LEMMA VertexFacts ==
  /\ N \in Nat \ {0} /\ MaxLength \in Nat /\ MaxLength >= 2
  /\ V \subseteq Int /\ V \subseteq Nat /\ IsFiniteSet(V)
BY RequestAssumption, FS_Interval DEF V

LEMMA SequenceOf ==
  ASSUME NEW S, NEW n \in Nat, NEW list \in [1..n -> S]
  PROVE  list \in Seq(S)
BY SeqDef

\* The adjacency lists of sets of neighbours.
LEMMA ListsOfNeighbours ==
  ASSUME NEW nb, \A v \in V : nb[v] \subseteq V,
         NEW g, DOMAIN g = V, g = [v \in V |-> g[v]],
         \A v \in V : g[v] = InOrder(nb[v], <)
  PROVE  g \in Adjacencies(V) /\ \A v \in V : Neighbours(g, v) = nb[v]
<1>1. ASSUME NEW v \in V
      PROVE  /\ g[v] \in Seq(V)
             /\ \A i, j \in 1..Len(g[v]) : i < j => g[v][i] < g[v][j]
             /\ Neighbours(g, v) = nb[v]
  <2> DEFINE W == nb[v]
             list == InOrder(W, <)
             n == Cardinality(W)
  <2>1. W \subseteq V /\ W \subseteq Int /\ IsFiniteSet(W)
    BY VertexFacts, FS_Subset
  <2>2. IsListOf(list, W, VerticesBelow(W))
    <3> HIDE DEF list, W
    <3> QED BY <2>1, ListOfVertices DEF list
  <2>3. g[v] = list
    OBVIOUS
  <2> HIDE DEF list, W
  <2>4. /\ list \in [1..n -> W] /\ n \in Nat
        /\ \A x \in W : \E i \in 1..n : list[i] = x
        /\ \A i, j \in 1..n : list[i] \in VerticesBelow(W)[list[j]] <=> i < j
    BY <2>2 DEF IsListOf
  <2> HIDE DEF n
  <2>5. Len(list) = n
    BY <2>4, LenOfFunction
  <2>6. list \in [1..n -> V]
    BY <2>1, <2>4
  <2>7. list \in Seq(V)
    BY <2>4, <2>6, SequenceOf
  <2>8. \A i, j \in 1..n : i < j => list[i] < list[j]
    BY <2>4 DEF VerticesBelow
  <2>9. {list[i] : i \in 1..n} = W
    <3>1. \A i \in 1..n : list[i] \in W
      BY <2>4
    <3>2. QED
      BY <2>4, <3>1
  <2>10. QED
    BY <2>3, <2>5, <2>7, <2>8, <2>9, ZenonT(40) DEF Neighbours, W
<1>2. g \in [V -> Seq(V)]
  BY <1>1
<1>3. QED
  BY <1>1, <1>2 DEF Adjacencies

\* The adjacency lists of a set of edges.
LEMMA GraphOfEdges ==
  ASSUME NEW E
  PROVE  /\ GraphOf(E) \in Adjacencies(V)
         /\ \A v \in V : Neighbours(GraphOf(E), v) = {w \in V : <<v, w>> \in E}
<1> DEFINE nb == [v \in V |-> {w \in V : <<v, w>> \in E}]
           g == GraphOf(E)
<1>1. \A v \in V : nb[v] \subseteq V /\ nb[v] = {w \in V : <<v, w>> \in E}
  OBVIOUS
<1>2. /\ DOMAIN g = V /\ g = [v \in V |-> g[v]]
      /\ \A v \in V : g[v] = InOrder(nb[v], <)
  BY DEF GraphOf
<1> HIDE DEF nb, g
<1>3. \A v \in V : nb[v] \subseteq V
  BY <1>1
<1>4. g \in Adjacencies(V) /\ \A v \in V : Neighbours(g, v) = nb[v]
  BY <1>2, <1>3, ListsOfNeighbours, ZenonT(40)
<1>5. QED
  BY <1>1, <1>4 DEF g

\* The graph after a batch.
LEMMA GraphAfterBatch ==
  ASSUME NEW g \in Adjacencies(V), NEW b,
         \A e \in ToSet(b.insertions) : e \in V \X V
  PROVE  /\ ApplyBatch(g, b) \in Adjacencies(V)
         /\ \A v, w \in V :
              w \in Neighbours(ApplyBatch(g, b), v)
                <=> \/ w \in Neighbours(g, v) /\ <<v, w>> \notin ToSet(b.deletions)
                    \/ <<v, w>> \in ToSet(b.insertions)
<1> DEFINE old(v) == {w \in Neighbours(g, v) : <<v, w>> \notin ToSet(b.deletions)}
           new(v) == {e[2] : e \in {f \in ToSet(b.insertions) : f[1] = v}}
           nb == [v \in V |-> old(v) \cup new(v)]
           h == ApplyBatch(g, b)
<1>1. \A v \in V : Neighbours(g, v) \subseteq V
  <2>1. V \in SUBSET Int
    BY VertexFacts
  <2>2. QED
    BY <2>1, AdjacencyShape DEF Neighbours
<1>2. \A v, w \in V : w \in new(v) <=> <<v, w>> \in ToSet(b.insertions)
  <2>1. \A e \in ToSet(b.insertions) : e = <<e[1], e[2]>>
    OBVIOUS
  <2>2. QED
    BY <2>1
<1>3. \A v \in V : new(v) \subseteq V
  OBVIOUS
<1>4. \A v \in V : nb[v] \subseteq V
  BY <1>1, <1>3
<1>5. /\ DOMAIN h = V /\ h = [v \in V |-> h[v]]
      /\ \A v \in V : h[v] = InOrder(nb[v], <)
  BY DEF ApplyBatch
<1>6. h \in Adjacencies(V) /\ \A v \in V : Neighbours(h, v) = nb[v]
  <2> HIDE DEF h, nb
  <2> QED BY <1>4, <1>5, ListsOfNeighbours, ZenonT(40)
<1>7. ASSUME NEW v \in V, NEW w \in V
      PROVE  w \in nb[v] <=> \/ w \in Neighbours(g, v) /\ <<v, w>> \notin ToSet(b.deletions)
                             \/ <<v, w>> \in ToSet(b.insertions)
  <2>1. nb[v] = old(v) \cup new(v)
    OBVIOUS
  <2>2. w \in old(v) <=> w \in Neighbours(g, v) /\ <<v, w>> \notin ToSet(b.deletions)
    OBVIOUS
  <2> HIDE DEF nb, old, new
  <2>3. QED
    BY <1>2, <2>1, <2>2
<1>8. QED
  <2> HIDE DEF h, nb
  <2> QED BY <1>6, <1>7 DEF h

\* sort_and_dedup leaves each change once, in their order.
LEMMA NormalizedChanges ==
  ASSUME NEW changes \in Seq(V \X V)
  PROVE  /\ Normalized(changes) \in Seq(V \X V)
         /\ ToSet(Normalized(changes)) = ToSet(changes)
         /\ \A i, j \in 1..Len(Normalized(changes)) :
              SmallerEdge(Normalized(changes)[i], Normalized(changes)[j]) <=> i < j
<1> DEFINE E == ToSet(changes)
           list == Normalized(changes)
           n == Cardinality(E)
<1>1. E \subseteq V \X V /\ IsFiniteSet(E)
  <2>1. IsFiniteSet(1..Len(changes))
    BY LenProperties, FS_Interval
  <2>2. changes \in [1..Len(changes) -> E] /\ \A e \in E : \E i \in 1..Len(changes) : changes[i] = e
    BY DEF ToSet
  <2>3. changes \in Surjection(1..Len(changes), E)
    <3> HIDE DEF E
    <3> QED BY <2>2 DEF Surjection
  <2>4. IsFiniteSet(E)
    <3> HIDE DEF E
    <3> QED BY <2>1, <2>3, FS_Surjection
  <2>5. QED
    BY <2>4 DEF ToSet
<1>2. list = InOrder(E, SmallerEdge)
  BY DEF Normalized
<1> HIDE DEF list, E
<1>3. IsListOf(list, E, EdgesBelow(E))
  <2>1. V \subseteq Int
    BY VertexFacts
  <2>2. QED
    BY <1>1, <1>2, <2>1, ListOfEdges
<1>4. /\ list \in [1..n -> E] /\ n \in Nat
      /\ \A x \in E : \E i \in 1..n : list[i] = x
      /\ \A i, j \in 1..n : list[i] \in EdgesBelow(E)[list[j]] <=> i < j
  BY <1>3 DEF IsListOf
<1> HIDE DEF n
<1>5. Len(list) = n /\ DOMAIN list = 1..n
  BY <1>4, LenOfFunction
<1>6. list \in Seq(V \X V)
  <2>1. list \in [1..n -> V \X V]
    BY <1>1, <1>4
  <2>2. QED
    BY <1>4, <2>1, SequenceOf
<1>7. ToSet(list) = E
  BY <1>4, <1>5 DEF ToSet
<1>8. \A i, j \in 1..n : SmallerEdge(list[i], list[j]) <=> i < j
  BY <1>4 DEF EdgesBelow
<1>9. QED
  BY <1>5, <1>6, <1>7, <1>8 DEF list, E

-----------------------------------------------------------------------------
(***************************************************************************)
(* The cycles of a graph and of one with fewer edges.                      *)
(***************************************************************************)
LEMMA CyclesFinite ==
  ASSUME NEW g \in Adjacencies(V)
  PROVE  IsFiniteSet(Cycles(g, MaxLength))
<1> DEFINE C == Cycles(g, MaxLength)
           P == (1..MaxLength) \X V
           pairs == [c \in C |-> {<<k, c[k]>> : k \in 1..Len(c)}]
<1>1. IsFiniteSet(P)
  <2> DEFINE I == 1..MaxLength
  <2>1. IsFiniteSet(I)
    <3>1. 1 \in Int /\ MaxLength \in Int
      BY VertexFacts
    <3>2. QED
      BY <3>1, FS_Interval
  <2>2. IsFiniteSet(V)
    BY VertexFacts
  <2> HIDE DEF I
  <2>3. IsFiniteSet(I \X V)
    BY <2>1, <2>2, FS_Product
  <2>4. QED
    BY <2>3 DEF I
<1>2. IsFiniteSet(SUBSET P)
  <2> HIDE DEF P
  <2> QED BY <1>1, FS_SUBSET
<1>3. ASSUME NEW c \in C
      PROVE  Len(c) \in 2..MaxLength /\ c \in [1..Len(c) -> V] /\ \A i \in 1..Len(c) : c[i] \in V
  BY VertexFacts, CycleShape
<1>4. \A c \in C : pairs[c] \in SUBSET P
  <2>1. ASSUME NEW c \in C, NEW k \in 1..Len(c)
        PROVE  <<k, c[k]>> \in P
    <3>1. k \in 1..MaxLength
      BY <1>3, VertexFacts
    <3>2. QED
      BY <1>3, <3>1
  <2>2. QED
    <3> HIDE DEF C, P
    <3> QED BY <2>1
<1>5. ASSUME NEW c \in C, NEW d \in C, pairs[c] = pairs[d]
      PROVE  c = d
  <2>1. \A k \in 1..Len(c) : k \in 1..Len(d) /\ d[k] = c[k]
    <3>1. ASSUME NEW k \in 1..Len(c)
          PROVE  k \in 1..Len(d) /\ d[k] = c[k]
      <4>1. <<k, c[k]>> \in pairs[c]
        OBVIOUS
      <4>2. <<k, c[k]>> \in {<<j, d[j]>> : j \in 1..Len(d)}
        BY <1>5, <4>1
      <4>3. PICK j \in 1..Len(d) : <<k, c[k]>> = <<j, d[j]>>
        BY <4>2
      <4>4. QED
        BY <4>3
    <3>2. QED
      BY <3>1
  <2>2. \A k \in 1..Len(d) : k \in 1..Len(c) /\ c[k] = d[k]
    <3>1. ASSUME NEW k \in 1..Len(d)
          PROVE  k \in 1..Len(c) /\ c[k] = d[k]
      <4>1. <<k, d[k]>> \in pairs[d]
        OBVIOUS
      <4>2. <<k, d[k]>> \in {<<j, c[j]>> : j \in 1..Len(c)}
        BY <1>5, <4>1
      <4>3. PICK j \in 1..Len(c) : <<k, d[k]>> = <<j, c[j]>>
        BY <4>2
      <4>4. QED
        BY <4>3
    <3>2. QED
      BY <3>1
  <2> HIDE DEF C, pairs
  <2> DEFINE I == 1..Len(c)
             J == 1..Len(d)
  <2>3. c \in [I -> V] /\ d \in [J -> V]
    BY <1>3
  <2>4. (\A k \in I : k \in J /\ d[k] = c[k]) /\ (\A k \in J : k \in I)
    BY <2>1, <2>2
  <2> HIDE DEF I, J
  <2>5. I = J
    BY <2>4
  <2>6. QED
    BY <2>3, <2>4, <2>5
<1>6. pairs \in Injection(C, SUBSET P)
  <2>1. pairs \in [C -> SUBSET P]
    <3> HIDE DEF C, P
    <3> QED BY <1>4
  <2> HIDE DEF pairs, C, P
  <2>2. QED
    BY <1>5, <2>1 DEF Injection, IsInjective
<1>7. QED
  <2> HIDE DEF pairs, C, P
  <2>1. IsFiniteSet(C)
    BY <1>2, <1>6, FS_Injection
  <2>2. QED
    BY <2>1 DEF C

\* The cycle has the edge e on it.
Uses(c, e) == \E k \in 1..Len(c) : c[k] = e[1] /\ Successor(c, k) = e[2]

\* No change of the list is on the cycle.
Untouched(ch, c) == \A i \in 1..Len(ch) : ~Uses(c, ch[i])

\* A cycle belongs to the first change of the list that it has on it.
Owns(ch, i, c) == Uses(c, ch[i]) /\ \A j \in 1..(i - 1) : ~Uses(c, ch[j])

\* Edges of the graph, sorted, each one once, and no self-loop.
IsChangeList(g, ch) ==
  /\ ch \in Seq(V \X V)
  /\ \A i \in 1..Len(ch) : ch[i][1] # ch[i][2] /\ ch[i][2] \in Neighbours(g, ch[i][1])
  /\ \A i, j \in 1..Len(ch) : SmallerEdge(ch[i], ch[j]) <=> i < j

LEMMA ChangeFacts ==
  ASSUME NEW g, NEW ch, IsChangeList(g, ch)
  PROVE  /\ Len(ch) \in Nat
         /\ \A i \in 1..Len(ch) : /\ ch[i] = <<ch[i][1], ch[i][2]>>
                                  /\ ch[i][1] \in V /\ ch[i][2] \in V /\ ch[i][1] # ch[i][2]
                                  /\ ch[i][2] \in Neighbours(g, ch[i][1])
                                  /\ ToSet(ch[i]) = {ch[i][1], ch[i][2]}
         /\ \A i, j \in 1..Len(ch) : i # j => ch[i] # ch[j]
<1>1. Len(ch) \in Nat /\ \A i \in 1..Len(ch) : ch[i] \in V \X V
  BY LenProperties, ElementOfSeq DEF IsChangeList
<1>2. ASSUME NEW i \in 1..Len(ch)
      PROVE  /\ ch[i] = <<ch[i][1], ch[i][2]>> /\ ch[i][1] \in V /\ ch[i][2] \in V
             /\ ToSet(ch[i]) = {ch[i][1], ch[i][2]}
  <2>1. PICK v \in V, w \in V : ch[i] = <<v, w>>
    BY <1>1
  <2>2. ToSet(<<v, w>>) = {v, w}
    <3>1. DOMAIN <<v, w>> = {1, 2}
      OBVIOUS
    <3>2. QED
      BY <3>1 DEF ToSet
  <2>3. QED
    BY <2>1, <2>2
<1>3. ASSUME NEW i \in 1..Len(ch), NEW j \in 1..Len(ch), i # j
      PROVE  ch[i] # ch[j]
  <2>1. (i < j \/ j < i) /\ ~(i < i)
    BY <1>1, <1>3
  <2>2. /\ SmallerEdge(ch[i], ch[j]) <=> i < j
        /\ SmallerEdge(ch[j], ch[i]) <=> j < i
        /\ SmallerEdge(ch[i], ch[i]) <=> i < i
    BY DEF IsChangeList
  <2>3. QED
    BY <2>1, <2>2
<1>4. QED
  BY <1>1, <1>2, <1>3 DEF IsChangeList

\* The cycles that a graph has left without the changed edges.
LEMMA CyclesWithout ==
  ASSUME NEW g \in Adjacencies(V), NEW h \in Adjacencies(V), NEW ch, IsChangeList(g, ch),
         \A v, w \in V :
           w \in Neighbours(h, v) <=> w \in Neighbours(g, v) /\ <<v, w>> \notin ToSet(ch)
  PROVE  Cycles(h, MaxLength) = {c \in Cycles(g, MaxLength) : Untouched(ch, c)}
<1>1. DOMAIN g = V /\ DOMAIN h = V
  BY DEF Adjacencies
<1> DEFINE F == UNION {[1..k -> V] : k \in 2..MaxLength}
<1>2. /\ Cycles(g, MaxLength) = {c \in F : IsSimpleCycle(g, c)}
      /\ Cycles(h, MaxLength) = {c \in F : IsSimpleCycle(h, c)}
  BY <1>1 DEF Cycles
<1>3. ToSet(ch) = {ch[i] : i \in 1..Len(ch)}
  <2>1. DOMAIN ch = 1..Len(ch)
    BY LenProperties DEF IsChangeList
  <2>2. QED
    BY <2>1 DEF ToSet
<1>4. ASSUME NEW c \in F
      PROVE  IsSimpleCycle(h, c) <=> IsSimpleCycle(g, c) /\ Untouched(ch, c)
  <2>1. PICK k \in 2..MaxLength : c \in [1..k -> V]
    OBVIOUS
  <2>2. k \in Nat /\ Len(c) = k
    BY <2>1, VertexFacts, LenOfFunction
  <2> HIDE DEF F
  <2>3. ASSUME NEW j \in 1..k
        PROVE  c[j] \in V /\ Successor(c, j) \in V
    <3>1. j + 1 \in 1..k \/ j = k
      BY <2>2
    <3>2. 1 \in 1..k
      BY <2>1, VertexFacts
    <3>3. QED
      BY <2>1, <2>2, <3>1, <3>2 DEF Successor
  <2>4. \A j \in 1..k :
          Successor(c, j) \in Neighbours(h, c[j])
            <=> /\ Successor(c, j) \in Neighbours(g, c[j])
                /\ <<c[j], Successor(c, j)>> \notin ToSet(ch)
    BY <2>3
  <2>5. Untouched(ch, c) <=> \A j \in 1..k : <<c[j], Successor(c, j)>> \notin ToSet(ch)
    <3>1. ASSUME NEW i \in 1..Len(ch)
          PROVE  Uses(c, ch[i]) <=> \E j \in 1..k : <<c[j], Successor(c, j)>> = ch[i]
      <4>1. ch[i] = <<ch[i][1], ch[i][2]>>
        BY ChangeFacts
      <4>2. QED
        BY <2>2, <4>1 DEF Uses
    <3>2. QED
      BY <1>3, <3>1 DEF Untouched
  <2>6. QED
    BY <2>2, <2>4, <2>5 DEF IsSimpleCycle
<1>5. QED
  <2> HIDE DEF F
  <2> QED BY <1>2, <1>4

\* Cycles depend on the neighbours of a vertex, not on their order.
LEMMA CyclesOfNeighbours ==
  ASSUME NEW g \in Adjacencies(V), NEW h \in Adjacencies(V),
         \A v \in V : Neighbours(g, v) = Neighbours(h, v)
  PROVE  Cycles(g, MaxLength) = Cycles(h, MaxLength)
<1>1. DOMAIN g = V /\ DOMAIN h = V
  BY DEF Adjacencies
<1>2. ASSUME NEW k \in 2..MaxLength, NEW c \in [1..k -> V]
      PROVE  IsSimpleCycle(g, c) <=> IsSimpleCycle(h, c)
  <2>1. Len(c) = k
    BY VertexFacts, LenOfFunction
  <2>2. QED
    BY <2>1 DEF IsSimpleCycle
<1>3. \A c \in UNION {[1..k -> V] : k \in 2..MaxLength} :
         IsSimpleCycle(g, c) <=> IsSimpleCycle(h, c)
  BY <1>2
<1>4. QED
  BY <1>1, <1>3 DEF Cycles

-----------------------------------------------------------------------------
(***************************************************************************)
(* A cycle and the edges on it.                                            *)
(***************************************************************************)
\* A vertex of a cycle has one successor on it, and one predecessor.
LEMMA UsesOnce ==
  ASSUME NEW g \in Adjacencies(V), NEW c \in Cycles(g, MaxLength),
         NEW u, NEW v, NEW x, NEW y, Uses(c, <<u, x>>), Uses(c, <<v, y>>)
  PROVE  u = v <=> x = y
<1>1. /\ Len(c) \in 2..MaxLength /\ Len(c) \in Nat
      /\ \A i, j \in 1..Len(c) : i # j => c[i] # c[j]
  BY VertexFacts, CycleShape
<1>2. PICK k \in 1..Len(c) : c[k] = u /\ Successor(c, k) = x
  BY DEF Uses
<1>3. PICK m \in 1..Len(c) : c[m] = v /\ Successor(c, m) = y
  BY DEF Uses
<1>4. ASSUME k # m
      PROVE  Successor(c, k) # Successor(c, m)
  <2>1. 1 \in 1..Len(c) /\ (k # Len(c) => k + 1 \in 1..Len(c) /\ k + 1 # 1)
        /\ (m # Len(c) => m + 1 \in 1..Len(c) /\ m + 1 # 1) /\ k + 1 # m + 1
    BY <1>1, <1>4
  <2>2. QED
    BY <1>1, <1>4, <2>1 DEF Successor
<1>5. k = m <=> u = v
  BY <1>1, <1>2, <1>3
<1>6. QED
  BY <1>2, <1>3, <1>4, <1>5

LEMMA OneNeighbour ==
  ASSUME NEW g \in Adjacencies(V), NEW c \in Cycles(g, MaxLength)
  PROVE  /\ \A u, x, y : Uses(c, <<u, x>>) /\ Uses(c, <<u, y>>) => x = y
         /\ \A u, v, x : Uses(c, <<u, x>>) /\ Uses(c, <<v, x>>) => u = v
BY UsesOnce

On(c, v) == \E k \in 1..Len(c) : c[k] = v

LEMMA UsesVertices ==
  ASSUME NEW g \in Adjacencies(V), NEW c \in Cycles(g, MaxLength),
         NEW u, NEW x, Uses(c, <<u, x>>)
  PROVE  /\ On(c, u) /\ On(c, x)
         /\ x \in Neighbours(g, u) /\ u \in V /\ x \in V
<1>1. /\ Len(c) \in 2..MaxLength /\ Len(c) \in Nat
      /\ \A k \in 1..Len(c) : c[k] \in V /\ Successor(c, k) \in Neighbours(g, c[k])
  BY VertexFacts, CycleShape
<1>2. PICK k \in 1..Len(c) : c[k] = u /\ Successor(c, k) = x
  BY DEF Uses
<1>3. \E m \in 1..Len(c) : c[m] = x
  <2>1. 1 \in 1..Len(c) /\ (k # Len(c) => k + 1 \in 1..Len(c))
    BY <1>1
  <2>2. QED
    BY <1>2, <2>1 DEF Successor
<1>4. QED
  BY <1>1, <1>2, <1>3 DEF On

\* A cycle all edges of which are on another one is that one.
LEMMA SameCycle ==
  ASSUME NEW g \in Adjacencies(V), NEW c \in Cycles(g, MaxLength),
         NEW f \in Cycles(g, MaxLength),
         \A k \in 1..Len(f) : Uses(c, <<f[k], Successor(f, k)>>)
  PROVE  c = f
<1> DEFINE L == Len(c)
           D == Len(f)
<1>1. /\ L \in 2..MaxLength /\ L \in Nat /\ c \in [1..L -> V] /\ L >= 2
      /\ \A i \in 1..L : c[i] \in V
      /\ \A i, j \in 1..L : i # j => c[i] # c[j]
      /\ \A i \in 2..L : c[1] < c[i]
  BY VertexFacts, CycleShape
<1>2. /\ D \in 2..MaxLength /\ D \in Nat /\ f \in [1..D -> V] /\ D >= 2
      /\ \A i \in 1..D : f[i] \in V
      /\ \A i, j \in 1..D : i # j => f[i] # f[j]
      /\ \A i \in 2..D : f[1] < f[i]
  BY VertexFacts, CycleShape
<1>3. V \subseteq Int
  BY VertexFacts
<1>4. /\ \A k \in 1..(L - 1) : k \in 1..L /\ k + 1 \in 1..L /\ Successor(c, k) = c[k + 1]
      /\ Successor(c, L) = c[1] /\ L \in 1..L /\ 1 \in 1..L
      /\ \A k \in 1..(D - 1) : k \in 1..D /\ k + 1 \in 1..D /\ Successor(f, k) = f[k + 1]
      /\ Successor(f, D) = f[1] /\ D \in 1..D /\ 1 \in 1..D
  BY <1>1, <1>2 DEF Successor
<1>5. ASSUME NEW i \in 1..D, NEW k \in 1..L, f[i] = c[k]
      PROVE  Successor(f, i) = Successor(c, k)
  <2>1. PICK m \in 1..L : c[m] = f[i] /\ Successor(c, m) = Successor(f, i)
    BY DEF Uses
  <2>2. m = k
    BY <1>1, <1>5, <2>1
  <2>3. QED
    BY <2>1, <2>2
<1>6. PICK m \in 1..L : c[m] = f[1]
  BY <1>4 DEF Uses
<1> HIDE DEF L, D
<1>7. \A j \in Nat : m + j <= L => \E i \in 1..D : f[i] = c[m + j]
  <2> DEFINE Met == {j \in Nat : m + j <= L => \E i \in 1..D : f[i] = c[m + j]}
  <2>1. 0 \in Met
    BY <1>4, <1>6
  <2>2. ASSUME NEW j \in Nat, j \in Met
        PROVE  j + 1 \in Met
    <3>1. SUFFICES ASSUME m + (j + 1) <= L
                   PROVE  \E i \in 1..D : f[i] = c[m + (j + 1)]
      OBVIOUS
    <3>2. m + j \in 1..(L - 1) /\ (m + j) + 1 = m + (j + 1)
      BY <1>1, <3>1
    <3>3. PICK i \in 1..D : f[i] = c[m + j]
      BY <2>2, <3>2, <1>1
    <3>4. Successor(f, i) = c[m + (j + 1)]
      BY <1>4, <1>5, <3>2, <3>3
    <3>5. i \in 1..(D - 1) \/ i = D
      BY <1>2
    <3>6. QED
      BY <1>4, <3>4, <3>5
  <2>3. \A j \in Nat : j \in Met
    <3> HIDE DEF Met
    <3> QED BY <2>1, <2>2, NatSetInduction
  <2>4. QED
    BY <2>3
<1>8. PICK i \in 1..D : f[i] = c[L]
  <2>1. L - m \in Nat /\ m + (L - m) = L /\ L <= L
    BY <1>1
  <2>2. QED
    BY <1>7, <2>1
<1>9. \E j \in 1..D : f[j] = c[1]
  <2>1. Successor(f, i) = c[1]
    BY <1>4, <1>5, <1>8
  <2>2. i \in 1..(D - 1) \/ i = D
    BY <1>2
  <2>3. QED
    BY <1>4, <2>1, <2>2
<1>10. f[1] = c[1]
  <2>1. PICK j \in 1..D : f[j] = c[1]
    BY <1>9
  <2>2. f[1] \in Int /\ c[1] \in Int /\ f[1] <= f[j]
    <3>1. j = 1 \/ j \in 2..D
      BY <1>2
    <3>2. f[1] \in Int /\ c[1] \in Int
      BY <1>1, <1>2, <1>3, <1>4
    <3>3. f[1] <= f[j]
      <4>1. CASE j = 1
        BY <3>2, <4>1
      <4>2. CASE j \in 2..D
        <5>1. f[1] < f[j] /\ f[j] \in Int
          BY <1>2, <1>3, <4>2
        <5>2. QED
          BY <3>2, <5>1
      <4>3. QED
        BY <3>1, <4>1, <4>2
    <3>4. QED
      BY <3>2, <3>3
  <2>3. c[1] <= c[m]
    <3>1. m = 1 \/ m \in 2..L
      BY <1>1
    <3>2. c[m] \in Int
      BY <1>1, <1>3
    <3>3. QED
      BY <1>1, <2>2, <3>1, <3>2
  <2>4. QED
    BY <1>6, <2>1, <2>2, <2>3
<1>11. \A k \in Nat : k + 1 <= L /\ k + 1 <= D => f[k + 1] = c[k + 1]
  <2> DEFINE Same == {k \in Nat : k + 1 <= L /\ k + 1 <= D => f[k + 1] = c[k + 1]}
  <2>1. 0 \in Same
    BY <1>10
  <2>2. ASSUME NEW k \in Nat, k \in Same
        PROVE  k + 1 \in Same
    <3>1. SUFFICES ASSUME (k + 1) + 1 <= L, (k + 1) + 1 <= D
                   PROVE  f[(k + 1) + 1] = c[(k + 1) + 1]
      OBVIOUS
    <3>2. /\ k + 1 \in 1..(L - 1) /\ k + 1 \in 1..(D - 1) /\ k + 1 <= L /\ k + 1 <= D
          /\ k + 1 \in 1..L /\ k + 1 \in 1..D
      BY <1>1, <1>2, <3>1
    <3>3. f[k + 1] = c[k + 1]
      BY <2>2, <3>2
    <3>4. QED
      BY <1>4, <1>5, <3>2, <3>3
  <2>3. \A k \in Nat : k \in Same
    <3> HIDE DEF Same
    <3> QED BY <2>1, <2>2, NatSetInduction
  <2>4. QED
    BY <2>3
<1>12. \A k \in 1..L : k \in 1..D => f[k] = c[k]
  <2>1. \A k \in 1..L : k - 1 \in Nat /\ (k - 1) + 1 = k
    BY <1>1
  <2>2. ASSUME NEW k \in 1..L, k \in 1..D
        PROVE  f[k] = c[k]
    <3>1. k - 1 \in Nat /\ (k - 1) + 1 = k /\ k <= L /\ k <= D
      BY <1>1, <1>2, <2>2
    <3>2. QED
      BY <1>11, <3>1
  <2>3. QED
    BY <2>2
<1>13. ~(D < L)
  <2>1. SUFFICES ASSUME D < L
                 PROVE  FALSE
    OBVIOUS
  <2>2. D \in 1..(L - 1) /\ D \in 1..L /\ D + 1 \in 1..L /\ D + 1 # 1
    BY <1>1, <1>2, <2>1
  <2>3. f[D] = c[D]
    BY <1>4, <1>12, <2>2
  <2>4. f[1] = c[D + 1]
    BY <1>4, <1>5, <2>2, <2>3
  <2>5. QED
    BY <1>1, <1>4, <1>10, <2>2, <2>4
<1>14. ~(L < D)
  <2>1. SUFFICES ASSUME L < D
                 PROVE  FALSE
    OBVIOUS
  <2>2. L \in 1..(D - 1) /\ L \in 1..D /\ L + 1 \in 1..D /\ L + 1 # 1
    BY <1>1, <1>2, <2>1
  <2>3. f[L] = c[L]
    BY <1>4, <1>12, <2>2
  <2>4. f[L + 1] = c[1]
    BY <1>4, <1>5, <2>2, <2>3
  <2>5. QED
    BY <1>2, <1>4, <1>10, <2>2, <2>4
<1>15. L = D
  BY <1>1, <1>2, <1>13, <1>14
<1>16. QED
  <2> DEFINE I == 1..L
  <2>1. c \in [I -> V] /\ f \in [I -> V] /\ \A k \in I : f[k] = c[k]
    BY <1>1, <1>2, <1>12, <1>15
  <2> HIDE DEF I
  <2>2. QED
    BY <2>1

-----------------------------------------------------------------------------
(***************************************************************************)
(* The name of the cycle of a closed walk.                                 *)
(***************************************************************************)
\* Position a of a walk of n vertices, counted on past its end.
At(a, n) == IF a <= n THEN a ELSE a - n

LEMMA ModOnce ==
  ASSUME NEW n \in Nat \ {0}, NEW a \in 0..(2 * n - 1)
  PROVE  (a % n) + 1 = At(a + 1, n)
<1> DEFINE q == a \div n
           r == a % n
<1>1. q \in Int /\ r \in 0..(n - 1) /\ a = n * q + r
  OBVIOUS
<1> HIDE DEF q, r
<1>2. q = 0 \/ q = 1
  <2>1. CASE q < 0
    <3>1. n * q <= -n
      <4>1. q + 1 <= 0
        BY <1>1, <2>1
      <4>2. n * (q + 1) <= 0
        BY <1>1, <4>1
      <4>3. n * (q + 1) = n * q + n
        BY <1>1
      <4>4. n * q \in Int
        BY <1>1
      <4>5. QED
        BY <4>2, <4>3, <4>4
    <3>2. QED
      BY <1>1, <3>1
  <2>2. CASE q > 1
    <3>1. n * q >= 2 * n
      <4>1. q - 2 \in Nat
        BY <1>1, <2>2
      <4>2. n * (q - 2) \in Nat
        BY <4>1
      <4>3. n * (q - 2) = n * q - 2 * n
        BY <1>1
      <4>4. n * q \in Int
        BY <1>1
      <4>5. QED
        BY <4>2, <4>3, <4>4
    <3>2. QED
      BY <1>1, <3>1
  <2>3. QED
    BY <1>1, <2>1, <2>2
<1>3. CASE q = 0
  <2>1. a = r
    BY <1>1, <1>3
  <2>2. QED
    BY <1>1, <2>1 DEF At, r
<1>4. CASE q = 1
  <2>1. a = n + r
    BY <1>1, <1>4
  <2>2. QED
    BY <1>1, <2>1 DEF At, r
<1>5. QED
  BY <1>2, <1>3, <1>4

\* A walk has a least vertex.
LEMMA LeastPosition ==
  ASSUME NEW n \in Nat \ {0}, NEW w \in [1..n -> Int]
  PROVE  \E i \in 1..n : \A j \in 1..n : w[i] <= w[j]
<1> DEFINE Has == {k \in Nat : k + 1 <= n =>
                      \E i \in 1..(k + 1) : \A j \in 1..(k + 1) : w[i] <= w[j]}
<1>1. 0 \in Has
  <2>1. \A j \in 1..(0 + 1) : j = 1
    OBVIOUS
  <2>2. 1 \in 1..(0 + 1) /\ w[1] \in Int
    OBVIOUS
  <2>3. QED
    BY <2>1, <2>2
<1>2. ASSUME NEW k \in Nat, k \in Has
      PROVE  k + 1 \in Has
  <2>1. SUFFICES ASSUME (k + 1) + 1 <= n
                 PROVE  \E i \in 1..((k + 1) + 1) : \A j \in 1..((k + 1) + 1) : w[i] <= w[j]
    OBVIOUS
  <2>2. PICK i \in 1..(k + 1) : \A j \in 1..(k + 1) : w[i] <= w[j]
    BY <1>2, <2>1
  <2>3. \A j \in 1..((k + 1) + 1) : w[j] \in Int /\ (j \in 1..(k + 1) \/ j = (k + 1) + 1)
    BY <2>1
  <2>4. i \in 1..((k + 1) + 1) /\ (k + 1) + 1 \in 1..((k + 1) + 1)
    OBVIOUS
  <2>5. CASE w[i] <= w[(k + 1) + 1]
    BY <2>2, <2>3, <2>4, <2>5
  <2>6. CASE w[(k + 1) + 1] < w[i]
    <3>1. \A j \in 1..((k + 1) + 1) : w[(k + 1) + 1] <= w[j]
      BY <2>2, <2>3, <2>4, <2>6
    <3>2. QED
      BY <2>4, <3>1
  <2>7. QED
    BY <2>3, <2>4, <2>5, <2>6
<1>3. \A k \in Nat : k \in Has
  <2> HIDE DEF Has
  <2> QED BY <1>1, <1>2, NatSetInduction
<1>4. n - 1 \in Nat /\ (n - 1) + 1 = n /\ n <= n
  OBVIOUS
<1>5. n - 1 \in Has
  <2> HIDE DEF Has
  <2> QED BY <1>3, <1>4
<1>6. (n - 1) + 1 <= n =>
        \E i \in 1..((n - 1) + 1) : \A j \in 1..((n - 1) + 1) : w[i] <= w[j]
  BY <1>5
<1>7. QED
  BY <1>4, <1>6

\* Naming a closed walk from its least vertex on leaves its edges as they are.
LEMMA RotatedWalk ==
  ASSUME NEW n \in Nat, n >= 2, NEW w \in [1..n -> V],
         \A i, j \in 1..n : i # j => w[i] # w[j]
  PROVE  /\ Rotated(w) \in [1..n -> V]
         /\ \A i, j \in 1..n : i # j => Rotated(w)[i] # Rotated(w)[j]
         /\ \A i \in 2..n : Rotated(w)[1] < Rotated(w)[i]
         /\ \A e : Uses(Rotated(w), e) <=> Uses(w, e)
<1> DEFINE m == CHOOSE i \in 1..n : \A j \in 1..n : w[i] <= w[j]
           f == Rotated(w)
           at(i) == At(m + i - 1, n)
<1>1. Len(w) = n
  BY LenOfFunction
<1>2. \A i \in 1..n : w[i] \in Int
  BY VertexFacts
<1>3. m \in 1..n /\ \A j \in 1..n : w[m] <= w[j]
  <2>1. n \in Nat \ {0} /\ w \in [1..n -> Int]
    BY <1>2
  <2>2. \E i \in 1..n : \A j \in 1..n : w[i] <= w[j]
    BY <2>1, LeastPosition
  <2>3. QED
    BY <2>2
<1>4. f = [i \in 1..n |-> w[((m + i - 2) % n) + 1]]
  BY <1>1 DEF Rotated
<1> HIDE DEF m
<1>5. /\ \A i \in 1..n : at(i) \in 1..n
      /\ \A i, j \in 1..n : at(i) = at(j) => i = j
      /\ at(1) = m
  BY <1>3 DEF At
<1>6. \A i \in 1..(n - 1) : i \in 1..n /\ i + 1 \in 1..n
                          /\ at(i + 1) = IF at(i) = n THEN 1 ELSE at(i) + 1
  BY <1>3 DEF At
<1>7. n \in 1..n /\ 1 \in 1..n /\ (IF at(n) = n THEN 1 ELSE at(n) + 1) = m
  BY <1>3 DEF At
<1>8. \A k \in 1..n : \E i \in 1..n : at(i) = k
  <2>1. ASSUME NEW k \in 1..n
        PROVE  \E i \in 1..n : at(i) = k
    <3>1. CASE k >= m
      <4>1. k - m + 1 \in 1..n /\ at(k - m + 1) = k
        BY <1>3, <3>1 DEF At
      <4> HIDE DEF at
      <4>2. QED
        BY <4>1
    <3>2. CASE k < m
      <4>1. k - m + 1 + n \in 1..n /\ at(k - m + 1 + n) = k
        BY <1>3, <3>2 DEF At
      <4> HIDE DEF at
      <4>2. QED
        BY <4>1
    <3>3. QED
      BY <1>3, <3>1, <3>2
  <2>2. QED
    BY <2>1
<1>9. \A i \in 1..n : f[i] = w[at(i)]
  <2>1. ASSUME NEW i \in 1..n
        PROVE  f[i] = w[at(i)]
    <3>1. m + i - 2 \in 0..(2 * n - 1) /\ (m + i - 2) + 1 = m + i - 1 /\ n \in Nat \ {0}
      BY <1>3
    <3>2. ((m + i - 2) % n) + 1 = At((m + i - 2) + 1, n)
      <4> DEFINE a == m + i - 2
      <4>1. a \in 0..(2 * n - 1) /\ n \in Nat \ {0}
        BY <3>1
      <4> HIDE DEF a
      <4>2. (a % n) + 1 = At(a + 1, n)
        BY <4>1, ModOnce
      <4>3. QED
        BY <4>2 DEF a
    <3>3. f[i] = w[((m + i - 2) % n) + 1]
      BY <1>4
    <3>4. QED
      BY <3>1, <3>2, <3>3
  <2>2. QED
    BY <2>1
<1> HIDE DEF at
<1>10. f \in [1..n -> V]
  <2> DEFINE h == [i \in 1..n |-> w[((m + i - 2) % n) + 1]]
  <2>1. f = [i \in 1..n |-> f[i]]
    BY <1>4
  <2>2. \A i \in 1..n : f[i] \in V
    BY <1>5, <1>9
  <2> HIDE DEF f
  <2>3. QED
    BY <2>1, <2>2
<1> HIDE DEF f
<1>11. Len(f) = n
  BY <1>10, LenOfFunction
<1>12. \A i \in 1..n : Successor(f, i) = Successor(w, at(i))
  <2>1. ASSUME NEW i \in 1..n
        PROVE  Successor(f, i) = Successor(w, at(i))
    <3>1. CASE i = n
      <4>1. Successor(f, i) = w[m]
        BY <1>5, <1>7, <1>9, <1>11, <3>1 DEF Successor
      <4>2. QED
        BY <1>1, <1>7, <3>1, <4>1 DEF Successor
    <3>2. CASE i # n
      <4>1. i \in 1..(n - 1)
        BY <3>2
      <4>2. Successor(f, i) = w[at(i + 1)]
        BY <1>6, <1>9, <1>11, <3>2, <4>1 DEF Successor
      <4>3. QED
        BY <1>1, <1>6, <4>1, <4>2 DEF Successor
    <3>3. QED
      BY <3>1, <3>2
  <2>2. QED
    BY <2>1
<1>13. ASSUME NEW e
       PROVE  Uses(f, e) <=> Uses(w, e)
  <2>1. ASSUME NEW i \in 1..n, f[i] = e[1], Successor(f, i) = e[2]
        PROVE  \E k \in 1..n : w[k] = e[1] /\ Successor(w, k) = e[2]
    BY <1>5, <1>9, <1>12, <2>1
  <2>2. ASSUME NEW k \in 1..n, w[k] = e[1], Successor(w, k) = e[2]
        PROVE  \E i \in 1..n : f[i] = e[1] /\ Successor(f, i) = e[2]
    <3>1. PICK i \in 1..n : at(i) = k
      BY <1>8
    <3>2. f[i] = w[k] /\ Successor(f, i) = Successor(w, k)
      BY <1>9, <1>12, <3>1
    <3>3. QED
      BY <2>2, <3>2
  <2>3. QED
    BY <1>1, <1>11, <2>1, <2>2 DEF Uses
<1>14. \A i, j \in 1..n : i # j => f[i] # f[j]
  BY <1>5, <1>9
<1>15. \A i \in 2..n : f[1] < f[i]
  <2>1. ASSUME NEW i \in 2..n
        PROVE  f[1] < f[i]
    <3>1. i \in 1..n /\ i # 1 /\ 1 \in 1..n
      OBVIOUS
    <3>2. f[1] = w[m] /\ f[i] = w[at(i)] /\ at(i) \in 1..n /\ f[1] # f[i]
      BY <1>5, <1>9, <1>14, <3>1
    <3>3. w[m] <= w[at(i)] /\ w[m] \in Int /\ w[at(i)] \in Int
      BY <1>2, <1>3, <3>2
    <3>4. QED
      BY <3>2, <3>3
  <2>2. QED
    BY <2>1
<1>16. QED
  BY <1>10, <1>13, <1>14, <1>15 DEF f

-----------------------------------------------------------------------------
(***************************************************************************)
(* The search of the cycles of a change.  The frames hold the path from    *)
(* the target of the change on, as IsSearch of CycleFacts has them.        *)
(***************************************************************************)
\* The cycle has the edges between the first k frames on it.
Along(frames, k, c) ==
  \A a \in 1..(k - 1) : Uses(c, <<frames[a].vertex, frames[a + 1].vertex>>)

\* It does, and leaves the frame by an edge not consumed there.
Leaves(g, frames, k, c) ==
  /\ Along(frames, k, c)
  /\ \E j \in frames[k].offset..Len(g[frames[k].vertex]) :
       Uses(c, <<frames[k].vertex, g[frames[k].vertex][j]>>)

Owned(g, ch, i) == {c \in Cycles(g, MaxLength) : Owns(ch, i, c)}

\* The cycles of the change that the search has still to come to.
Ahead(g, ch, i, frames, d) ==
  {c \in Owned(g, ch, i) : \E k \in 1..d : Leaves(g, frames, k, c)}

\* A simple path from the target of the change, without its source and without
\* the edges of earlier changes.
Searching(g, ch, i, frames, d) ==
  /\ IsSearch(V, g, frames, 1, d)
  /\ d \in Nat \ {0} /\ d + 1 <= MaxLength
  /\ frames[1].vertex = ch[i][2]
  /\ \A a \in 1..d : frames[a].vertex # ch[i][1]
  /\ \A a, b \in 1..d : a # b => frames[a].vertex # frames[b].vertex
  /\ \A a \in 1..(d - 1), j \in 1..(i - 1) :
       ch[j] # <<frames[a].vertex, frames[a + 1].vertex>>

\* The last frame has consumed one more edge.
Consumed(frames, now, d) ==
  /\ \A a \in 1..d : now[a].vertex = frames[a].vertex
  /\ \A a \in 1..(d - 1) : now[a].offset = frames[a].offset
  /\ now[d].offset = frames[d].offset + 1

\* Every frame of a search stands at a place of the list of its vertex.
FramesFit(g, frames, d) ==
  /\ d \in Nat /\ d \in 1..d /\ 1 \in 1..d
  /\ \A a \in 1..d : /\ frames[a].vertex \in V
                     /\ frames[a].offset \in 1..(Len(g[frames[a].vertex]) + 1)
                     /\ Len(g[frames[a].vertex]) \in Nat
                     /\ \A j \in 1..Len(g[frames[a].vertex]) : g[frames[a].vertex][j] \in V
                     /\ \A j, k \in 1..Len(g[frames[a].vertex]) :
                          j # k => g[frames[a].vertex][j] # g[frames[a].vertex][k]

LEMMA SearchShape ==
  ASSUME NEW g \in Adjacencies(V), NEW ch, NEW i, NEW frames, NEW d,
         Searching(g, ch, i, frames, d)
  PROVE  FramesFit(g, frames, d)
<1>1. d \in Nat /\ d \in 1..d /\ 1 \in 1..d
  BY DEF Searching
<1>2. \A a \in 1..d : frames[a].vertex \in V /\ frames[a].offset \in 1..(Len(g[frames[a].vertex]) + 1)
  BY DEF Searching, IsSearch
<1>3. \A v \in V : /\ Len(g[v]) \in Nat
                   /\ \A j \in 1..Len(g[v]) : g[v][j] \in V
                   /\ \A j, k \in 1..Len(g[v]) : j # k => g[v][j] # g[v][k]
  BY VertexFacts, AdjacencyShape
<1>4. QED
  BY <1>1, <1>2, <1>3 DEF FramesFit

\* A cycle of the change has the vertices of the path that it goes along on it.
LEMMA AlongVertices ==
  ASSUME NEW g \in Adjacencies(V), NEW ch, IsChangeList(g, ch), NEW i \in 1..Len(ch),
         NEW frames, NEW d, Searching(g, ch, i, frames, d),
         NEW c \in Owned(g, ch, i), Along(frames, d, c)
  PROVE  /\ c \in Cycles(g, MaxLength) /\ Uses(c, <<ch[i][1], frames[1].vertex>>)
         /\ On(c, ch[i][1])
         /\ \A a \in 1..d : On(c, frames[a].vertex)
<1>1. c \in Cycles(g, MaxLength) /\ Uses(c, <<ch[i][1], frames[1].vertex>>)
  <2>1. c \in Cycles(g, MaxLength) /\ Uses(c, ch[i]) /\ ch[i] = <<ch[i][1], ch[i][2]>>
    BY ChangeFacts DEF Owned, Owns
  <2>2. QED
    BY <2>1 DEF Searching
<1>2. ASSUME NEW a \in 1..d
      PROVE  On(c, frames[a].vertex)
  <2>1. CASE a = 1
    BY <1>1, <2>1, UsesVertices
  <2>2. CASE a # 1
    <3>1. a - 1 \in 1..(d - 1) /\ (a - 1) + 1 = a
      BY <2>2, SearchShape DEF FramesFit
    <3>2. Uses(c, <<frames[a - 1].vertex, frames[a].vertex>>)
      BY <3>1 DEF Along
    <3>3. QED
      BY <1>1, <3>2, UsesVertices
  <2>3. QED
    BY <2>1, <2>2
<1>3. QED
  BY <1>1, <1>2, UsesVertices

\* The search of a change begins with all its cycles ahead.
LEMMA SearchBegins ==
  ASSUME NEW g \in Adjacencies(V), NEW ch, IsChangeList(g, ch), NEW i \in 1..Len(ch),
         NEW frames, frames[1].vertex = ch[i][2], frames[1].offset = 1
  PROVE  Searching(g, ch, i, frames, 1) /\ Ahead(g, ch, i, frames, 1) = Owned(g, ch, i)
<1>1. /\ ch[i][1] \in V /\ ch[i][2] \in V /\ ch[i][1] # ch[i][2]
      /\ ch[i] = <<ch[i][1], ch[i][2]>>
  BY ChangeFacts
<1>2. Len(g[ch[i][2]]) \in Nat
  BY <1>1, VertexFacts, AdjacencyShape
<1>3. Searching(g, ch, i, frames, 1)
  <2>1. \A a \in 1..1 : a = 1
    OBVIOUS
  <2>2. IsSearch(V, g, frames, 1, 1)
    BY <1>1, <1>2, <2>1 DEF IsSearch
  <2>3. 1 \in Nat \ {0} /\ 1 + 1 <= MaxLength /\ 1..(1 - 1) = {}
    BY VertexFacts
  <2>4. QED
    BY <1>1, <2>1, <2>2, <2>3 DEF Searching
<1>4. ASSUME NEW c \in Owned(g, ch, i)
      PROVE  Leaves(g, frames, 1, c)
  <2>1. c \in Cycles(g, MaxLength) /\ Uses(c, <<ch[i][1], ch[i][2]>>)
    BY <1>1 DEF Owned, Owns
  <2>2. PICK k \in 1..Len(c) : c[k] = ch[i][2]
    BY <2>1, UsesVertices DEF On
  <2>3. Successor(c, k) \in Neighbours(g, ch[i][2])
    BY <2>1, <2>2, VertexFacts, CycleShape
  <2>4. PICK j \in 1..Len(g[ch[i][2]]) : g[ch[i][2]][j] = Successor(c, k)
    BY <2>3 DEF Neighbours
  <2>5. Uses(c, <<frames[1].vertex, g[frames[1].vertex][j]>>)
    BY <2>2, <2>4 DEF Uses
  <2>6. Along(frames, 1, c)
    BY DEF Along
  <2>7. QED
    BY <2>4, <2>5, <2>6 DEF Leaves
<1>5. 1 \in 1..1
  OBVIOUS
<1>6. QED
  BY <1>3, <1>4, <1>5 DEF Ahead

\* Consuming an edge leaves ahead the cycles but those that take it.
LEMMA SearchConsumes ==
  ASSUME NEW g \in Adjacencies(V), NEW ch, NEW i,
         NEW frames, NEW d, Searching(g, ch, i, frames, d),
         frames[d].offset <= Len(g[frames[d].vertex]),
         NEW now, Consumed(frames, now, d),
         NEW n, n = g[frames[d].vertex][frames[d].offset]
  PROVE  /\ Searching(g, ch, i, now, d)
         /\ n \in V /\ n \in Neighbours(g, frames[d].vertex)
         /\ \A c \in Owned(g, ch, i) :
              c \in Ahead(g, ch, i, now, d)
                <=> /\ c \in Ahead(g, ch, i, frames, d)
                    /\ ~(Along(frames, d, c) /\ Uses(c, <<frames[d].vertex, n>>))
<1> DEFINE v == frames[d].vertex
           o == frames[d].offset
<1>1. /\ d \in Nat /\ d \in 1..d /\ v \in V /\ Len(g[v]) \in Nat /\ o \in 1..Len(g[v])
      /\ \A j \in 1..Len(g[v]) : g[v][j] \in V
      /\ \A j, k \in 1..Len(g[v]) : j # k => g[v][j] # g[v][k]
  BY SearchShape, SMTT(30) DEF FramesFit
<1>2. n \in V /\ n \in Neighbours(g, v)
  BY <1>1 DEF Neighbours
<1>3. /\ \A a \in 1..d : now[a].vertex = frames[a].vertex
      /\ \A a \in 1..(d - 1) : now[a].offset = frames[a].offset /\ a \in 1..d /\ a + 1 \in 1..d
      /\ now[d].offset = o + 1
      /\ \A a \in 1..d : a \in 1..(d - 1) \/ a = d
  BY <1>1 DEF Consumed
<1>4. Searching(g, ch, i, now, d)
  <2>1. \A a \in 1..d : now[a].offset \in 1..(Len(g[now[a].vertex]) + 1)
    <3>1. ASSUME NEW a \in 1..d
          PROVE  now[a].offset \in 1..(Len(g[now[a].vertex]) + 1)
      <4>1. CASE a = d
        <5>1. now[a].vertex = v /\ now[a].offset = o + 1
          BY <1>3, <4>1
        <5>2. o + 1 \in 1..(Len(g[v]) + 1)
          <6> HIDE DEF o, v
          <6> QED BY <1>1
        <5>3. QED
          BY <5>1, <5>2
      <4>2. CASE a # d
        <5>1. a \in 1..(d - 1)
          BY <1>3, <4>2
        <5>2. now[a].vertex = frames[a].vertex /\ now[a].offset = frames[a].offset
          BY <1>3, <5>1
        <5>3. frames[a].offset \in 1..(Len(g[frames[a].vertex]) + 1)
          BY SearchShape DEF FramesFit
        <5>4. QED
          BY <5>2, <5>3
      <4>3. QED
        BY <4>1, <4>2
    <3>2. QED
      BY <3>1
  <2>2. \A a \in 1..(d - 1) : /\ now[a].offset >= 2
                              /\ g[now[a].vertex][now[a].offset - 1] = now[a + 1].vertex
    BY <1>3 DEF Searching, IsSearch
  <2>3. IsSearch(V, g, now, 1, d)
    <3>1. \A a \in 1..d : now[a].vertex \in V
      BY <1>3, SearchShape, SMTT(30) DEF FramesFit
    <3>2. QED
      BY <2>1, <2>2, <3>1 DEF IsSearch
  <2>4. QED
    BY <1>1, <1>3, <2>3 DEF Searching
<1>5. ASSUME NEW c \in Owned(g, ch, i)
      PROVE  c \in Ahead(g, ch, i, now, d)
               <=> /\ c \in Ahead(g, ch, i, frames, d)
                   /\ ~(Along(frames, d, c) /\ Uses(c, <<v, n>>))
  <2> HIDE DEF v, o
  <2>1. c \in Cycles(g, MaxLength)
    BY DEF Owned
  <2>2. \A k \in 1..d : Along(now, k, c) <=> Along(frames, k, c)
    <3>1. \A k \in 1..d : \A a \in 1..(k - 1) : a \in 1..d /\ a + 1 \in 1..d
      BY <1>1
    <3>2. QED
      BY <1>3, <3>1 DEF Along
  <2>3. \A k \in 1..(d - 1) : Leaves(g, now, k, c) <=> Leaves(g, frames, k, c)
    BY <1>3, <2>2 DEF Leaves
  <2>4. \A j \in 1..Len(g[v]) : Uses(c, <<v, n>>) /\ Uses(c, <<v, g[v][j]>>) => j = o
    <3>1. ASSUME NEW j \in 1..Len(g[v]), Uses(c, <<v, n>>), Uses(c, <<v, g[v][j]>>)
          PROVE  j = o
      <4>1. g[v][j] = n /\ n = g[v][o]
        <5>1. g[v][j] = n
          BY <2>1, <3>1, OneNeighbour
        <5>2. QED
          BY <5>1 DEF v, o
      <4>2. QED
        BY <1>1, <4>1
    <3>2. QED
      BY <3>1
  <2>5. Leaves(g, now, d, c)
          <=> Along(frames, d, c) /\ \E j \in (o + 1)..Len(g[v]) : Uses(c, <<v, g[v][j]>>)
    BY <1>1, <1>3, <2>2 DEF Leaves, v
  <2>6. Leaves(g, frames, d, c)
          <=> Along(frames, d, c) /\ \E j \in o..Len(g[v]) : Uses(c, <<v, g[v][j]>>)
    BY DEF Leaves, v, o
  <2>7. ASSUME Along(frames, d, c), Uses(c, <<v, n>>)
        PROVE  /\ ~Leaves(g, now, d, c)
               /\ \A k \in 1..(d - 1) : ~Leaves(g, frames, k, c)
    <3>1. ~Leaves(g, now, d, c)
      <4>1. SUFFICES ASSUME NEW j \in (o + 1)..Len(g[v]), Uses(c, <<v, g[v][j]>>)
                     PROVE  FALSE
        BY <2>5
      <4>2. j \in 1..Len(g[v]) /\ j # o
        BY <1>1
      <4>3. QED
        BY <2>4, <2>7, <4>1, <4>2
    <3>2. ASSUME NEW k \in 1..(d - 1), Leaves(g, frames, k, c)
          PROVE  FALSE
      <4> DEFINE u == frames[k].vertex
                 p == frames[k].offset
      <4>1. k \in 1..d /\ Uses(c, <<u, frames[k + 1].vertex>>)
        BY <1>3, <2>7 DEF Along
      <4>2. p >= 2 /\ g[u][p - 1] = frames[k + 1].vertex
        BY DEF Searching, IsSearch
      <4>3. /\ p \in 1..(Len(g[u]) + 1) /\ Len(g[u]) \in Nat
            /\ \A j, m \in 1..Len(g[u]) : j # m => g[u][j] # g[u][m]
        <5>1. \A a \in 1..d : /\ frames[a].offset \in 1..(Len(g[frames[a].vertex]) + 1)
                             /\ Len(g[frames[a].vertex]) \in Nat
                             /\ \A j, m \in 1..Len(g[frames[a].vertex]) :
                                  j # m => g[frames[a].vertex][j] # g[frames[a].vertex][m]
          <6>1. FramesFit(g, frames, d)
            BY SearchShape
          <6>2. QED
            BY <6>1 DEF FramesFit
        <5>2. QED
          BY <4>1, <5>1
      <4>4. PICK j \in p..Len(g[u]) : Uses(c, <<u, g[u][j]>>)
        BY <3>2 DEF Leaves
      <4>5. g[u][j] = g[u][p - 1]
        <5>1. g[u][j] = frames[k + 1].vertex
          BY <2>1, <4>1, <4>4, OneNeighbour
        <5>2. QED
          BY <4>2, <5>1
      <4> HIDE DEF u, p
      <4>6. j \in 1..Len(g[u]) /\ p - 1 \in 1..Len(g[u]) /\ j # p - 1
        BY <4>2, <4>3
      <4>7. QED
        BY <4>3, <4>5, <4>6
    <3>3. QED
      BY <3>1, <3>2
  <2>8. ASSUME ~(Along(frames, d, c) /\ Uses(c, <<v, n>>))
        PROVE  Leaves(g, now, d, c) <=> Leaves(g, frames, d, c)
    <3>1. \A j \in o..Len(g[v]) : j = o \/ j \in (o + 1)..Len(g[v])
      BY <1>1
    <3>2. \A j \in (o + 1)..Len(g[v]) : j \in o..Len(g[v])
      BY <1>1
    <3>3. n = g[v][o]
      BY DEF v, o
    <3>4. QED
      BY <2>5, <2>6, <2>8, <3>1, <3>2, <3>3
  <2>9. /\ c \in Ahead(g, ch, i, now, d) <=> \E k \in 1..d : Leaves(g, now, k, c)
        /\ c \in Ahead(g, ch, i, frames, d) <=> \E k \in 1..d : Leaves(g, frames, k, c)
    BY DEF Ahead
  <2>10. QED
    BY <1>1, <1>3, <2>3, <2>7, <2>8, <2>9
<1>6. QED
  BY <1>2, <1>4, <1>5

\* The edge from u to n is an earlier change.
Forbidden(ch, i, u, n) == \E j \in 1..(i - 1) : ch[j] = <<u, n>>

\* An earlier change is not on a cycle of the change.
LEMMA ForbiddenUnused ==
  ASSUME NEW g, NEW ch, NEW i, NEW c \in Owned(g, ch, i), NEW u, NEW n,
         Forbidden(ch, i, u, n)
  PROVE  ~Uses(c, <<u, n>>)
BY DEF Owned, Owns, Forbidden

\* The closed walk of a path that the next edge leads back to the source.
ClosedBy(s, frames, d) == <<s>> \o [a \in 1..d |-> frames[a].vertex]

\* What such a walk w is, position by position.
ClosesPath(w, s, frames, d) ==
  /\ w \in [1..(d + 1) -> V]
  /\ Len(w) = d + 1
  /\ w[1] = s
  /\ \A a \in 1..d : w[a + 1] = frames[a].vertex
  /\ Successor(w, d + 1) = s
  /\ \A a \in 1..d : Successor(w, a) = frames[a].vertex

LEMMA ClosedWalk ==
  ASSUME NEW s \in V, NEW d \in Nat \ {0}, NEW frames,
         \A a \in 1..d : frames[a].vertex \in V
  PROVE  ClosesPath(ClosedBy(s, frames, d), s, frames, d)
<1> DEFINE p == [a \in 1..d |-> frames[a].vertex]
           w == ClosedBy(s, frames, d)
<1>1. p \in [1..d -> V] /\ \A a \in 1..d : p[a] = frames[a].vertex
  OBVIOUS
<1>2. w = <<s>> \o p
  BY DEF ClosedBy
<1> HIDE DEF p, w
<1>3. p \in Seq(V) /\ Len(p) = d /\ <<s>> \in Seq(V) /\ Len(<<s>>) = 1 /\ <<s>>[1] = s
  BY <1>1, SequenceOf, LenOfFunction
<1>4. /\ w \in Seq(V) /\ Len(w) = 1 + d
      /\ \A a \in 1..(1 + d) : w[a] = IF a <= 1 THEN <<s>>[a] ELSE p[a - 1]
  BY <1>2, <1>3, ConcatProperties
<1>5. w \in [1..(d + 1) -> V] /\ Len(w) = d + 1
  <2>1. 1 + d = d + 1
    OBVIOUS
  <2>2. QED
    BY <1>4, <2>1, LenProperties
<1>6. w[1] = s /\ \A a \in 1..d : w[a + 1] = frames[a].vertex
  <2>1. 1 \in 1..(1 + d) /\ \A a \in 1..d : /\ a + 1 \in 1..(1 + d) /\ ~(a + 1 <= 1)
                                           /\ (a + 1) - 1 = a
    OBVIOUS
  <2>2. QED
    BY <1>1, <1>3, <1>4, <2>1
<1>7. Successor(w, d + 1) = s
  BY <1>5, <1>6 DEF Successor
<1>8. \A a \in 1..d : Successor(w, a) = frames[a].vertex
  <2>1. \A a \in 1..d : a # d + 1
    OBVIOUS
  <2>2. QED
    BY <1>5, <1>6, <2>1 DEF Successor
<1>9. ClosesPath(w, s, frames, d)
  BY <1>5, <1>6, <1>7, <1>8 DEF ClosesPath
<1>10. QED
  BY <1>9 DEF w

\* The edges of the closed walk.
ClosingEdge(s, frames, d, e) ==
  \/ e[1] = s /\ e[2] = frames[1].vertex
  \/ \E a \in 1..(d - 1) : e[1] = frames[a].vertex /\ e[2] = frames[a + 1].vertex
  \/ e[1] = frames[d].vertex /\ e[2] = s

LEMMA ClosedWalkUses ==
  ASSUME NEW s \in V, NEW d \in Nat \ {0}, NEW frames,
         \A a \in 1..d : frames[a].vertex \in V
  PROVE  \A e : Uses(ClosedBy(s, frames, d), e) <=> ClosingEdge(s, frames, d, e)
<1> DEFINE w == ClosedBy(s, frames, d)
<1>1. /\ Len(w) = d + 1 /\ w[1] = s /\ \A a \in 1..d : w[a + 1] = frames[a].vertex
      /\ Successor(w, d + 1) = s /\ \A a \in 1..d : Successor(w, a) = frames[a].vertex
  <2>1. ClosesPath(w, s, frames, d)
    BY ClosedWalk
  <2>2. QED
    BY <2>1 DEF ClosesPath
<1> HIDE DEF w
<1> TAKE e
<1>2. ASSUME NEW k \in 1..(d + 1), w[k] = e[1], Successor(w, k) = e[2]
      PROVE  \/ e[1] = s /\ e[2] = frames[1].vertex
             \/ \E a \in 1..(d - 1) : e[1] = frames[a].vertex /\ e[2] = frames[a + 1].vertex
             \/ e[1] = frames[d].vertex /\ e[2] = s
  <2>1. CASE k = 1
    <3>1. 1 \in 1..d
      OBVIOUS
    <3>2. QED
      BY <1>1, <1>2, <2>1, <3>1
  <2>2. CASE k = d + 1
    <3>1. d \in 1..d
      OBVIOUS
    <3>2. QED
      BY <1>1, <1>2, <2>2, <3>1
  <2>3. CASE k # 1 /\ k # d + 1
    <3>1. k - 1 \in 1..(d - 1) /\ k - 1 \in 1..d /\ (k - 1) + 1 = k /\ k \in 1..d
      BY <2>3
    <3>2. e[1] = frames[k - 1].vertex /\ e[2] = frames[(k - 1) + 1].vertex
      BY <1>1, <1>2, <3>1
    <3>3. QED
      BY <3>1, <3>2
  <2>4. QED
    BY <2>1, <2>2, <2>3
<1>3. ASSUME e[1] = s, e[2] = frames[1].vertex
      PROVE  Uses(w, e)
  <2>1. 1 \in 1..d /\ 1 \in 1..(d + 1)
    OBVIOUS
  <2>2. QED
    BY <1>1, <1>3, <2>1 DEF Uses
<1>4. ASSUME NEW a \in 1..(d - 1), e[1] = frames[a].vertex, e[2] = frames[a + 1].vertex
      PROVE  Uses(w, e)
  <2>1. a \in 1..d /\ a + 1 \in 1..d /\ a + 1 \in 1..(d + 1)
    OBVIOUS
  <2>2. QED
    BY <1>1, <1>4, <2>1 DEF Uses
<1>5. ASSUME e[1] = frames[d].vertex, e[2] = s
      PROVE  Uses(w, e)
  <2>1. d \in 1..d /\ d + 1 \in 1..(d + 1)
    OBVIOUS
  <2>2. QED
    BY <1>1, <1>5, <2>1 DEF Uses
<1>6. QED
  BY <1>1, <1>2, <1>3, <1>4, <1>5 DEF Uses, ClosingEdge, w

\* The search is back at the source: it has come to one cycle, ahead of it before
\* and behind it now.
LEMMA SearchCloses ==
  ASSUME NEW g \in Adjacencies(V), NEW ch, IsChangeList(g, ch), NEW i \in 1..Len(ch),
         NEW frames, NEW d, Searching(g, ch, i, frames, d),
         frames[d].offset <= Len(g[frames[d].vertex]),
         NEW now, Consumed(frames, now, d),
         g[frames[d].vertex][frames[d].offset] = ch[i][1],
         ~Forbidden(ch, i, frames[d].vertex, ch[i][1]),
         NEW found, found = Rotated(ClosedBy(ch[i][1], frames, d))
  PROVE  /\ Searching(g, ch, i, now, d)
         /\ Len(found) = d + 1
         /\ found \in Ahead(g, ch, i, frames, d)
         /\ Ahead(g, ch, i, now, d) = Ahead(g, ch, i, frames, d) \ {found}
<1> DEFINE s == ch[i][1]
           t == ch[i][2]
           w == ClosedBy(s, frames, d)
           n == g[frames[d].vertex][frames[d].offset]
<1>1. /\ s \in V /\ t \in V /\ s # t /\ ch[i] = <<s, t>> /\ t \in Neighbours(g, s)
      /\ \A j \in 1..Len(ch) : ch[j] = <<ch[j][1], ch[j][2]>>
      /\ \A j \in 1..Len(ch) : i # j => ch[i] # ch[j]
      /\ Len(ch) \in Nat
  BY ChangeFacts
<1>2. /\ d \in Nat \ {0} /\ d + 1 <= MaxLength /\ d + 1 >= 2 /\ d + 1 \in 2..MaxLength
      /\ frames[1].vertex = t
      /\ \A a \in 1..d : frames[a].vertex \in V /\ frames[a].vertex # s
      /\ \A a, b \in 1..d : a # b => frames[a].vertex # frames[b].vertex
  <2>1. /\ d \in Nat \ {0} /\ d + 1 <= MaxLength /\ frames[1].vertex = t
        /\ \A a \in 1..d : frames[a].vertex # s
        /\ \A a, b \in 1..d : a # b => frames[a].vertex # frames[b].vertex
    BY DEF Searching
  <2>2. d + 1 >= 2 /\ d + 1 \in 2..MaxLength
    BY <2>1, VertexFacts
  <2>3. \A a \in 1..d : frames[a].vertex \in V
    BY SearchShape DEF FramesFit
  <2>4. QED
    BY <2>1, <2>2, <2>3
<1>3. /\ Searching(g, ch, i, now, d)
      /\ n \in V /\ n \in Neighbours(g, frames[d].vertex)
      /\ \A c \in Owned(g, ch, i) :
           c \in Ahead(g, ch, i, now, d)
             <=> /\ c \in Ahead(g, ch, i, frames, d)
                 /\ ~(Along(frames, d, c) /\ Uses(c, <<frames[d].vertex, n>>))
  BY SearchConsumes
<1>4. n = s
  OBVIOUS
<1> HIDE DEF n, s, t
<1>5. /\ w \in [1..(d + 1) -> V] /\ w[1] = s
      /\ \A a \in 1..d : w[a + 1] = frames[a].vertex
  <2>1. ClosesPath(w, s, frames, d)
    <3>1. s \in V /\ d \in Nat \ {0} /\ \A a \in 1..d : frames[a].vertex \in V
      BY <1>1, <1>2
    <3>2. QED
      BY <3>1, ClosedWalk
  <2>2. QED
    BY <2>1 DEF ClosesPath
<1>6. \A e : Uses(w, e)
             <=> \/ e[1] = s /\ e[2] = t
                 \/ \E a \in 1..(d - 1) : e[1] = frames[a].vertex /\ e[2] = frames[a + 1].vertex
                 \/ e[1] = frames[d].vertex /\ e[2] = s
  <2>1. \A e : Uses(w, e) <=> ClosingEdge(s, frames, d, e)
    BY <1>1, <1>2, ClosedWalkUses
  <2>2. QED
    BY <1>2, <2>1 DEF ClosingEdge
<1> HIDE DEF w
<1>7. \A a, b \in 1..(d + 1) : a # b => w[a] # w[b]
  <2>1. \A a \in 1..(d + 1) : a = 1 \/ (a - 1 \in 1..d /\ (a - 1) + 1 = a)
    BY <1>2
  <2>2. ASSUME NEW a \in 1..(d + 1), NEW b \in 1..(d + 1), a # b
        PROVE  w[a] # w[b]
    <3>1. CASE a = 1
      <4>1. b - 1 \in 1..d /\ w[b] = frames[b - 1].vertex
        BY <1>5, <2>1, <2>2, <3>1
      <4>2. QED
        BY <1>2, <1>5, <3>1, <4>1
    <3>2. CASE b = 1
      <4>1. a - 1 \in 1..d /\ w[a] = frames[a - 1].vertex
        BY <1>5, <2>1, <2>2, <3>2
      <4>2. QED
        BY <1>2, <1>5, <3>2, <4>1
    <3>3. CASE a # 1 /\ b # 1
      <4>1. a - 1 \in 1..d /\ b - 1 \in 1..d /\ a - 1 # b - 1
            /\ w[a] = frames[a - 1].vertex /\ w[b] = frames[b - 1].vertex
        BY <1>5, <2>1, <2>2, <3>3
      <4>2. QED
        BY <1>2, <4>1
    <3>4. QED
      BY <3>1, <3>2, <3>3
  <2>3. QED
    BY <2>2
<1>8. found = Rotated(w)
  BY DEF w, s
<1>9. /\ found \in [1..(d + 1) -> V]
      /\ \A a, b \in 1..(d + 1) : a # b => found[a] # found[b]
      /\ \A a \in 2..(d + 1) : found[1] < found[a]
      /\ \A e : Uses(found, e) <=> Uses(w, e)
  <2>1. d + 1 \in Nat /\ d + 1 >= 2
    BY <1>2
  <2>2. QED
    BY <1>5, <1>7, <1>8, <2>1, RotatedWalk, SMTT(30)
<1>10. Len(found) = d + 1
  <2>1. d + 1 \in Nat
    BY <1>2
  <2>2. QED
    BY <1>9, <2>1, LenOfFunction
<1>11. \A u, x : Uses(w, <<u, x>>) => x \in Neighbours(g, u)
  <2>1. ASSUME NEW u, NEW x, Uses(w, <<u, x>>)
        PROVE  x \in Neighbours(g, u)
    <3>1. \/ u = s /\ x = t
          \/ \E a \in 1..(d - 1) : u = frames[a].vertex /\ x = frames[a + 1].vertex
          \/ u = frames[d].vertex /\ x = s
      <4>1. <<u, x>>[1] = u /\ <<u, x>>[2] = x
        OBVIOUS
      <4>2. QED
        BY <1>6, <2>1, <4>1
    <3>2. ASSUME NEW a \in 1..(d - 1)
          PROVE  frames[a + 1].vertex \in Neighbours(g, frames[a].vertex)
      <4> DEFINE y == frames[a].vertex
                 o == frames[a].offset
      <4>1. a \in 1..d
        BY <1>2
      <4>2. o >= 2 /\ g[y][o - 1] = frames[a + 1].vertex
        BY DEF Searching, IsSearch
      <4>3. o \in 1..(Len(g[y]) + 1) /\ Len(g[y]) \in Nat
        BY <4>1, SearchShape DEF FramesFit
      <4> HIDE DEF o, y
      <4>4. o - 1 \in 1..Len(g[y])
        BY <4>2, <4>3
      <4>5. frames[a + 1].vertex \in Neighbours(g, y)
        BY <4>2, <4>4 DEF Neighbours
      <4>6. QED
        BY <4>5 DEF y
    <3>3. QED
      BY <1>1, <1>3, <1>4, <3>1, <3>2
  <2>2. QED
    BY <2>1
<1>12. \A k \in 1..(d + 1) : Uses(w, <<found[k], Successor(found, k)>>)
  <2>1. \A k \in 1..(d + 1) : Uses(found, <<found[k], Successor(found, k)>>)
    BY <1>10 DEF Uses
  <2>2. QED
    BY <1>9, <2>1
<1>13. found \in Cycles(g, MaxLength)
  <2>1. DOMAIN g = V
    BY DEF Adjacencies
  <2>2. \A k \in 1..(d + 1) : Successor(found, k) \in Neighbours(g, found[k])
    BY <1>11, <1>12
  <2>3. IsSimpleCycle(g, found)
    BY <1>9, <1>10, <2>2 DEF IsSimpleCycle
  <2>4. found \in UNION {[1..k -> DOMAIN g] : k \in 2..MaxLength}
    BY <1>2, <1>9, <2>1
  <2>5. QED
    BY <2>3, <2>4 DEF Cycles
<1>14. found \in Owned(g, ch, i)
  <2>1. Uses(found, ch[i])
    BY <1>1, <1>6, <1>9
  <2>2. ASSUME NEW j \in 1..(i - 1), Uses(found, ch[j])
        PROVE  FALSE
    <3>1. j \in 1..Len(ch) /\ i # j /\ ch[j] = <<ch[j][1], ch[j][2]>> /\ ch[i] # ch[j]
      BY <1>1
    <3>2. \/ ch[j] = <<s, t>>
          \/ \E a \in 1..(d - 1) : ch[j] = <<frames[a].vertex, frames[a + 1].vertex>>
          \/ ch[j] = <<frames[d].vertex, s>>
      BY <1>6, <1>9, <2>2, <3>1
    <3>3. ~ \E a \in 1..(d - 1) : ch[j] = <<frames[a].vertex, frames[a + 1].vertex>>
      BY DEF Searching
    <3>4. ch[j] # <<frames[d].vertex, s>>
      BY DEF Forbidden, s
    <3>5. QED
      BY <1>1, <3>1, <3>2, <3>3, <3>4
  <2>3. QED
    BY <1>13, <2>1, <2>2 DEF Owned, Owns
<1>15. Along(frames, d, found) /\ Uses(found, <<frames[d].vertex, n>>)
  BY <1>4, <1>6, <1>9 DEF Along
<1>16. found \in Ahead(g, ch, i, frames, d)
  <2> DEFINE u == frames[d].vertex
             o == frames[d].offset
  <2>1. d \in 1..d /\ o \in 1..(Len(g[u]) + 1) /\ Len(g[u]) \in Nat /\ o <= Len(g[u]) /\ n = g[u][o]
    BY SearchShape DEF n, FramesFit
  <2>2. Along(frames, d, found) /\ Uses(found, <<u, n>>)
    BY <1>15
  <2>3. o \in o..Len(g[u])
    <3> HIDE DEF o, u
    <3> QED BY <2>1
  <2>4. Leaves(g, frames, d, found)
    BY <2>1, <2>2, <2>3 DEF Leaves
  <2>5. QED
    BY <1>14, <2>1, <2>4 DEF Ahead
<1>17. ASSUME NEW c \in Owned(g, ch, i), Along(frames, d, c), Uses(c, <<frames[d].vertex, n>>)
       PROVE  c = found
  <2>1. c \in Cycles(g, MaxLength) /\ Uses(c, <<s, t>>)
    BY <1>1 DEF Owned, Owns
  <2>2. ASSUME NEW u, NEW x, Uses(w, <<u, x>>)
        PROVE  Uses(c, <<u, x>>)
    <3>1. \/ u = s /\ x = t
          \/ \E a \in 1..(d - 1) : u = frames[a].vertex /\ x = frames[a + 1].vertex
          \/ u = frames[d].vertex /\ x = s
      <4>1. <<u, x>>[1] = u /\ <<u, x>>[2] = x
        OBVIOUS
      <4>2. QED
        BY <1>6, <2>2, <4>1
    <3>2. QED
      BY <1>4, <1>17, <2>1, <3>1 DEF Along
  <2>3. \A k \in 1..Len(found) : Uses(c, <<found[k], Successor(found, k)>>)
    BY <1>10, <1>12, <2>2
  <2>4. QED
    BY <1>13, <2>1, <2>3, SameCycle
<1>18. Ahead(g, ch, i, now, d) = Ahead(g, ch, i, frames, d) \ {found}
  <2>1. /\ Ahead(g, ch, i, now, d) \subseteq Owned(g, ch, i)
        /\ Ahead(g, ch, i, frames, d) \subseteq Owned(g, ch, i)
    BY DEF Ahead
  <2>2. QED
    BY <1>3, <1>15, <1>17, <2>1
<1>19. QED
  BY <1>3, <1>10, <1>16, <1>18

\* A cycle that goes along the path does not go back to it but at the source.
LEMMA NoReturn ==
  ASSUME NEW g \in Adjacencies(V), NEW ch, IsChangeList(g, ch), NEW i \in 1..Len(ch),
         NEW frames, NEW d, Searching(g, ch, i, frames, d),
         NEW c \in Owned(g, ch, i), Along(frames, d, c), NEW a \in 1..d
  PROVE  ~Uses(c, <<frames[d].vertex, frames[a].vertex>>)
<1>1. SUFFICES ASSUME Uses(c, <<frames[d].vertex, frames[a].vertex>>)
               PROVE  FALSE
  OBVIOUS
<1>2. /\ c \in Cycles(g, MaxLength) /\ Uses(c, <<ch[i][1], frames[1].vertex>>)
      /\ d \in Nat /\ d \in 1..d
  BY AlongVertices, SearchShape DEF FramesFit
<1>3. \A u, v, x : Uses(c, <<u, x>>) /\ Uses(c, <<v, x>>) => u = v
  BY <1>2, OneNeighbour
<1>4. /\ \A b \in 1..d : frames[b].vertex # ch[i][1]
      /\ \A b, e \in 1..d : b # e => frames[b].vertex # frames[e].vertex
  BY DEF Searching
<1>5. CASE a = 1
  BY <1>1, <1>2, <1>3, <1>4, <1>5
<1>6. CASE a # 1
  <2>1. a - 1 \in 1..(d - 1) /\ a - 1 \in 1..d /\ (a - 1) + 1 = a /\ a - 1 # d
    BY <1>2, <1>6
  <2>2. Uses(c, <<frames[a - 1].vertex, frames[a].vertex>>)
    BY <2>1 DEF Along
  <2>3. frames[a - 1].vertex = frames[d].vertex
    BY <1>1, <1>3, <2>2
  <2>4. QED
    BY <1>2, <1>4, <2>1, <2>3
<1>7. QED
  BY <1>5, <1>6

\* A cycle that goes on to a new vertex has it, the path and the source on it.
LEMMA GoesFurther ==
  ASSUME NEW g \in Adjacencies(V), NEW ch, IsChangeList(g, ch), NEW i \in 1..Len(ch),
         NEW frames, NEW d, Searching(g, ch, i, frames, d),
         NEW c \in Owned(g, ch, i), Along(frames, d, c),
         NEW n, Uses(c, <<frames[d].vertex, n>>),
         n # ch[i][1], \A a \in 1..d : n # frames[a].vertex
  PROVE  d + 2 <= MaxLength
<1> DEFINE D == 1..(d + 2)
           L == 1..Len(c)
           at(a) == IF a = d + 1 THEN ch[i][1] ELSE IF a = d + 2 THEN n ELSE frames[a].vertex
           f == [a \in D |-> CHOOSE k \in L : c[k] = at(a)]
<1>1. /\ c \in Cycles(g, MaxLength) /\ d \in Nat
      /\ On(c, ch[i][1]) /\ \A a \in 1..d : On(c, frames[a].vertex)
  BY AlongVertices, SearchShape DEF FramesFit
<1>2. On(c, n)
  BY <1>1, UsesVertices
<1>3. Len(c) \in 2..MaxLength /\ Len(c) \in Nat /\ MaxLength \in Nat
  BY <1>1, VertexFacts, CycleShape
<1>4. \A a \in D : a \in 1..d \/ a = d + 1 \/ a = d + 2
  BY <1>1
<1>5. ASSUME NEW a \in D
      PROVE  f[a] \in L /\ c[f[a]] = at(a)
  <2>1. \E k \in L : c[k] = at(a)
    <3>1. On(c, at(a))
      BY <1>1, <1>2, <1>4
    <3>2. QED
      BY <3>1 DEF On
  <2> HIDE DEF at
  <2>2. f[a] = CHOOSE k \in L : c[k] = at(a)
    OBVIOUS
  <2> HIDE DEF f, L
  <2>3. QED
    BY <2>1, <2>2
<1>6. ASSUME NEW a \in D, NEW b \in D, a # b
      PROVE  at(a) # at(b)
  <2>1. /\ \A x \in 1..d : frames[x].vertex # ch[i][1]
        /\ \A x, y \in 1..d : x # y => frames[x].vertex # frames[y].vertex
    BY DEF Searching
  <2>2. \A x \in 1..d : x # d + 1 /\ x # d + 2 /\ d + 1 # d + 2
    BY <1>1
  <2> HIDE DEF D
  <2>3. QED
    BY <1>4, <1>6, <2>1, <2>2
<1> HIDE DEF at
<1>7. f \in [D -> L]
  BY <1>5
<1> HIDE DEF f
<1>8. f \in Injection(D, L)
  <2> HIDE DEF D, L
  <2>1. \A a, b \in D : f[a] = f[b] => a = b
    BY <1>5, <1>6
  <2>2. QED
    BY <1>7, <2>1 DEF Injection, IsInjective
<1>9. IsFiniteSet(L) /\ Cardinality(L) = Len(c)
  <2>1. 1 \in Int /\ Len(c) \in Int /\ ~(1 > Len(c)) /\ Len(c) - 1 + 1 = Len(c)
    BY <1>3
  <2>2. QED
    BY <2>1, FS_Interval
<1>10. Cardinality(D) = d + 2
  <2>1. 1 \in Int /\ d + 2 \in Int /\ ~(1 > d + 2) /\ (d + 2) - 1 + 1 = d + 2
    BY <1>1
  <2>2. QED
    BY <2>1, FS_Interval
<1>11. Cardinality(D) <= Cardinality(L)
  <2> HIDE DEF D, L
  <2> QED BY <1>8, <1>9, FS_Injection
<1>12. QED
  BY <1>1, <1>3, <1>9, <1>10, <1>11

\* Passing over an edge loses no cycle: none of the change's is cut off.
LEMMA SearchSkips ==
  ASSUME NEW g \in Adjacencies(V), NEW ch, IsChangeList(g, ch), NEW i \in 1..Len(ch),
         NEW frames, NEW d, Searching(g, ch, i, frames, d),
         frames[d].offset <= Len(g[frames[d].vertex]),
         NEW now, Consumed(frames, now, d),
         NEW n, n = g[frames[d].vertex][frames[d].offset],
         \/ Forbidden(ch, i, frames[d].vertex, n)
         \/ /\ n # ch[i][1]
            /\ (\E a \in 1..d : n = frames[a].vertex) \/ d + 1 >= MaxLength
  PROVE  Searching(g, ch, i, now, d) /\ Ahead(g, ch, i, now, d) = Ahead(g, ch, i, frames, d)
<1>1. /\ Searching(g, ch, i, now, d)
      /\ \A c \in Owned(g, ch, i) :
           c \in Ahead(g, ch, i, now, d)
             <=> /\ c \in Ahead(g, ch, i, frames, d)
                 /\ ~(Along(frames, d, c) /\ Uses(c, <<frames[d].vertex, n>>))
  BY SearchConsumes
<1>2. ASSUME NEW c \in Owned(g, ch, i), Along(frames, d, c), Uses(c, <<frames[d].vertex, n>>)
      PROVE  FALSE
  <2>1. ~Forbidden(ch, i, frames[d].vertex, n)
    BY <1>2, ForbiddenUnused
  <2>2. ~ \E a \in 1..d : n = frames[a].vertex
    BY <1>2, NoReturn
  <2>3. n # ch[i][1] /\ d + 1 >= MaxLength
    BY <2>1, <2>2
  <2>4. d + 2 <= MaxLength
    BY <1>2, <2>2, <2>3, GoesFurther
  <2>5. d \in Nat /\ MaxLength \in Nat
    BY VertexFacts, SearchShape DEF FramesFit
  <2>6. QED
    BY <2>3, <2>4, <2>5
<1>3. /\ Ahead(g, ch, i, now, d) \subseteq Owned(g, ch, i)
      /\ Ahead(g, ch, i, frames, d) \subseteq Owned(g, ch, i)
  BY DEF Ahead
<1>4. QED
  BY <1>1, <1>2, <1>3

\* The search goes on to a new vertex, by an edge that is not forbidden.
GoesOn(ch, i, frames, d, now, n) ==
  /\ ~Forbidden(ch, i, frames[d].vertex, n) /\ n # ch[i][1]
  /\ \A a \in 1..d : n # frames[a].vertex
  /\ d + 1 < MaxLength
  /\ now[d + 1].vertex = n /\ now[d + 1].offset = 1

\* This keeps ahead what was.
LEMMA SearchPushes ==
  ASSUME NEW g \in Adjacencies(V), NEW ch, IsChangeList(g, ch), NEW i \in 1..Len(ch),
         NEW frames, NEW d, Searching(g, ch, i, frames, d),
         frames[d].offset <= Len(g[frames[d].vertex]),
         NEW now, Consumed(frames, now, d),
         NEW n, n = g[frames[d].vertex][frames[d].offset],
         GoesOn(ch, i, frames, d, now, n)
  PROVE  /\ Searching(g, ch, i, now, d + 1)
         /\ Ahead(g, ch, i, now, d + 1) = Ahead(g, ch, i, frames, d)
<1> DEFINE v == frames[d].vertex
           o == frames[d].offset
<1>0. /\ now[d + 1].vertex = n /\ now[d + 1].offset = 1
      /\ ~Forbidden(ch, i, frames[d].vertex, n) /\ n # ch[i][1]
      /\ \A a \in 1..d : n # frames[a].vertex
      /\ d + 1 < MaxLength
  BY DEF GoesOn
<1>1. /\ Searching(g, ch, i, now, d) /\ n \in V /\ n \in Neighbours(g, v)
      /\ \A c \in Owned(g, ch, i) :
           c \in Ahead(g, ch, i, now, d)
             <=> /\ c \in Ahead(g, ch, i, frames, d)
                 /\ ~(Along(frames, d, c) /\ Uses(c, <<v, n>>))
  BY SearchConsumes
<1>2. /\ d \in Nat /\ d \in 1..d /\ Len(g[n]) \in Nat /\ MaxLength \in Nat
      /\ o \in 1..(Len(g[v]) + 1) /\ Len(g[v]) \in Nat
  <2>1. Len(g[n]) \in Nat
    BY <1>1, VertexFacts, AdjacencyShape, SMTT(30)
  <2>2. QED
    BY <2>1, VertexFacts, SearchShape DEF FramesFit
<1>3. /\ \A a \in 1..d : now[a].vertex = frames[a].vertex
      /\ now[d].vertex = v /\ now[d].offset = o + 1
  BY <1>2 DEF Consumed
<1>4. o \in 1..Len(g[v]) /\ g[v][o] = n /\ o + 1 >= 2 /\ (o + 1) - 1 = o /\ o \in o..Len(g[v])
  <2>1. o <= Len(g[v]) /\ g[v][o] = n
    OBVIOUS
  <2> HIDE DEF o, v
  <2>2. QED
    BY <1>2, <2>1
<1>5. /\ \A a \in 1..(d + 1) : a \in 1..d \/ a = d + 1
      /\ \A a \in 1..((d + 1) - 1) : a \in 1..d /\ (a \in 1..(d - 1) \/ a = d)
      /\ \A a \in 1..(d - 1) : a \in 1..d /\ a + 1 \in 1..d
      /\ \A a \in 1..d : a \in 1..(d + 1) /\ a # d + 1
      /\ d + 1 \in 1..(d + 1)
  BY <1>2
<1> HIDE DEF o, v
<1>6. Searching(g, ch, i, now, d + 1)
  <2>1. IsSearch(V, g, now, 1, d + 1)
    <3>1. \A a \in 1..(d + 1) : /\ now[a].vertex \in V
                                /\ now[a].offset \in 1..(Len(g[now[a].vertex]) + 1)
      <4>1. \A a \in 1..d : /\ now[a].vertex \in V
                            /\ now[a].offset \in 1..(Len(g[now[a].vertex]) + 1)
        BY <1>1 DEF Searching, IsSearch
      <4>2. 1 \in 1..(Len(g[n]) + 1)
        <5> DEFINE m == Len(g[n])
        <5>1. m \in Nat
          BY <1>2
        <5> HIDE DEF m
        <5>2. 1 \in 1..(m + 1)
          BY <5>1
        <5>3. QED
          BY <5>2 DEF m
      <4>3. QED
        BY <1>0, <1>1, <1>5, <4>1, <4>2
    <3>2. \A a \in 1..(d - 1) : /\ now[a].offset >= 2
                                /\ g[now[a].vertex][now[a].offset - 1] = now[a + 1].vertex
      BY <1>1 DEF Searching, IsSearch
    <3>3. now[d].offset >= 2 /\ g[now[d].vertex][now[d].offset - 1] = now[d + 1].vertex
      BY <1>0, <1>3, <1>4
    <3>4. QED
      BY <1>5, <3>1, <3>2, <3>3 DEF IsSearch
  <2>2. /\ now[1].vertex = ch[i][2]
        /\ \A a \in 1..d : now[a].vertex # ch[i][1]
        /\ \A a, b \in 1..d : a # b => now[a].vertex # now[b].vertex
        /\ \A a \in 1..(d - 1), j \in 1..(i - 1) : ch[j] # <<now[a].vertex, now[a + 1].vertex>>
    BY <1>1 DEF Searching
  <2>3. \A a \in 1..(d + 1) : now[a].vertex # ch[i][1]
    BY <1>0, <1>5, <2>2
  <2>4. \A a, b \in 1..(d + 1) : a # b => now[a].vertex # now[b].vertex
    BY <1>0, <1>3, <1>5, <2>2
  <2>5. \A a \in 1..((d + 1) - 1), j \in 1..(i - 1) : ch[j] # <<now[a].vertex, now[a + 1].vertex>>
    BY <1>0, <1>3, <1>5, <2>2 DEF Forbidden, v
  <2>6. d + 1 \in Nat \ {0} /\ (d + 1) + 1 <= MaxLength
    BY <1>0, <1>2
  <2>7. QED
    BY <2>1, <2>2, <2>3, <2>4, <2>5, <2>6 DEF Searching
<1>7. ASSUME NEW c \in Owned(g, ch, i)
      PROVE  Leaves(g, now, d + 1, c) <=> Along(frames, d, c) /\ Uses(c, <<v, n>>)
  <2>1. Along(now, d + 1, c) <=> Along(frames, d, c) /\ Uses(c, <<v, n>>)
    <3>1. \A a \in 1..(d - 1) : a \in 1..((d + 1) - 1)
      BY <1>2
    <3>2. d \in 1..((d + 1) - 1)
      BY <1>2
    <3>3. /\ \A a \in 1..(d - 1) : <<now[a].vertex, now[a + 1].vertex>>
                                    = <<frames[a].vertex, frames[a + 1].vertex>>
          /\ <<now[d].vertex, now[d + 1].vertex>> = <<v, n>>
      BY <1>0, <1>3, <1>5
    <3>4. ASSUME Along(now, d + 1, c)
          PROVE  Along(frames, d, c) /\ Uses(c, <<v, n>>)
      BY <3>1, <3>2, <3>3, <3>4 DEF Along
    <3>5. ASSUME Along(frames, d, c), Uses(c, <<v, n>>)
          PROVE  Along(now, d + 1, c)
      BY <1>5, <3>3, <3>5, SMTT(30) DEF Along
    <3>6. QED
      BY <3>4, <3>5
  <2>2. ASSUME Uses(c, <<v, n>>)
        PROVE  \E j \in now[d + 1].offset..Len(g[now[d + 1].vertex]) :
                 Uses(c, <<now[d + 1].vertex, g[now[d + 1].vertex][j]>>)
    <3>1. c \in Cycles(g, MaxLength)
      BY DEF Owned
    <3>2. PICK k \in 1..Len(c) : c[k] = n
      BY <2>2, <3>1, UsesVertices DEF On
    <3>3. Successor(c, k) \in Neighbours(g, n)
      BY <3>1, <3>2, VertexFacts, CycleShape
    <3>4. PICK j \in 1..Len(g[n]) : g[n][j] = Successor(c, k)
      BY <3>3 DEF Neighbours
    <3>5. Uses(c, <<n, g[n][j]>>)
      BY <3>2, <3>4 DEF Uses
    <3>6. QED
      BY <1>0, <3>4, <3>5
  <2>3. QED
    BY <2>1, <2>2 DEF Leaves
<1>8. ASSUME NEW c \in Owned(g, ch, i), Along(frames, d, c), Uses(c, <<v, n>>)
      PROVE  c \in Ahead(g, ch, i, frames, d)
  <2>1. Leaves(g, frames, d, c)
    <3>1. \E j \in o..Len(g[v]) : Uses(c, <<v, g[v][j]>>)
      BY <1>4, <1>8
    <3>2. QED
      BY <1>8, <3>1 DEF Leaves, o, v
  <2>2. QED
    BY <1>2, <2>1 DEF Ahead
<1>9. ASSUME NEW c \in Owned(g, ch, i)
      PROVE  c \in Ahead(g, ch, i, now, d + 1)
               <=> c \in Ahead(g, ch, i, now, d) \/ Leaves(g, now, d + 1, c)
  BY <1>5 DEF Ahead
<1>10. /\ Ahead(g, ch, i, now, d + 1) \subseteq Owned(g, ch, i)
       /\ Ahead(g, ch, i, frames, d) \subseteq Owned(g, ch, i)
  BY DEF Ahead
<1>11. QED
  BY <1>1, <1>6, <1>7, <1>8, <1>9, <1>10

\* Nothing is left at a frame all edges of which are consumed.
LEMMA SearchPops ==
  ASSUME NEW g \in Adjacencies(V), NEW ch, NEW i,
         NEW frames, NEW d, Searching(g, ch, i, frames, d),
         frames[d].offset > Len(g[frames[d].vertex]),
         NEW now, \A a \in 1..(d - 1) : /\ now[a].vertex = frames[a].vertex
                                       /\ now[a].offset = frames[a].offset
  PROVE  /\ d > 1 => Searching(g, ch, i, now, d - 1)
         /\ Ahead(g, ch, i, now, d - 1) = Ahead(g, ch, i, frames, d)
<1>1. d \in Nat /\ d \in 1..d
  BY SearchShape DEF FramesFit
<1>2. /\ \A a \in 1..(d - 1) : a \in 1..d /\ \A b \in 1..(a - 1) : b \in 1..(d - 1) /\ b + 1 \in 1..(d - 1)
      /\ \A a \in 1..d : a \in 1..(d - 1) \/ a = d
      /\ \A a \in 1..((d - 1) - 1) : a \in 1..(d - 1) /\ a + 1 \in 1..(d - 1)
  BY <1>1
<1>3. ASSUME d > 1
      PROVE  Searching(g, ch, i, now, d - 1)
  <2>1. IsSearch(V, g, now, 1, d - 1)
    BY <1>2 DEF Searching, IsSearch
  <2>2. d - 1 \in Nat \ {0} /\ (d - 1) + 1 <= MaxLength /\ 1 \in 1..(d - 1)
    BY <1>1, <1>3, VertexFacts DEF Searching
  <2>3. /\ now[1].vertex = ch[i][2]
        /\ \A a \in 1..(d - 1) : now[a].vertex # ch[i][1]
        /\ \A a, b \in 1..(d - 1) : a # b => now[a].vertex # now[b].vertex
        /\ \A a \in 1..((d - 1) - 1), j \in 1..(i - 1) :
             ch[j] # <<now[a].vertex, now[a + 1].vertex>>
    BY <1>2, <2>2, ZenonT(40) DEF Searching
  <2>4. QED
    BY <2>1, <2>2, <2>3 DEF Searching
<1>4. ASSUME NEW c
      PROVE  /\ \A k \in 1..(d - 1) : Leaves(g, now, k, c) <=> Leaves(g, frames, k, c)
             /\ ~Leaves(g, frames, d, c)
  <2>1. \A k \in 1..(d - 1) : Along(now, k, c) <=> Along(frames, k, c)
    BY <1>2 DEF Along
  <2>2. \A k \in 1..(d - 1) : Leaves(g, now, k, c) <=> Leaves(g, frames, k, c)
    BY <2>1 DEF Leaves
  <2>3. frames[d].offset \in Nat /\ Len(g[frames[d].vertex]) \in Nat
    BY <1>1, SearchShape DEF FramesFit
  <2>4. frames[d].offset..Len(g[frames[d].vertex]) = {}
    BY <2>3
  <2>5. QED
    BY <2>2, <2>4 DEF Leaves
<1>5. Ahead(g, ch, i, now, d - 1) = Ahead(g, ch, i, frames, d)
  <2>1. ASSUME NEW c \in Owned(g, ch, i)
        PROVE  (\E k \in 1..(d - 1) : Leaves(g, now, k, c)) <=> (\E k \in 1..d : Leaves(g, frames, k, c))
    BY <1>2, <1>4
  <2>2. QED
    BY <2>1 DEF Ahead
<1>6. QED
  BY <1>3, <1>5

\* And nothing at no frame.
LEMMA SearchOver ==
  ASSUME NEW g, NEW ch, NEW i, NEW frames
  PROVE  Ahead(g, ch, i, frames, 0) = {}
BY DEF Ahead

-----------------------------------------------------------------------------
(***************************************************************************)
(* Whose a cycle is.                                                       *)
(***************************************************************************)
LEMMA OneOwner ==
  ASSUME NEW g, NEW ch, NEW i \in Nat \ {0}, NEW j \in Nat \ {0},
         NEW c, c \in Owned(g, ch, i), c \in Owned(g, ch, j)
  PROVE  i = j
<1>1. /\ Uses(c, ch[i]) /\ \A k \in 1..(i - 1) : ~Uses(c, ch[k])
      /\ Uses(c, ch[j]) /\ \A k \in 1..(j - 1) : ~Uses(c, ch[k])
  BY DEF Owned, Owns
<1>2. ~(i < j) /\ ~(j < i)
  BY <1>1
<1>3. QED
  BY <1>2

\* A cycle with a change on it has a first one.
LEMMA HasOwner ==
  ASSUME NEW g, NEW ch, Len(ch) \in Nat, NEW c \in Cycles(g, MaxLength)
  PROVE  ~Untouched(ch, c) <=> \E i \in 1..Len(ch) : c \in Owned(g, ch, i)
<1>1. SUFFICES ASSUME NEW i \in 1..Len(ch), Uses(c, ch[i])
               PROVE  \E j \in 1..Len(ch) : c \in Owned(g, ch, j)
  BY DEF Untouched, Owned, Owns
<1> DEFINE None == {k \in Nat : k <= Len(ch) =>
                      \/ \A j \in 1..k : ~Uses(c, ch[j])
                      \/ \E j \in 1..Len(ch) : Owns(ch, j, c)}
<1>2. 0 \in None
  OBVIOUS
<1>3. ASSUME NEW k \in Nat, k \in None
      PROVE  k + 1 \in None
  <2>1. SUFFICES ASSUME k + 1 <= Len(ch), ~ \E j \in 1..Len(ch) : Owns(ch, j, c)
                 PROVE  \A j \in 1..(k + 1) : ~Uses(c, ch[j])
    OBVIOUS
  <2>2. \A j \in 1..k : ~Uses(c, ch[j])
    BY <1>3, <2>1
  <2>3. k + 1 \in 1..Len(ch) /\ (k + 1) - 1 = k
    BY <2>1
  <2>4. ~Uses(c, ch[k + 1])
    BY <2>1, <2>2, <2>3 DEF Owns
  <2>5. \A j \in 1..(k + 1) : j \in 1..k \/ j = k + 1
    OBVIOUS
  <2>6. QED
    BY <2>2, <2>4, <2>5
<1>4. \A k \in Nat : k \in None
  <2> HIDE DEF None
  <2> QED BY <1>2, <1>3, NatSetInduction
<1>5. i \in Nat /\ i <= Len(ch) /\ i \in 1..i
  OBVIOUS
<1>6. i \in None
  <2> HIDE DEF None
  <2> QED BY <1>4, <1>5
<1>7. \E j \in 1..Len(ch) : Owns(ch, j, c)
  BY <1>1, <1>5, <1>6
<1>8. QED
  BY <1>7 DEF Owned

\* The cycles still to be dropped, or added: rest[i] are those of change i.
Left(ch, rest) == UNION {rest[i] : i \in 1..Len(ch)}

LEMMA AllLeft ==
  ASSUME NEW g, NEW ch, Len(ch) \in Nat,
         NEW rest, \A i \in 1..Len(ch) : rest[i] = Owned(g, ch, i)
  PROVE  Left(ch, rest) = {c \in Cycles(g, MaxLength) : ~Untouched(ch, c)}
<1>1. \A i \in 1..Len(ch) : rest[i] \subseteq Cycles(g, MaxLength)
  BY DEF Owned
<1>2. \A c \in Cycles(g, MaxLength) :
        ~Untouched(ch, c) <=> \E i \in 1..Len(ch) : c \in rest[i]
  BY HasOwner
<1>3. QED
  BY <1>1, <1>2 DEF Left

LEMMA NoneLeft ==
  ASSUME NEW ch, NEW rest, \A i \in 1..Len(ch) : rest[i] = {}
  PROVE  Left(ch, rest) = {}
BY DEF Left

LEMMA SameLeft ==
  ASSUME NEW ch, NEW rest, NEW now, \A i \in 1..Len(ch) : now[i] = rest[i]
  PROVE  Left(ch, now) = Left(ch, rest)
BY DEF Left

\* A cycle found is one less.
Finds(g, ch, rest, now, i, c) ==
  /\ Len(ch) \in Nat
  /\ \A j \in 1..Len(ch) : rest[j] \subseteq Owned(g, ch, j)
  /\ i \in 1..Len(ch) /\ c \in rest[i] /\ now[i] = rest[i] \ {c}
  /\ \A j \in 1..Len(ch) : j # i => now[j] = rest[j]

LEMMA OneLess ==
  ASSUME NEW g, NEW ch, NEW rest, NEW now, NEW i, NEW c, Finds(g, ch, rest, now, i, c)
  PROVE  Left(ch, now) = Left(ch, rest) \ {c} /\ c \in Left(ch, rest)
<1>0. /\ Len(ch) \in Nat
      /\ \A j \in 1..Len(ch) : rest[j] \subseteq Owned(g, ch, j)
      /\ i \in 1..Len(ch) /\ c \in rest[i] /\ now[i] = rest[i] \ {c}
      /\ \A j \in 1..Len(ch) : j # i => now[j] = rest[j]
  BY DEF Finds
<1>1. \A j \in 1..Len(ch) : j # i => c \notin rest[j]
  <2>1. ASSUME NEW j \in 1..Len(ch), j # i, c \in rest[j]
        PROVE  FALSE
    <3>1. c \in Owned(g, ch, i) /\ c \in Owned(g, ch, j) /\ i \in Nat \ {0} /\ j \in Nat \ {0}
      BY <1>0, <2>1
    <3>2. QED
      BY <2>1, <3>1, OneOwner
  <2>2. QED
    BY <2>1
<1>2. \A j \in 1..Len(ch) : now[j] = rest[j] \ {c}
  BY <1>0, <1>1
<1>3. QED
  BY <1>0, <1>2 DEF Left

-----------------------------------------------------------------------------
(***************************************************************************)
(* The input of an update.                                                 *)
(***************************************************************************)
Changed(g, b) ==
  /\ g \in Adjacencies(V)
  /\ IsChangeList(g, b.deletions)
  /\ ApplyBatch(g, b) \in Adjacencies(V)
  /\ IsChangeList(ApplyBatch(g, b), b.insertions)

InputSound ==
  /\ Changed(initial, batch)
  /\ before = Cycles(initial, MaxLength)
  /\ after = Cycles(ApplyBatch(initial, batch), MaxLength)
  /\ between = {c \in before : Untouched(batch.deletions, c)}
  /\ between = {c \in after : Untouched(batch.insertions, c)}

LEMMA InputInit == Init => InputSound
<1> SUFFICES ASSUME Init
             PROVE  InputSound
  OBVIOUS
<1>1. PICK request \in Requests :
        /\ initial = request.graph
        /\ batch = [deletions |-> Normalized(request.deletions),
                    insertions |-> Normalized(request.insertions)]
  BY DEF Init
<1> DEFINE D == ToSet(request.deletions)
           I == ToSet(request.insertions)
           del == batch.deletions
           ins == batch.insertions
           kept == Edges(initial) \ ToSet(del)
           g == ApplyBatch(initial, batch)
           h == GraphOf(kept)
           k == GraphOf(kept \cup ToSet(ins))
<1>2. /\ initial \in Adjacencies(V)
      /\ \A e \in Edges(initial) : e[1] # e[2]
      /\ request.deletions \in Seq(Edges(initial))
      /\ request.insertions \in Seq(V \X V)
      /\ \A e \in I : e[1] # e[2] /\ e \notin Edges(initial) \ D
  BY <1>1, RequestAssumption
<1>3. /\ before = Cycles(initial, MaxLength)
      /\ between = Cycles(h, MaxLength)
      /\ after = Cycles(k, MaxLength)
  BY DEF Init
<1>4. \A v, w \in V : <<v, w>> \in Edges(initial) <=> w \in Neighbours(initial, v)
  BY DEF Edges
<1>5. /\ del = Normalized(request.deletions) /\ ins = Normalized(request.insertions)
  BY <1>1
<1> HIDE DEF D, I, del, ins
<1>6. /\ del \in Seq(V \X V) /\ ToSet(del) = D /\ D \subseteq Edges(initial)
      /\ \A i, j \in 1..Len(del) : SmallerEdge(del[i], del[j]) <=> i < j
  <2>1. Edges(initial) \subseteq V \X V
    BY DEF Edges
  <2>2. request.deletions \in Seq(V \X V)
    <3> DEFINE q == request.deletions
    <3>1. Len(q) \in Nat /\ q \in [1..Len(q) -> Edges(initial)]
      BY <1>2, LenProperties
    <3> HIDE DEF q
    <3>2. q \in [1..Len(q) -> V \X V]
      BY <2>1, <3>1
    <3>3. q \in Seq(V \X V)
      BY <3>1, <3>2, SequenceOf
    <3>4. QED
      BY <3>3 DEF q
  <2>3. D \subseteq Edges(initial)
    BY <1>2, LenProperties, ElementOfSeq DEF D, ToSet
  <2>4. QED
    BY <1>5, <2>2, <2>3, NormalizedChanges DEF D
<1>7. /\ ins \in Seq(V \X V) /\ ToSet(ins) = I /\ I \subseteq V \X V
      /\ \A i, j \in 1..Len(ins) : SmallerEdge(ins[i], ins[j]) <=> i < j
  <2>1. I \subseteq V \X V
    BY <1>2, LenProperties, ElementOfSeq DEF I, ToSet
  <2>2. QED
    BY <1>2, <1>5, <2>1, NormalizedChanges DEF I
<1>8. /\ \A i \in 1..Len(del) : del[i] \in D /\ del[i] \in V \X V
      /\ \A i \in 1..Len(ins) : ins[i] \in I /\ ins[i] \in V \X V
  <2>1. /\ \A i \in 1..Len(del) : del[i] \in ToSet(del)
        /\ \A i \in 1..Len(ins) : ins[i] \in ToSet(ins)
    BY <1>6, <1>7, LenProperties DEF ToSet
  <2>2. QED
    BY <1>6, <1>7, <2>1 DEF Edges
<1>9. \A e \in V \X V : e = <<e[1], e[2]>> /\ e[1] \in V /\ e[2] \in V
  OBVIOUS
<1>10. IsChangeList(initial, del)
  <2>1. \A i \in 1..Len(del) : del[i][1] # del[i][2] /\ del[i][2] \in Neighbours(initial, del[i][1])
    BY <1>2, <1>6, <1>8 DEF Edges
  <2>2. QED
    BY <1>6, <2>1 DEF IsChangeList
<1>11. /\ g \in Adjacencies(V)
       /\ \A v, w \in V : w \in Neighbours(g, v)
                            <=> \/ w \in Neighbours(initial, v) /\ <<v, w>> \notin D
                                \/ <<v, w>> \in I
  <2>1. \A e \in ToSet(batch.insertions) : e \in V \X V
    BY <1>7 DEF ins
  <2>2. /\ g \in Adjacencies(V)
        /\ \A v, w \in V : w \in Neighbours(g, v)
                             <=> \/ w \in Neighbours(initial, v) /\ <<v, w>> \notin ToSet(batch.deletions)
                                 \/ <<v, w>> \in ToSet(batch.insertions)
    BY <1>2, <2>1, GraphAfterBatch
  <2>3. QED
    BY <1>6, <1>7, <2>2 DEF del, ins
<1>12. /\ h \in Adjacencies(V) /\ k \in Adjacencies(V)
       /\ \A v \in V : Neighbours(h, v) = {w \in V : <<v, w>> \in kept}
       /\ \A v \in V : Neighbours(k, v) = {w \in V : <<v, w>> \in kept \cup ToSet(ins)}
  <2> HIDE DEF kept
  <2> QED BY GraphOfEdges
<1>13. \A v, w \in V : <<v, w>> \in kept <=> w \in Neighbours(initial, v) /\ <<v, w>> \notin D
  BY <1>4, <1>6
<1> HIDE DEF g, h, k, kept
<1>14. IsChangeList(g, ins)
  <2>1. \A i \in 1..Len(ins) : ins[i][1] # ins[i][2] /\ ins[i][2] \in Neighbours(g, ins[i][1])
    BY <1>2, <1>8, <1>9, <1>11
  <2>2. QED
    BY <1>7, <2>1 DEF IsChangeList
<1>15. Cycles(h, MaxLength) = {c \in Cycles(initial, MaxLength) : Untouched(del, c)}
  <2>1. \A v, w \in V :
          w \in Neighbours(h, v) <=> w \in Neighbours(initial, v) /\ <<v, w>> \notin ToSet(del)
    BY <1>6, <1>12, <1>13
  <2>2. QED
    BY <1>2, <1>10, <1>12, <2>1, CyclesWithout
<1>16. Cycles(h, MaxLength) = {c \in Cycles(g, MaxLength) : Untouched(ins, c)}
  <2>1. \A v, w \in V : <<v, w>> \in kept => <<v, w>> \notin I
    BY <1>2, <1>6 DEF kept
  <2>2. \A v, w \in V :
          w \in Neighbours(h, v) <=> w \in Neighbours(g, v) /\ <<v, w>> \notin ToSet(ins)
    BY <1>7, <1>11, <1>12, <1>13, <2>1, ZenonT(40)
  <2>3. QED
    BY <1>11, <1>12, <1>14, <2>2, CyclesWithout
<1>17. Cycles(k, MaxLength) = Cycles(g, MaxLength)
  <2>1. \A v \in V : Neighbours(g, v) \subseteq V
    <3>1. V \in SUBSET Int
      BY VertexFacts
    <3>2. QED
      BY <1>11, <3>1, AdjacencyShape DEF Neighbours
  <2>2. \A v, w \in V : w \in Neighbours(k, v) <=> w \in Neighbours(g, v)
    BY <1>7, <1>11, <1>12, <1>13
  <2>3. \A v \in V : Neighbours(k, v) = Neighbours(g, v)
    BY <1>12, <2>1, <2>2
  <2>4. QED
    BY <1>11, <1>12, <2>3, CyclesOfNeighbours
<1>18. QED
  BY <1>2, <1>3, <1>10, <1>11, <1>14, <1>15, <1>16, <1>17 DEF InputSound, Changed, g, del, ins

LEMMA InputFinite ==
  ASSUME InputSound
  PROVE  IsFiniteSet(before) /\ IsFiniteSet(between) /\ IsFiniteSet(after)
<1>1. IsFiniteSet(before) /\ IsFiniteSet(after)
  BY CyclesFinite DEF InputSound, Changed
<1>2. between \subseteq before
  BY DEF InputSound
<1>3. QED
  BY <1>1, <1>2, FS_Subset

-----------------------------------------------------------------------------
(***************************************************************************)
(* The invariant.                                                          *)
(***************************************************************************)
Frames == [vertex : V, offset : Nat \ {0}]

\* The graph the phase reads has the changes of the phase on it.
PhaseInv ==
  /\ InputSound
  /\ phase \in {"delete", "insert", "done"}
  /\ graph = IF phase = "delete" THEN initial ELSE ApplyBatch(initial, batch)

\* The buffer of a busy thread holds its edge and its path.
Holds(t) == {Changes[owner[t]][1]} \cup {calls[t][a].vertex : a \in 1..Depth(t)}

\* Each change is handed out once, and the thread it went to searches for it.
TeamInv ==
  /\ next \in Nat \ {0}
  /\ owner \in [Threads -> Nat]
  /\ calls \in [Threads -> Seq(Frames)]
  /\ visited \in [Threads -> SUBSET V]
  /\ \A t \in Threads : owner[t] < next /\ owner[t] <= Len(Changes)
  /\ \A t, u \in Threads : t # u /\ owner[t] = owner[u] => owner[t] = 0
  /\ \A t \in Threads : ~Busy(t) => visited[t] = {}
  /\ \A t \in Threads : Busy(t) =>
       /\ phase # "done"
       /\ Searching(graph, Changes, owner[t], calls[t], Depth(t))
       /\ visited[t] = Holds(t)

\* The cycles of each change that are still to be found: all of a change not yet
\* handed out, those ahead of a search, none of a search that is over.
RestOf(g, ch, n, own, stacks) ==
  [i \in 1..Len(ch) |->
     IF i >= n THEN Owned(g, ch, i)
     ELSE UNION {Ahead(g, ch, i, stacks[t], Len(stacks[t])) : t \in {u \in Threads : own[u] = i}}]

Rest == RestOf(graph, Changes, next, owner, calls)

\* The cycles accounted for are those that no change is on, and, of the others,
\* those still to be dropped, or those already added.
Accounted(rest) ==
  live = IF phase = "delete" THEN between \cup Left(Changes, rest)
         ELSE IF phase = "insert" THEN after \ Left(Changes, rest)
         ELSE after

SumsTyped ==
  /\ counts \in [Threads -> [Lengths -> Nat]]
  /\ local \in [Threads -> [Lengths -> Int]]
  /\ delta \in [Lengths -> Int]

TeamLedger == SumsTyped /\ LedgerExact

-----------------------------------------------------------------------------
(***************************************************************************)
(* The phase.                                                              *)
(***************************************************************************)
LEMMA PhaseFacts ==
  ASSUME PhaseInv
  PROVE  /\ graph \in Adjacencies(V) /\ IsChangeList(graph, Changes)
         /\ Len(Changes) \in Nat
         /\ \A i \in 1..Len(Changes) :
              /\ Changes[i] = <<Changes[i][1], Changes[i][2]>>
              /\ Changes[i][1] \in V /\ Changes[i][2] \in V /\ Changes[i][1] # Changes[i][2]
              /\ ToSet(Changes[i]) = {Changes[i][1], Changes[i][2]}
<1>1. graph \in Adjacencies(V) /\ IsChangeList(graph, Changes)
  BY DEF PhaseInv, InputSound, Changed, Changes
<1> DEFINE ch == Changes
<1>2. IsChangeList(graph, ch)
  BY <1>1
<1> HIDE DEF ch
<1>3. /\ Len(ch) \in Nat
      /\ \A i \in 1..Len(ch) : /\ ch[i] = <<ch[i][1], ch[i][2]>>
                               /\ ch[i][1] \in V /\ ch[i][2] \in V /\ ch[i][1] # ch[i][2]
                               /\ ch[i][2] \in Neighbours(graph, ch[i][1])
                               /\ ToSet(ch[i]) = {ch[i][1], ch[i][2]}
  BY <1>2, ChangeFacts, Zenon
<1>4. QED
  BY <1>1, <1>3 DEF ch

LEMMA LiveCycles ==
  ASSUME PhaseInv
  PROVE  /\ phase = "delete" => /\ Cycles(graph, MaxLength) = before
                                /\ between = {c \in before : Untouched(Changes, c)}
         /\ phase # "delete" => /\ Cycles(graph, MaxLength) = after
                                /\ between = {c \in after : Untouched(Changes, c)}
BY DEF PhaseInv, InputSound, Changes

LEMMA SignType == Sign \in Int /\ (phase = "delete" => Sign = -1) /\ (phase # "delete" => Sign = 1)
BY DEF Sign

-----------------------------------------------------------------------------
(***************************************************************************)
(* The calls of a thread.                                                  *)
(***************************************************************************)
LEMMA BusyShape ==
  ASSUME PhaseInv, TeamInv, NEW t \in Threads, Busy(t)
  PROVE  /\ owner[t] \in 1..Len(Changes) /\ owner[t] < next /\ owner[t] \in Nat \ {0}
         /\ calls[t] \in Seq(Frames) /\ Depth(t) \in Nat \ {0} /\ Depth(t) \in 1..Depth(t)
         /\ calls[t] \in [1..Depth(t) -> Frames]
         /\ Searching(graph, Changes, owner[t], calls[t], Depth(t))
         /\ visited[t] = Holds(t)
         /\ Current(t) = calls[t][Depth(t)].vertex /\ Current(t) \in V
         /\ Exhausted(t) <=> calls[t][Depth(t)].offset > Len(graph[calls[t][Depth(t)].vertex])
         /\ ~Exhausted(t) <=> calls[t][Depth(t)].offset <= Len(graph[calls[t][Depth(t)].vertex])
         /\ NextVertex(t) = graph[calls[t][Depth(t)].vertex][calls[t][Depth(t)].offset]
         /\ Anchor(t) = Changes[owner[t]] /\ phase # "done"
<1>1. /\ owner[t] \in Nat /\ owner[t] # 0 /\ owner[t] < next /\ owner[t] <= Len(Changes)
      /\ next \in Nat /\ calls[t] \in Seq(Frames)
      /\ Searching(graph, Changes, owner[t], calls[t], Depth(t))
      /\ visited[t] = Holds(t) /\ phase # "done"
  BY DEF TeamInv, Busy
<1>2. Len(Changes) \in Nat /\ graph \in Adjacencies(V)
  BY PhaseFacts
<1>3. owner[t] \in 1..Len(Changes)
  BY <1>1, <1>2
<1>4. Depth(t) \in Nat \ {0} /\ Depth(t) \in 1..Depth(t)
  BY <1>1 DEF Searching
<1>5. calls[t] \in [1..Depth(t) -> Frames]
  BY <1>1, LenProperties DEF Depth
<1>6. /\ calls[t][Depth(t)].vertex \in V /\ calls[t][Depth(t)].offset \in Nat
      /\ Len(graph[calls[t][Depth(t)].vertex]) \in Nat
  BY <1>1, <1>2, <1>4, SearchShape, SMTT(30) DEF FramesFit
<1>7. Current(t) = calls[t][Depth(t)].vertex
  BY DEF Current
<1>8. /\ Exhausted(t) <=> calls[t][Depth(t)].offset > Len(graph[calls[t][Depth(t)].vertex])
      /\ NextVertex(t) = graph[calls[t][Depth(t)].vertex][calls[t][Depth(t)].offset]
  BY <1>7 DEF Exhausted, NextVertex
<1>9. ~Exhausted(t) <=> calls[t][Depth(t)].offset <= Len(graph[calls[t][Depth(t)].vertex])
  BY <1>6, <1>8
<1>10. QED
  BY <1>1, <1>3, <1>4, <1>5, <1>6, <1>7, <1>8, <1>9 DEF Anchor

LEMMA AdvancedFrames ==
  ASSUME PhaseInv, TeamInv, NEW t \in Threads, Busy(t)
  PROVE  /\ Advanced(t) \in Seq(Frames) /\ Len(Advanced(t)) = Depth(t)
         /\ Consumed(calls[t], Advanced(t), Depth(t))
<1> DEFINE d == Depth(t)
           frame == [calls[t][d] EXCEPT !.offset = @ + 1]
<1>1. /\ calls[t] \in Seq(Frames) /\ d \in 1..d /\ d = Len(calls[t]) /\ d \in Nat
      /\ calls[t] \in [1..d -> Frames]
  BY BusyShape DEF Depth
<1>2. calls[t][d] \in Frames
  BY <1>1
<1>3. /\ frame \in Frames /\ frame.vertex = calls[t][d].vertex
      /\ frame.offset = calls[t][d].offset + 1
  BY <1>2 DEF Frames
<1>4. Advanced(t) = [calls[t] EXCEPT ![d] = frame]
  BY <1>1 DEF Advanced
<1> HIDE DEF frame, d
<1>5. /\ Advanced(t) \in Seq(Frames) /\ Len(Advanced(t)) = Len(calls[t])
      /\ \A a \in 1..Len(calls[t]) : Advanced(t)[a] = IF a = d THEN frame ELSE calls[t][a]
  BY <1>1, <1>3, <1>4, ExceptSeq
<1>6. Consumed(calls[t], Advanced(t), d)
  <2>1. \A a \in 1..(d - 1) : a \in 1..d /\ a # d
    BY <1>1
  <2>2. \A a \in 1..d : Advanced(t)[a] = IF a = d THEN frame ELSE calls[t][a]
    BY <1>1, <1>5
  <2>3. QED
    BY <1>1, <1>3, <2>1, <2>2 DEF Consumed
<1>7. QED
  BY <1>1, <1>5, <1>6 DEF d

LEMMA PushedFrames ==
  ASSUME PhaseInv, TeamInv, NEW t \in Threads, Busy(t), NEW n \in V,
         NEW now, now = Append(Advanced(t), Called(n))
  PROVE  /\ now \in Seq(Frames) /\ Len(now) = Depth(t) + 1
         /\ Consumed(calls[t], now, Depth(t))
         /\ now[Depth(t) + 1].vertex = n /\ now[Depth(t) + 1].offset = 1
<1> DEFINE d == Depth(t)
           top == Called(n)
<1>1. /\ Advanced(t) \in Seq(Frames) /\ Len(Advanced(t)) = d
      /\ Consumed(calls[t], Advanced(t), d) /\ d \in Nat /\ d \in 1..d
  BY AdvancedFrames, BusyShape
<1>2. top \in Frames /\ top.vertex = n /\ top.offset = 1
  BY DEF Called, Frames
<1> HIDE DEF top, d
<1>3. /\ now \in Seq(Frames) /\ Len(now) = d + 1
      /\ \A a \in 1..d : now[a] = Advanced(t)[a]
      /\ now[d + 1] = top
  BY <1>1, <1>2, AppendProperties DEF top
<1>4. Consumed(calls[t], now, d)
  <2>1. \A a \in 1..(d - 1) : a \in 1..d
    BY <1>1
  <2>2. QED
    BY <1>1, <1>3, <2>1 DEF Consumed
<1>5. QED
  BY <1>2, <1>3, <1>4 DEF d

LEMMA PoppedFrames ==
  ASSUME PhaseInv, TeamInv, NEW t \in Threads, Busy(t), Depth(t) > 1,
         NEW now, now = Front(calls[t])
  PROVE  /\ now \in Seq(Frames) /\ Len(now) = Depth(t) - 1
         /\ \A a \in 1..(Depth(t) - 1) : now[a] = calls[t][a]
<1> DEFINE d == Depth(t)
<1>1. calls[t] \in Seq(Frames) /\ d = Len(calls[t]) /\ d \in Nat /\ d > 1
  BY BusyShape DEF Depth
<1>2. now = SubSeq(calls[t], 1, Len(calls[t]) - 1)
  BY DEF Front
<1> HIDE DEF d
<1>3. d - 1 \in Nat /\ 1 \in 1..(d + 1) /\ d - 1 \in 1..d
  BY <1>1
<1>4. /\ now \in Seq(Frames) /\ Len(now) = d - 1
      /\ \A a \in 1..(d - 1) : now[a] = calls[t][a]
  BY <1>1, <1>2, <1>3
<1>5. QED
  BY <1>4 DEF d

-----------------------------------------------------------------------------
(***************************************************************************)
(* The cycles that are left.                                               *)
(***************************************************************************)
LEMMA RestWithin ==
  ASSUME NEW g, NEW ch, NEW n, NEW own, NEW stacks, NEW i \in 1..Len(ch)
  PROVE  RestOf(g, ch, n, own, stacks)[i] \subseteq Owned(g, ch, i)
BY DEF RestOf, Ahead

LEMMA RestFresh ==
  ASSUME NEW g, NEW ch, NEW n, NEW own, NEW stacks, NEW i, i \in 1..Len(ch), i >= n
  PROVE  RestOf(g, ch, n, own, stacks)[i] = Owned(g, ch, i)
BY DEF RestOf

\* A change that was handed out and that no thread has is done.
LEMMA RestNone ==
  ASSUME NEW g, NEW ch, NEW n, NEW own, NEW stacks, NEW i, i \in 1..Len(ch), ~(i >= n),
         \A u \in Threads : own[u] # i
  PROVE  RestOf(g, ch, n, own, stacks)[i] = {}
<1>1. {u \in Threads : own[u] = i} = {}
  OBVIOUS
<1>2. QED
  BY <1>1 DEF RestOf

\* The cycles ahead of a whole stack of calls.
Searched(g, ch, i, stack) == Ahead(g, ch, i, stack, Len(stack))

\* Change i was handed out, and thread t is the one that has it.
Has(ch, n, own, t, i) ==
  /\ i \in 1..Len(ch) /\ ~(i >= n)
  /\ t \in Threads /\ own[t] = i /\ \A u \in Threads : u # t => own[u] # i

LEMMA RestOne ==
  ASSUME NEW g, NEW ch, NEW n, NEW own, NEW stacks, NEW t, NEW i, Has(ch, n, own, t, i)
  PROVE  RestOf(g, ch, n, own, stacks)[i] = Searched(g, ch, i, stacks[t])
<1>1. {u \in Threads : own[u] = i} = {t}
  BY DEF Has
<1>2. QED
  BY <1>1 DEF RestOf, Searched, Has

\* The same threads have change i, and are where they were.
Alike(own, has, stacks, moved, i) ==
  \A u \in Threads : /\ own[u] = i <=> has[u] = i
                     /\ own[u] = i => moved[u] = stacks[u]

LEMMA RestOther ==
  ASSUME NEW g, NEW ch, NEW n, NEW m, NEW own, NEW has, NEW stacks, NEW moved,
         NEW i \in 1..Len(ch), i >= n <=> i >= m, Alike(own, has, stacks, moved, i)
  PROVE  RestOf(g, ch, m, has, moved)[i] = RestOf(g, ch, n, own, stacks)[i]
<1> DEFINE T == {u \in Threads : own[u] = i}
<1>0. \A u \in T : moved[u] = stacks[u]
  BY DEF Alike
<1>1. T = {u \in Threads : has[u] = i}
  BY DEF Alike
<1>2. UNION {Ahead(g, ch, i, moved[t], Len(moved[t])) : t \in T}
        = UNION {Ahead(g, ch, i, stacks[t], Len(stacks[t])) : t \in T}
  <2> HIDE DEF T
  <2> QED BY <1>0
<1>3. QED
  BY <1>1, <1>2 DEF RestOf

\* The input, the phase and the changes stay while the threads work.
Working == UNCHANGED <<initial, batch, before, between, after, phase, graph>>

LEMMA WorkingSame ==
  ASSUME Working
  PROVE  /\ PhaseInv => PhaseInv'
         /\ Changes' = Changes /\ Sign' = Sign /\ graph' = graph /\ phase' = phase
         /\ before' = before /\ between' = between /\ after' = after
BY DEF Working, PhaseInv, InputSound, Changed, Changes, Sign

\* A busy thread has gone on in its search.
Moves(t, stack) ==
  /\ Working /\ UNCHANGED <<next, owner>>
  /\ calls' = [calls EXCEPT ![t] = stack]

LEMMA MovedRest ==
  ASSUME PhaseInv, TeamInv, NEW t \in Threads, Busy(t), NEW stack, Moves(t, stack)
  PROVE  /\ Rest[owner[t]] = Ahead(graph, Changes, owner[t], calls[t], Depth(t))
         /\ Rest'[owner[t]] = Ahead(graph, Changes, owner[t], stack, Len(stack))
         /\ \A j \in 1..Len(Changes) : j # owner[t] => Rest'[j] = Rest[j]
<1> DEFINE i == owner[t]
<1>1. /\ graph' = graph /\ Changes' = Changes /\ next' = next /\ owner' = owner
      /\ calls' = [calls EXCEPT ![t] = stack]
  BY WorkingSame DEF Moves
<1>2. Rest' = RestOf(graph, Changes, next, owner, calls')
  BY <1>1 DEF Rest
<1>3. /\ i \in 1..Len(Changes) /\ i < next /\ i \in Nat /\ next \in Nat
      /\ i # 0 /\ Len(Changes) \in Nat
  BY BusyShape, PhaseFacts DEF TeamInv, Busy
<1>4. ~(i >= next)
  BY <1>3
<1>5. Has(Changes, next, owner, t, i)
  BY <1>3, <1>4 DEF TeamInv, Has
<1>6. calls'[t] = stack /\ \A u \in Threads : u # t => calls'[u] = calls[u]
  BY <1>1 DEF TeamInv
<1> HIDE DEF i
<1>7. owner[t] = i
  BY DEF i
<1>8. Rest[i] = Searched(graph, Changes, i, calls[t])
  BY <1>5, RestOne DEF Rest
<1>9. Rest'[i] = Searched(graph, Changes, i, calls'[t])
  <2> DEFINE cs == calls'
  <2>1. RestOf(graph, Changes, next, owner, cs)[i] = Searched(graph, Changes, i, cs[t])
    <3> HIDE DEF cs
    <3> QED BY <1>5, RestOne
  <2>2. QED
    BY <1>2, <2>1
<1>10. ASSUME NEW j \in 1..Len(Changes), j # i
       PROVE  Rest'[j] = Rest[j]
  <2> DEFINE cs == calls'
  <2>1. Alike(owner, owner, calls, cs, j)
    BY <1>6, <1>7, <1>10 DEF Alike
  <2>2. RestOf(graph, Changes, next, owner, cs)[j] = RestOf(graph, Changes, next, owner, calls)[j]
    <3> HIDE DEF cs
    <3> QED BY <2>1, RestOther
  <2>3. QED
    BY <1>2, <2>2 DEF Rest
<1>11. QED
  BY <1>6, <1>8, <1>9, <1>10 DEF i, Depth, Searched

\* The buffer has gone with it.
GoodMove(t, stack, kept) ==
  /\ Moves(t, stack) /\ visited' = [visited EXCEPT ![t] = kept]
  /\ stack \in Seq(Frames) /\ kept \in SUBSET V
  /\ Searching(graph, Changes, owner[t], stack, Len(stack))
  /\ kept = {Changes[owner[t]][1]} \cup {stack[a].vertex : a \in 1..Len(stack)}

LEMMA MovedTeam ==
  ASSUME PhaseInv, TeamInv, NEW t \in Threads, Busy(t),
         NEW stack, NEW kept, GoodMove(t, stack, kept)
  PROVE  TeamInv'
<1>0. /\ Moves(t, stack) /\ visited' = [visited EXCEPT ![t] = kept]
      /\ stack \in Seq(Frames) /\ kept \in SUBSET V
      /\ Searching(graph, Changes, owner[t], stack, Len(stack))
      /\ kept = {Changes[owner[t]][1]} \cup {stack[a].vertex : a \in 1..Len(stack)}
  BY DEF GoodMove
<1>1. /\ graph' = graph /\ Changes' = Changes /\ next' = next /\ owner' = owner
      /\ calls' = [calls EXCEPT ![t] = stack] /\ phase' = phase
  BY <1>0, WorkingSame DEF Moves
<1>2. /\ calls \in [Threads -> Seq(Frames)] /\ visited \in [Threads -> SUBSET V]
  BY DEF TeamInv
<1>3. /\ calls' \in [Threads -> Seq(Frames)] /\ visited' \in [Threads -> SUBSET V]
      /\ calls'[t] = stack /\ visited'[t] = kept
      /\ \A u \in Threads : u # t => calls'[u] = calls[u] /\ visited'[u] = visited[u]
  BY <1>0, <1>1, <1>2
<1>4. \A u \in Threads : Busy(u)' <=> Busy(u)
  BY <1>1 DEF Busy
<1>5. ASSUME NEW u \in Threads, Busy(u)
      PROVE  /\ phase' # "done"
             /\ Searching(graph', Changes', owner'[u], calls'[u], Depth(u)')
             /\ visited'[u] = Holds(u)'
  <2>1. CASE u = t
    <3>1. Depth(u)' = Len(stack) /\ calls'[u] = stack /\ visited'[u] = kept
      BY <1>3, <2>1 DEF Depth
    <3>2. Holds(u)' = {Changes[owner[t]][1]} \cup {stack[a].vertex : a \in 1..Len(stack)}
      BY <1>1, <2>1, <3>1 DEF Holds
    <3>3. phase # "done"
      BY BusyShape
    <3>4. QED
      BY <1>0, <1>1, <2>1, <3>1, <3>2, <3>3
  <2>2. CASE u # t
    <3>1. calls'[u] = calls[u] /\ visited'[u] = visited[u]
      BY <1>3, <2>2
    <3>2. Depth(u)' = Depth(u) /\ Holds(u)' = Holds(u)
      BY <1>1, <3>1 DEF Depth, Holds
    <3>3. /\ phase # "done" /\ visited[u] = Holds(u)
          /\ Searching(graph, Changes, owner[u], calls[u], Depth(u))
      BY <1>5 DEF TeamInv
    <3>4. QED
      BY <1>1, <3>1, <3>2, <3>3
  <2>3. QED
    BY <2>1, <2>2
<1>6. \A u \in Threads : ~Busy(u) => u # t /\ visited'[u] = {}
  BY <1>3 DEF TeamInv
<1>7. QED
  BY <1>1, <1>3, <1>4, <1>5, <1>6 DEF TeamInv

-----------------------------------------------------------------------------
(***************************************************************************)
(* The steps of a search.                                                  *)
(***************************************************************************)
LEMMA ForbiddenSame ==
  ASSUME NEW t, NEW v, NEW w
  PROVE  ForbiddenBefore(t, v, w) <=> Forbidden(Changes, owner[t], v, w)
BY DEF ForbiddenBefore, Forbidden

\* No cycle is lost or gained by a search that moves without finding one.
LEMMA MovedSame ==
  ASSUME PhaseInv, TeamInv, NEW t \in Threads, Busy(t), NEW stack, Moves(t, stack),
         Ahead(graph, Changes, owner[t], stack, Len(stack))
           = Ahead(graph, Changes, owner[t], calls[t], Depth(t))
  PROVE  Left(Changes, Rest') = Left(Changes, Rest)
<1>1. \A j \in 1..Len(Changes) : Rest'[j] = Rest[j]
  BY MovedRest
<1>2. QED
  BY <1>1, SameLeft

LEMMA CloseStep ==
  ASSUME PhaseInv, TeamInv, NEW t \in Threads, Close(t)
  PROVE  /\ PhaseInv' /\ TeamInv'
         /\ Found(t) \in Left(Changes, Rest) /\ Len(Found(t)) = Depth(t) + 1
         /\ Left(Changes, Rest') = Left(Changes, Rest) \ {Found(t)}
<1> DEFINE d == Depth(t)
           i == owner[t]
           now == Advanced(t)
           found == Found(t)
<1>1. Busy(t) /\ ~Exhausted(t) /\ Closes(t) /\ Moves(t, now)
  BY DEF Close, Moves, Working, input
<1>2. PhaseInv'
  BY <1>1, WorkingSame DEF Moves
<1>3. /\ graph \in Adjacencies(V) /\ IsChangeList(graph, Changes) /\ Len(Changes) \in Nat
      /\ i \in 1..Len(Changes) /\ Searching(graph, Changes, i, calls[t], d)
      /\ now \in Seq(Frames) /\ Len(now) = d /\ Consumed(calls[t], now, d) /\ d \in Nat
  BY <1>1, PhaseFacts, BusyShape, AdvancedFrames
<1>4. /\ calls[t][d].offset <= Len(graph[calls[t][d].vertex])
      /\ graph[calls[t][d].vertex][calls[t][d].offset] = Changes[i][1]
      /\ ~Forbidden(Changes, i, calls[t][d].vertex, Changes[i][1])
  BY <1>1, BusyShape, ForbiddenSame DEF Closes, Anchor
<1>5. found = Rotated(ClosedBy(Changes[i][1], calls[t], d))
  BY DEF Found, ClosedBy, Anchor
<1>6. \A a \in 1..d : now[a].vertex = calls[t][a].vertex
  BY <1>3 DEF Consumed
<1>7. visited' = [visited EXCEPT ![t] = visited[t]] /\ visited[t] \in SUBSET V
  BY DEF Close, TeamInv
<1>8. visited[t] = {Changes[i][1]} \cup {calls[t][a].vertex : a \in 1..d}
  BY <1>1, BusyShape DEF Holds
<1>9. /\ Rest[i] = Ahead(graph, Changes, i, calls[t], d)
      /\ Rest'[i] = Ahead(graph, Changes, i, now, Len(now))
      /\ \A j \in 1..Len(Changes) : j # i => Rest'[j] = Rest[j]
  BY <1>1, MovedRest
<1>10. \A j \in 1..Len(Changes) : Rest[j] \subseteq Owned(graph, Changes, j)
  BY RestWithin DEF Rest
<1>11. /\ Searching(graph, Changes, i, now, d)
       /\ Len(found) = d + 1
       /\ found \in Ahead(graph, Changes, i, calls[t], d)
       /\ Ahead(graph, Changes, i, now, d) = Ahead(graph, Changes, i, calls[t], d) \ {found}
  <2> HIDE DEF d, i, now, found
  <2> QED BY <1>3, <1>4, <1>5, SearchCloses
<1>12. visited[t] = {Changes[i][1]} \cup {now[a].vertex : a \in 1..Len(now)}
  BY <1>3, <1>6, <1>8
<1>13. TeamInv'
  <2>1. GoodMove(t, now, visited[t])
    BY <1>1, <1>3, <1>7, <1>11, <1>12 DEF GoodMove
  <2>2. QED
    BY <1>1, <2>1, MovedTeam
<1>14. Rest'[i] = Rest[i] \ {found} /\ found \in Rest[i]
  BY <1>3, <1>9, <1>11
<1>15. Left(Changes, Rest') = Left(Changes, Rest) \ {found} /\ found \in Left(Changes, Rest)
  <2> DEFINE new == Rest'
             old == Rest
             ch == Changes
  <2>1. Finds(graph, ch, old, new, i, found)
    BY <1>3, <1>9, <1>10, <1>14 DEF Finds
  <2>2. Left(ch, new) = Left(ch, old) \ {found} /\ found \in Left(ch, old)
    <3> HIDE DEF new, old, ch, i, found
    <3> QED BY <2>1, OneLess
  <2>3. QED
    BY <2>2
<1>16. QED
  BY <1>2, <1>11, <1>13, <1>15

LEMMA SkipStep ==
  ASSUME PhaseInv, TeamInv, NEW t \in Threads, Skip(t)
  PROVE  PhaseInv' /\ TeamInv' /\ Left(Changes, Rest') = Left(Changes, Rest)
<1> DEFINE d == Depth(t)
           i == owner[t]
           now == Advanced(t)
           n == NextVertex(t)
<1>1. Busy(t) /\ ~Exhausted(t) /\ ~Closes(t) /\ Skipped(t) /\ Moves(t, now)
  BY DEF Skip, Moves, Working, input
<1>2. PhaseInv'
  BY <1>1, WorkingSame DEF Moves
<1>3. /\ graph \in Adjacencies(V) /\ IsChangeList(graph, Changes) /\ Len(Changes) \in Nat
      /\ i \in 1..Len(Changes) /\ Searching(graph, Changes, i, calls[t], d)
      /\ now \in Seq(Frames) /\ Len(now) = d /\ Consumed(calls[t], now, d) /\ d \in Nat
  BY <1>1, PhaseFacts, BusyShape, AdvancedFrames
<1>4. /\ calls[t][d].offset <= Len(graph[calls[t][d].vertex])
      /\ n = graph[calls[t][d].vertex][calls[t][d].offset]
      /\ Current(t) = calls[t][d].vertex
  BY <1>1, BusyShape
<1>7. visited' = [visited EXCEPT ![t] = visited[t]] /\ visited[t] \in SUBSET V
  BY DEF Skip, TeamInv
<1>8. visited[t] = {Changes[i][1]} \cup {calls[t][a].vertex : a \in 1..d}
  BY <1>1, BusyShape DEF Holds
<1>5. \/ Forbidden(Changes, i, calls[t][d].vertex, n)
      \/ /\ n # Changes[i][1]
         /\ (\E a \in 1..d : n = calls[t][a].vertex) \/ d + 1 >= MaxLength
  <2>1. CASE ForbiddenBefore(t, Current(t), n)
    BY <1>4, <2>1, ForbiddenSame
  <2>2. CASE ~ForbiddenBefore(t, Current(t), n)
    <3>1. n # Changes[i][1]
      BY <1>1, <2>2 DEF Closes, Anchor
    <3>2. n \in visited[t] \/ d + 1 >= MaxLength
      BY <1>1, <2>2 DEF Skipped
    <3>3. n \in visited[t] => \E a \in 1..d : n = calls[t][a].vertex
      BY <1>8, <3>1, SMTT(30)
    <3>4. QED
      BY <3>1, <3>2, <3>3
  <2>3. QED
    BY <2>1, <2>2, SMTT(30)
<1>6. \A a \in 1..d : now[a].vertex = calls[t][a].vertex
  BY <1>3 DEF Consumed
<1>11. /\ Searching(graph, Changes, i, now, d)
       /\ Ahead(graph, Changes, i, now, d) = Ahead(graph, Changes, i, calls[t], d)
  <2> HIDE DEF d, i, now, n
  <2> QED BY <1>3, <1>4, <1>5, SearchSkips, ZenonT(40)
<1>12. visited[t] = {Changes[i][1]} \cup {now[a].vertex : a \in 1..Len(now)}
  BY <1>3, <1>6, <1>8
<1>13. TeamInv'
  <2>1. GoodMove(t, now, visited[t])
    BY <1>1, <1>3, <1>7, <1>11, <1>12 DEF GoodMove
  <2>2. QED
    BY <1>1, <2>1, MovedTeam
<1>14. Left(Changes, Rest') = Left(Changes, Rest)
  BY <1>1, <1>3, <1>11, MovedSame
<1>15. QED
  BY <1>2, <1>13, <1>14

LEMMA DescendStep ==
  ASSUME PhaseInv, TeamInv, NEW t \in Threads, Descend(t)
  PROVE  PhaseInv' /\ TeamInv' /\ Left(Changes, Rest') = Left(Changes, Rest)
<1> DEFINE d == Depth(t)
           i == owner[t]
           n == NextVertex(t)
           now == Append(Advanced(t), Called(n))
           kept == visited[t] \cup {n}
<1>1. Busy(t) /\ ~Exhausted(t) /\ ~Closes(t) /\ ~Skipped(t) /\ Moves(t, now)
  BY DEF Descend, Moves, Working, input
<1>2. PhaseInv'
  BY <1>1, WorkingSame DEF Moves
<1>3. /\ graph \in Adjacencies(V) /\ IsChangeList(graph, Changes) /\ Len(Changes) \in Nat
      /\ i \in 1..Len(Changes) /\ Searching(graph, Changes, i, calls[t], d) /\ d \in Nat
  BY <1>1, PhaseFacts, BusyShape
<1>4. /\ calls[t][d].offset <= Len(graph[calls[t][d].vertex])
      /\ n = graph[calls[t][d].vertex][calls[t][d].offset]
      /\ Current(t) = calls[t][d].vertex
  BY <1>1, BusyShape
<1>16. n \in V
  <2>1. /\ d \in 1..d /\ calls[t][d].offset \in 1..(Len(graph[calls[t][d].vertex]) + 1)
        /\ Len(graph[calls[t][d].vertex]) \in Nat
        /\ \A j \in 1..Len(graph[calls[t][d].vertex]) : graph[calls[t][d].vertex][j] \in V
    <3> HIDE DEF d, i
    <3> QED BY <1>3, SearchShape DEF FramesFit
  <2>2. calls[t][d].offset \in 1..Len(graph[calls[t][d].vertex])
    <3> DEFINE o == calls[t][d].offset
               L == Len(graph[calls[t][d].vertex])
    <3>1. o \in 1..(L + 1) /\ L \in Nat /\ o <= L
      BY <1>4, <2>1
    <3> HIDE DEF o, L
    <3>2. o \in 1..L
      BY <3>1
    <3>3. QED
      BY <3>2 DEF o, L
  <2>3. QED
    BY <1>4, <2>1, <2>2
<1>5. /\ now \in Seq(Frames) /\ Len(now) = d + 1 /\ Consumed(calls[t], now, d)
      /\ now[d + 1].vertex = n /\ now[d + 1].offset = 1
  BY <1>1, <1>16, PushedFrames
<1>7. visited' = [visited EXCEPT ![t] = kept] /\ kept \in SUBSET V
  BY <1>16 DEF Descend, TeamInv
<1>8. visited[t] = {Changes[i][1]} \cup {calls[t][a].vertex : a \in 1..d}
  BY <1>1, BusyShape DEF Holds
<1>9. GoesOn(Changes, i, calls[t], d, now, n)
  <2>1. ~ForbiddenBefore(t, Current(t), n) /\ n \notin visited[t] /\ ~(d + 1 >= MaxLength)
    BY <1>1 DEF Skipped
  <2>2. ~Forbidden(Changes, i, calls[t][d].vertex, n)
    BY <1>4, <2>1, ForbiddenSame
  <2>3. d + 1 < MaxLength
    BY <1>3, <2>1, RequestAssumption
  <2>4. n # Changes[i][1] /\ \A a \in 1..d : n # calls[t][a].vertex
    BY <1>8, <2>1
  <2>5. QED
    BY <1>5, <2>2, <2>3, <2>4 DEF GoesOn
<1>10. /\ \A a \in 1..d : now[a].vertex = calls[t][a].vertex
       /\ \A a \in 1..(d + 1) : a \in 1..d \/ a = d + 1
       /\ \A a \in 1..d : a \in 1..(d + 1)
       /\ d + 1 \in 1..(d + 1)
  BY <1>3, <1>5 DEF Consumed
<1>11. /\ Searching(graph, Changes, i, now, d + 1)
       /\ Ahead(graph, Changes, i, now, d + 1) = Ahead(graph, Changes, i, calls[t], d)
  <2> HIDE DEF d, i, now, n
  <2> QED BY <1>3, <1>4, <1>5, <1>9, SearchPushes, SMTT(30)
<1>12. kept = {Changes[i][1]} \cup {now[a].vertex : a \in 1..Len(now)}
  <2> DEFINE old == {calls[t][a].vertex : a \in 1..d}
             new == {now[a].vertex : a \in 1..(d + 1)}
  <2>1. new = old \cup {n}
    <3> HIDE DEF d, now, n
    <3> QED BY <1>5, <1>10
  <2>2. QED
    BY <1>5, <1>8, <2>1
<1>13. TeamInv'
  <2>1. GoodMove(t, now, kept)
    BY <1>1, <1>5, <1>7, <1>11, <1>12 DEF GoodMove
  <2>2. QED
    BY <1>1, <2>1, MovedTeam
<1>14. Left(Changes, Rest') = Left(Changes, Rest)
  BY <1>1, <1>5, <1>11, MovedSame
<1>15. QED
  BY <1>2, <1>13, <1>14

LEMMA BacktrackStep ==
  ASSUME PhaseInv, TeamInv, NEW t \in Threads, Backtrack(t)
  PROVE  PhaseInv' /\ TeamInv' /\ Left(Changes, Rest') = Left(Changes, Rest)
<1> DEFINE d == Depth(t)
           i == owner[t]
           now == Front(calls[t])
           kept == visited[t] \ {Current(t)}
<1>1. Busy(t) /\ Exhausted(t) /\ d > 1 /\ Moves(t, now)
  BY DEF Backtrack, Moves, Working, input
<1>2. PhaseInv'
  BY <1>1, WorkingSame DEF Moves
<1>3. /\ graph \in Adjacencies(V) /\ IsChangeList(graph, Changes) /\ Len(Changes) \in Nat
      /\ i \in 1..Len(Changes) /\ Searching(graph, Changes, i, calls[t], d) /\ d \in Nat
  BY <1>1, PhaseFacts, BusyShape
<1>4. calls[t][d].offset > Len(graph[calls[t][d].vertex]) /\ Current(t) = calls[t][d].vertex
  BY <1>1, BusyShape
<1>5. /\ now \in Seq(Frames) /\ Len(now) = d - 1
      /\ \A a \in 1..(d - 1) : now[a] = calls[t][a]
  BY <1>1, PoppedFrames
<1>6. \A a \in 1..(d - 1) : /\ now[a].vertex = calls[t][a].vertex
                            /\ now[a].offset = calls[t][a].offset
  BY <1>5
<1>7. visited' = [visited EXCEPT ![t] = kept] /\ kept \in SUBSET V
  BY DEF Backtrack, TeamInv
<1>8. visited[t] = {Changes[i][1]} \cup {calls[t][a].vertex : a \in 1..d}
  BY <1>1, BusyShape DEF Holds
<1>11. /\ Searching(graph, Changes, i, now, d - 1)
       /\ Ahead(graph, Changes, i, now, d - 1) = Ahead(graph, Changes, i, calls[t], d)
  <2> HIDE DEF d, i, now
  <2> QED BY <1>1, <1>3, <1>4, <1>6, SearchPops
<1>12. kept = {Changes[i][1]} \cup {now[a].vertex : a \in 1..Len(now)}
  <2> DEFINE old == {calls[t][a].vertex : a \in 1..d}
             new == {now[a].vertex : a \in 1..(d - 1)}
             v == calls[t][d].vertex
             s == Changes[i][1]
  <2>1. /\ \A a \in 1..d : calls[t][a].vertex # s
        /\ \A a, b \in 1..d : a # b => calls[t][a].vertex # calls[t][b].vertex
    BY <1>3 DEF Searching
  <2>2. /\ d \in 1..d /\ \A a \in 1..(d - 1) : a \in 1..d /\ a # d
        /\ \A a \in 1..d : a = d \/ a \in 1..(d - 1)
    BY <1>1, <1>3
  <2>3. new = old \ {v} /\ v # s
    <3> HIDE DEF d, now, s
    <3> QED BY <1>6, <2>1, <2>2
  <2>4. kept = ({s} \cup old) \ {v}
    BY <1>4, <1>8
  <2> HIDE DEF kept, old, new, v, s
  <2>5. kept = {s} \cup new
    BY <2>3, <2>4
  <2>6. QED
    BY <1>5, <2>5 DEF new, s
<1>13. TeamInv'
  <2>1. GoodMove(t, now, kept)
    BY <1>1, <1>5, <1>7, <1>11, <1>12 DEF GoodMove
  <2>2. QED
    BY <1>1, <2>1, MovedTeam
<1>14. Left(Changes, Rest') = Left(Changes, Rest)
  BY <1>1, <1>5, <1>11, MovedSame
<1>15. QED
  BY <1>2, <1>13, <1>14

\* A thread takes a change up, or is through with it.
Hands(t, n, i, stack) ==
  /\ Working /\ next' = n
  /\ owner' = [owner EXCEPT ![t] = i] /\ calls' = [calls EXCEPT ![t] = stack]

\* The other changes are as they were.
LEMMA HandsOther ==
  ASSUME PhaseInv, TeamInv, NEW t \in Threads, NEW n, NEW i, NEW stack, Hands(t, n, i, stack),
         NEW j \in 1..Len(Changes), j >= next <=> j >= n, owner[t] # j, i # j
  PROVE  Rest'[j] = Rest[j]
<1> DEFINE has == owner'
           cs == calls'
<1>1. /\ graph' = graph /\ Changes' = Changes /\ next' = n
      /\ has = [owner EXCEPT ![t] = i] /\ cs = [calls EXCEPT ![t] = stack]
  BY WorkingSame DEF Hands
<1>2. Alike(owner, has, calls, cs, j)
  BY <1>1 DEF Alike, TeamInv
<1>3. RestOf(graph, Changes, n, has, cs)[j] = RestOf(graph, Changes, next, owner, calls)[j]
  <2> HIDE DEF has, cs
  <2> QED BY <1>2, RestOther
<1>4. Rest' = RestOf(graph, Changes, n, has, cs)
  BY <1>1 DEF Rest
<1>5. QED
  BY <1>3, <1>4 DEF Rest

LEMMA FinishStep ==
  ASSUME PhaseInv, TeamInv, NEW t \in Threads, Finish(t)
  PROVE  PhaseInv' /\ TeamInv' /\ Left(Changes, Rest') = Left(Changes, Rest)
<1> DEFINE i == owner[t]
<1>1. Busy(t) /\ Exhausted(t) /\ Depth(t) = 1 /\ Hands(t, next, 0, <<>>)
  BY DEF Finish, Hands, Working, input
<1>2. PhaseInv' /\ Changes' = Changes /\ graph' = graph /\ phase' = phase
  BY <1>1, WorkingSame DEF Hands
<1>3. /\ graph \in Adjacencies(V) /\ IsChangeList(graph, Changes) /\ Len(Changes) \in Nat
      /\ i \in 1..Len(Changes) /\ i < next /\ i # 0 /\ next \in Nat \ {0}
      /\ Searching(graph, Changes, i, calls[t], 1) /\ ToSet(Changes[i]) = {Changes[i][1], Changes[i][2]}
  BY <1>1, PhaseFacts, BusyShape, ZenonT(40) DEF TeamInv, Busy
<1>4. calls[t][1].offset > Len(graph[calls[t][1].vertex]) /\ calls[t][1].vertex = Changes[i][2]
  BY <1>1, <1>3, BusyShape DEF Searching
<1>5. visited'[t] = {}
  <2>1. visited[t] = {Changes[i][1]} \cup {calls[t][a].vertex : a \in 1..1}
    BY <1>1, BusyShape DEF Holds
  <2>2. visited' = [visited EXCEPT ![t] = @ \ ToSet(Changes[i])] /\ visited \in [Threads -> SUBSET V]
    BY DEF Finish, Anchor, TeamInv
  <2>3. visited'[t] = visited[t] \ {Changes[i][1], Changes[i][2]}
    BY <1>3, <2>2
  <2>4. \A a \in 1..1 : a = 1
    OBVIOUS
  <2>5. QED
    BY <1>4, <2>1, <2>3, <2>4
<1>6. /\ owner \in [Threads -> Nat] /\ calls \in [Threads -> Seq(Frames)]
      /\ visited \in [Threads -> SUBSET V]
      /\ owner' = [owner EXCEPT ![t] = 0] /\ calls' = [calls EXCEPT ![t] = <<>>]
      /\ visited' = [visited EXCEPT ![t] = {}]
  BY <1>1, <1>5 DEF Hands, TeamInv, Finish
<1>7. /\ owner'[t] = 0 /\ visited'[t] = {}
      /\ \A u \in Threads : u # t =>
           owner'[u] = owner[u] /\ calls'[u] = calls[u] /\ visited'[u] = visited[u]
  BY <1>6
<1>8. TeamInv'
  <2>1. /\ owner' \in [Threads -> Nat] /\ calls' \in [Threads -> Seq(Frames)]
        /\ visited' \in [Threads -> SUBSET V] /\ next' = next
    <3>1. <<>> \in Seq(Frames)
      OBVIOUS
    <3>2. QED
      BY <1>1, <1>6, <3>1 DEF Hands
  <2>2. ASSUME NEW u \in Threads
        PROVE  owner'[u] < next' /\ owner'[u] <= Len(Changes')
    <3>1. owner[u] < next /\ owner[u] <= Len(Changes)
      BY DEF TeamInv
    <3>2. 0 < next /\ 0 <= Len(Changes)
      BY <1>3
    <3>3. owner'[u] = owner[u] \/ owner'[u] = 0
      BY <1>7
    <3>4. QED
      BY <1>2, <2>1, <3>1, <3>2, <3>3
  <2>3. \A u, v \in Threads : u # v /\ owner'[u] = owner'[v] => owner'[u] = 0
    BY <1>7, ZenonT(40) DEF TeamInv
  <2>4. \A u \in Threads : ~Busy(u)' => visited'[u] = {}
    BY <1>7 DEF TeamInv, Busy
  <2>5. ASSUME NEW u \in Threads, Busy(u)'
        PROVE  /\ phase' # "done"
               /\ Searching(graph', Changes', owner'[u], calls'[u], Depth(u)')
               /\ visited'[u] = Holds(u)'
    <3>1. u # t /\ Busy(u)
      BY <1>7, <2>5 DEF Busy
    <3>2. owner'[u] = owner[u] /\ calls'[u] = calls[u] /\ visited'[u] = visited[u]
      BY <1>7, <3>1
    <3>3. Depth(u)' = Depth(u) /\ Holds(u)' = Holds(u)
      BY <1>2, <3>2 DEF Depth, Holds
    <3>4. /\ phase # "done" /\ visited[u] = Holds(u)
          /\ Searching(graph, Changes, owner[u], calls[u], Depth(u))
      BY <3>1 DEF TeamInv
    <3>5. QED
      BY <1>2, <3>2, <3>3, <3>4
  <2>6. next' \in Nat \ {0}
    BY <1>3, <2>1
  <2>7. QED
    BY <2>1, <2>2, <2>3, <2>4, <2>5, <2>6 DEF TeamInv
<1>9. Rest[i] = {}
  <2>1. Has(Changes, next, owner, t, i)
    BY <1>3 DEF TeamInv, Has
  <2>2. Rest[i] = Searched(graph, Changes, i, calls[t])
    BY <2>1, RestOne DEF Rest
  <2>3. Rest[i] = Ahead(graph, Changes, i, calls[t], 1)
    BY <1>1, <2>2 DEF Searched, Depth
  <2>4. \A a \in 1..(1 - 1) : FALSE
    OBVIOUS
  <2>5. Ahead(graph, Changes, i, calls[t], 1 - 1) = Ahead(graph, Changes, i, calls[t], 1)
    <3> HIDE DEF i
    <3> QED BY <1>3, <1>4, <2>4, SearchPops
  <2>6. Ahead(graph, Changes, i, calls[t], 0) = {}
    BY SearchOver
  <2>7. QED
    BY <2>3, <2>5, <2>6
<1>10. Rest'[i] = {}
  <2> DEFINE has == owner'
             cs == calls'
  <2>1. ASSUME NEW u \in Threads
        PROVE  has[u] # i
    <3>1. u # t => owner[u] # i
      BY <1>3 DEF TeamInv
    <3>2. QED
      BY <1>3, <1>7, <3>1
  <2>2. ~(i >= next)
    BY <1>3
  <2>3. RestOf(graph, Changes, next, has, cs)[i] = {}
    <3> HIDE DEF has, cs, i
    <3> QED BY <1>3, <2>1, <2>2, RestNone
  <2>4. QED
    BY <1>1, <1>2, <2>3 DEF Rest, Hands
<1>11. ASSUME NEW j \in 1..Len(Changes), j # i
       PROVE  Rest'[j] = Rest[j]
  <2>1. 0 # j
    BY <1>3
  <2>2. QED
    BY <1>1, <1>11, <2>1, HandsOther
<1>12. Left(Changes, Rest') = Left(Changes, Rest)
  <2>1. \A j \in 1..Len(Changes) : Rest'[j] = Rest[j]
    BY <1>9, <1>10, <1>11
  <2>2. QED
    BY <2>1, SameLeft
<1>13. QED
  BY <1>2, <1>8, <1>12

LEMMA ClaimStep ==
  ASSUME PhaseInv, TeamInv, NEW t \in Threads, Claim(t)
  PROVE  PhaseInv' /\ TeamInv' /\ Left(Changes, Rest') = Left(Changes, Rest)
<1> DEFINE i == next
           top == Called(Changes[i][2])
           stack == <<top>>
<1>1. ~Busy(t) /\ phase # "done" /\ i <= Len(Changes) /\ Hands(t, i + 1, i, stack)
  BY DEF Claim, Hands, Working, input
<1>2. PhaseInv' /\ Changes' = Changes /\ graph' = graph /\ phase' = phase
  BY <1>1, WorkingSame DEF Hands
<1>3. /\ graph \in Adjacencies(V) /\ IsChangeList(graph, Changes) /\ Len(Changes) \in Nat
      /\ i \in Nat \ {0} /\ i \in 1..Len(Changes)
      /\ Changes[i][1] \in V /\ Changes[i][2] \in V
      /\ ToSet(Changes[i]) = {Changes[i][1], Changes[i][2]}
  <2>1. i \in Nat \ {0} /\ Len(Changes) \in Nat /\ i <= Len(Changes)
    BY <1>1, PhaseFacts DEF TeamInv
  <2>2. i \in 1..Len(Changes)
    BY <2>1
  <2>3. QED
    BY <2>1, <2>2, PhaseFacts
<1>4. top \in Frames /\ top.vertex = Changes[i][2] /\ top.offset = 1
  BY <1>3 DEF Called, Frames
<1>5. stack \in Seq(Frames) /\ Len(stack) = 1 /\ stack[1] = top
  <2> HIDE DEF top
  <2> QED BY <1>4
<1>6. /\ Searching(graph, Changes, i, stack, 1)
      /\ Ahead(graph, Changes, i, stack, 1) = Owned(graph, Changes, i)
  <2>1. stack[1].vertex = Changes[i][2] /\ stack[1].offset = 1
    BY <1>4, <1>5
  <2> HIDE DEF i, stack
  <2> QED BY <1>3, <2>1, SearchBegins
<1>7. /\ owner \in [Threads -> Nat] /\ calls \in [Threads -> Seq(Frames)]
      /\ visited \in [Threads -> SUBSET V] /\ visited[t] = {}
      /\ owner' = [owner EXCEPT ![t] = i] /\ calls' = [calls EXCEPT ![t] = stack]
      /\ visited' = [visited EXCEPT ![t] = visited[t] \cup ToSet(Changes[i])]
      /\ next' = i + 1
  BY <1>1 DEF Hands, TeamInv, Claim
<1>8. /\ owner'[t] = i /\ calls'[t] = stack
      /\ visited'[t] = {Changes[i][1], Changes[i][2]}
      /\ \A u \in Threads : u # t =>
           owner'[u] = owner[u] /\ calls'[u] = calls[u] /\ visited'[u] = visited[u]
  <2> HIDE DEF i, stack
  <2> QED BY <1>3, <1>7
<1>9. \A u \in Threads : owner[u] < i /\ owner[u] \in Nat /\ owner[u] <= Len(Changes)
  BY <1>7 DEF TeamInv
<1> HIDE DEF i, stack
<1>10. TeamInv'
  <2>1. owner' \in [Threads -> Nat] /\ calls' \in [Threads -> Seq(Frames)]
    BY <1>3, <1>5, <1>7
  <2>2. visited' \in [Threads -> SUBSET V]
    <3>1. visited[t] \cup ToSet(Changes[i]) \in SUBSET V
      BY <1>3, <1>7
    <3>2. QED
      BY <1>7, <3>1
  <2>3. i + 1 \in Nat \ {0} /\ i < i + 1
    BY <1>3
  <2>4. ASSUME NEW u \in Threads
        PROVE  owner'[u] < next' /\ owner'[u] <= Len(Changes')
    <3>1. owner[u] < i /\ owner[u] \in Nat /\ owner[u] <= Len(Changes)
      BY <1>9
    <3>2. owner[u] < i + 1 /\ i < i + 1 /\ i <= Len(Changes)
      BY <1>3, <3>1
    <3>3. owner'[u] = owner[u] \/ owner'[u] = i
      BY <1>8
    <3>4. QED
      BY <1>2, <1>7, <3>1, <3>2, <3>3
  <2>5. ASSUME NEW u \in Threads, NEW v \in Threads, u # v, owner'[u] = owner'[v]
        PROVE  owner'[u] = 0
    <3>1. owner[u] # i /\ owner[v] # i
      BY <1>3, <1>9
    <3>2. owner'[u] = owner[u] /\ owner'[v] = owner[v]
      BY <1>8, <2>5, <3>1
    <3>3. QED
      BY <2>5, <3>2 DEF TeamInv
  <2>6. \A u \in Threads : ~Busy(u)' => visited'[u] = {}
    BY <1>3, <1>8 DEF TeamInv, Busy
  <2>7. ASSUME NEW u \in Threads, Busy(u)'
        PROVE  /\ phase' # "done"
               /\ Searching(graph', Changes', owner'[u], calls'[u], Depth(u)')
               /\ visited'[u] = Holds(u)'
    <3>1. CASE u = t
      <4>1. Depth(u)' = 1 /\ calls'[u] = stack /\ owner'[u] = i
        BY <1>5, <1>8, <3>1 DEF Depth
      <4>2. Holds(u)' = {Changes[i][1]} \cup {stack[a].vertex : a \in 1..1}
        BY <1>2, <4>1 DEF Holds
      <4>3. {stack[a].vertex : a \in 1..1} = {Changes[i][2]}
        <5>1. \A a \in 1..1 : a = 1
          OBVIOUS
        <5>2. QED
          BY <1>4, <1>5, <5>1
      <4>4. visited'[u] = Holds(u)'
        BY <1>8, <3>1, <4>2, <4>3
      <4>5. QED
        BY <1>1, <1>2, <1>6, <4>1, <4>4
    <3>2. CASE u # t
      <4>1. owner'[u] = owner[u] /\ calls'[u] = calls[u] /\ visited'[u] = visited[u]
        BY <1>8, <3>2
      <4>2. Depth(u)' = Depth(u) /\ Holds(u)' = Holds(u) /\ Busy(u)
        BY <1>2, <2>7, <4>1 DEF Depth, Holds, Busy
      <4>3. /\ phase # "done" /\ visited[u] = Holds(u)
            /\ Searching(graph, Changes, owner[u], calls[u], Depth(u))
        BY <4>2 DEF TeamInv
      <4>4. QED
        BY <1>2, <4>1, <4>2, <4>3
    <3>3. QED
      BY <3>1, <3>2
  <2>8. QED
    BY <1>7, <2>1, <2>2, <2>3, <2>4, <2>5, <2>6, <2>7 DEF TeamInv
<1>11. Rest[i] = Owned(graph, Changes, i)
  <2>1. i >= next
    BY <1>3 DEF i
  <2>2. QED
    BY <1>3, <2>1, RestFresh DEF Rest
<1>12. Rest'[i] = Owned(graph, Changes, i)
  <2> DEFINE has == owner'
             cs == calls'
             n == next'
  <2>1. Has(Changes, n, has, t, i)
    <3>1. ~(i >= i + 1)
      BY <1>3
    <3>2. \A u \in Threads : u # t => owner'[u] # i
      BY <1>3, <1>8, <1>9
    <3>3. QED
      BY <1>3, <1>7, <1>8, <3>1, <3>2 DEF Has
  <2>2. RestOf(graph, Changes, n, has, cs)[i] = Searched(graph, Changes, i, cs[t])
    <3> HIDE DEF has, cs, n
    <3> QED BY <2>1, RestOne
  <2>3. Searched(graph, Changes, i, cs[t]) = Owned(graph, Changes, i)
    BY <1>5, <1>6, <1>8 DEF Searched
  <2>4. QED
    BY <1>2, <2>2, <2>3 DEF Rest
<1>13. ASSUME NEW j \in 1..Len(Changes), j # i
       PROVE  Rest'[j] = Rest[j]
  <2>1. j >= next <=> j >= i + 1
    BY <1>3, <1>13 DEF i
  <2>2. owner[t] # j
    BY <1>1 DEF Busy
  <2> DEFINE n == i + 1
  <2>3. Hands(t, n, i, stack) /\ (j >= next <=> j >= n)
    BY <1>1, <2>1 DEF i, stack
  <2> HIDE DEF n
  <2>4. QED
    BY <1>13, <2>2, <2>3, HandsOther
<1>14. Left(Changes, Rest') = Left(Changes, Rest)
  <2>1. \A j \in 1..Len(Changes) : Rest'[j] = Rest[j]
    BY <1>11, <1>12, <1>13
  <2>2. QED
    BY <2>1, SameLeft
<1>15. QED
  BY <1>2, <1>10, <1>14

-----------------------------------------------------------------------------
(***************************************************************************)
(* The ends of the phases.                                                 *)
(***************************************************************************)
\* When all are through nothing is left.
LEMMA PhaseOverLeft ==
  ASSUME PhaseInv, TeamInv, PhaseOver
  PROVE  Left(Changes, Rest) = {}
<1>1. ASSUME NEW j \in 1..Len(Changes)
      PROVE  Rest[j] = {}
  <2>1. next > Len(Changes) /\ next \in Nat /\ Len(Changes) \in Nat
    BY PhaseFacts DEF PhaseOver, TeamInv
  <2>2. ~(j >= next) /\ j # 0
    BY <2>1
  <2>3. \A u \in Threads : owner[u] # j
    BY <2>2 DEF PhaseOver, Busy
  <2>4. QED
    BY <1>1, <2>2, <2>3, RestNone DEF Rest
<1>2. QED
  BY <1>1, NoneLeft

\* The team is idle, and there is nothing in its buffers.
Idle(n, own, stacks, marked) ==
  /\ n = 1
  /\ own \in [Threads -> Nat] /\ stacks \in [Threads -> Seq(Frames)]
  /\ marked \in [Threads -> SUBSET V]
  /\ \A t \in Threads : own[t] = 0 /\ marked[t] = {}

LEMMA IdleTeam ==
  ASSUME Idle(next, owner, calls, visited), Len(Changes) \in Nat
  PROVE  TeamInv
BY DEF Idle, TeamInv, Busy

\* All the cycles of all changes are left before the first is handed out.
LEMMA FreshLeft ==
  ASSUME PhaseInv, next = 1
  PROVE  Left(Changes, Rest) = {c \in Cycles(graph, MaxLength) : ~Untouched(Changes, c)}
<1>1. Len(Changes) \in Nat
  BY PhaseFacts
<1>2. ASSUME NEW j \in 1..Len(Changes)
      PROVE  Rest[j] = Owned(graph, Changes, j)
  <2>1. j >= next
    BY <1>1
  <2>2. QED
    BY <1>2, <2>1, RestFresh DEF Rest
<1>3. QED
  BY <1>1, <1>2, AllLeft

LEMMA TurnStep ==
  ASSUME PhaseInv, TeamInv, Accounted(Rest), EndDeletions
  PROVE  PhaseInv' /\ TeamInv' /\ Accounted(Rest)' /\ live = between
<1>1. live = between
  BY PhaseOverLeft DEF Accounted, EndDeletions
<1>2. PhaseInv'
  BY DEF PhaseInv, InputSound, Changed, EndDeletions, input
<1>3. Idle(next, owner, calls, visited)'
  BY DEF EndDeletions, PhaseOver, TeamInv, Idle, Busy
<1>4. (Len(Changes) \in Nat)'
  BY <1>2, PhaseFacts, PTL
<1>5. TeamInv'
  BY <1>3, <1>4, IdleTeam, PTL
<1>6. (next = 1)' /\ (phase = "insert")' /\ live' = live /\ between' = between
  BY DEF EndDeletions, input
<1>11. (next = 1)' /\ (phase # "delete")'
  BY <1>6
<1>7. (Left(Changes, Rest) = {c \in Cycles(graph, MaxLength) : ~Untouched(Changes, c)})'
  BY <1>2, <1>11, FreshLeft, PTL
<1>8. /\ (Cycles(graph, MaxLength) = after)'
      /\ (between = {c \in after : Untouched(Changes, c)})'
  BY <1>2, <1>11, LiveCycles, PTL
<1>9. Accounted(Rest)'
  <2> DEFINE L == Left(Changes, Rest)
  <2>1. Accounted(Rest)' <=> live' = after' \ L'
    BY <1>6 DEF Accounted
  <2>2. after' \ L' = {c \in after' : Untouched(Changes', c)}
    BY <1>7, <1>8
  <2>3. QED
    BY <1>1, <1>6, <1>8, <2>1, <2>2
<1>10. QED
  BY <1>1, <1>2, <1>5, <1>9

LEMMA ReportStep ==
  ASSUME PhaseInv, TeamInv, Accounted(Rest), EndInsertions
  PROVE  PhaseInv' /\ TeamInv' /\ Accounted(Rest)' /\ live = after
<1>1. live = after
  BY PhaseOverLeft DEF Accounted, EndInsertions
<1>2. PhaseInv' /\ Changes' = Changes /\ live' = live /\ after' = after /\ phase' = "done"
  BY DEF PhaseInv, InputSound, Changed, EndInsertions, input, Changes
<1>3. Accounted(Rest)'
  BY <1>1, <1>2 DEF Accounted
<1>4. TeamInv'
  BY <1>2 DEF EndInsertions, PhaseOver, TeamInv, Busy
<1>5. QED
  BY <1>1, <1>2, <1>3, <1>4

-----------------------------------------------------------------------------
(***************************************************************************)
(* The cycles accounted for.                                               *)
(***************************************************************************)
\* What is left is of the graph of the phase, and on a change.
LEMMA LeftTouched ==
  ASSUME PhaseInv, NEW c \in Left(Changes, Rest)
  PROVE  /\ c \in Cycles(graph, MaxLength) /\ c \notin between
         /\ phase = "delete" => c \in before
         /\ phase # "delete" => c \in after
<1>1. PICK j \in 1..Len(Changes) : c \in Rest[j]
  BY DEF Left
<1>2. c \in Owned(graph, Changes, j)
  BY <1>1, RestWithin DEF Rest
<1>3. c \in Cycles(graph, MaxLength) /\ Len(Changes) \in Nat
  BY <1>2, PhaseFacts DEF Owned
<1>4. ~Untouched(Changes, c)
  BY <1>2, <1>3, HasOwner
<1>5. QED
  BY <1>3, <1>4, LiveCycles

\* A step that finds no cycle.
LEMMA KeptAccount ==
  ASSUME Accounted(Rest), Working, live' = live, Left(Changes, Rest') = Left(Changes, Rest)
  PROVE  Accounted(Rest)'
BY WorkingSame DEF Accounted

\* A step that finds one: it was accounted for by mistake, or was not.
LEMMA FoundAccount ==
  ASSUME PhaseInv, Accounted(Rest), Working, NEW c \in Left(Changes, Rest),
         Left(Changes, Rest') = Left(Changes, Rest) \ {c}, phase # "done",
         live' = IF phase = "delete" THEN live \ {c} ELSE live \cup {c}
  PROVE  /\ Accounted(Rest)'
         /\ phase = "delete" => c \in live \ between
         /\ phase = "insert" => c \in after \ live
<1>1. phase = "delete" \/ phase = "insert"
  BY DEF PhaseInv
<1>2. /\ c \notin between
      /\ phase = "insert" => c \in after
  BY LeftTouched
<1>3. /\ Changes' = Changes /\ phase' = phase /\ between' = between /\ after' = after
  BY WorkingSame
<1> DEFINE L == Left(Changes, Rest)
           M == Left(Changes, Rest')
<1>4. CASE phase = "delete"
  <2>1. live = between \cup L /\ live' = live \ {c} /\ M = L \ {c} /\ c \in L
    BY <1>4 DEF Accounted
  <2>2. live' = between \cup M
    <3> HIDE DEF L, M
    <3> QED BY <1>2, <2>1
  <2>3. QED
    BY <1>2, <1>3, <1>4, <2>1, <2>2 DEF Accounted
<1>5. CASE phase = "insert"
  <2>1. live = after \ L /\ live' = live \cup {c} /\ M = L \ {c} /\ c \in L
    BY <1>5 DEF Accounted
  <2>2. live' = after \ M
    <3> HIDE DEF L, M
    <3> QED BY <1>2, <1>5, <2>1
  <2>3. QED
    BY <1>2, <1>3, <1>5, <2>1, <2>2 DEF Accounted
<1>6. QED
  BY <1>1, <1>4, <1>5

LEMMA LiveFinite ==
  ASSUME PhaseInv, Accounted(Rest)
  PROVE  IsFiniteSet(live) /\ IsFiniteSet(before) /\ IsFiniteSet(after)
<1>1. IsFiniteSet(before) /\ IsFiniteSet(between) /\ IsFiniteSet(after)
  BY InputFinite DEF PhaseInv
<1>2. CASE phase = "delete"
  <2>1. between \subseteq before
    BY DEF PhaseInv, InputSound
  <2>2. Left(Changes, Rest) \subseteq before
    BY <1>2, LeftTouched
  <2>3. live \subseteq before
    BY <1>2, <2>1, <2>2 DEF Accounted
  <2>4. QED
    BY <1>1, <2>3, FS_Subset
<1>3. CASE phase # "delete"
  <2>1. live \subseteq after
    BY <1>3 DEF Accounted
  <2>2. QED
    BY <1>1, <2>1, FS_Subset
<1>4. QED
  BY <1>2, <1>3

-----------------------------------------------------------------------------
(***************************************************************************)
(* The ledger.                                                             *)
(***************************************************************************)
Total(f, n) == TallySum(f, n, Threads)[Threads]

Balanced(n) ==
  Cardinality(OfLength(live, n)) =
    Cardinality(OfLength(before, n)) + Total(local, n) + delta[n] + Total(Uncommitted, n)

LEMMA SumIsTotal ==
  ASSUME NEW f, NEW n
  PROVE  MapThenSumSet(LAMBDA t : f[t][n], Threads) = Total(f, n)
BY DEF Total, MapThenSumSet, MapThenFoldSet, TallySum, SumStep, Pick

LEMMA SignTimes ==
  /\ Sign \in Int /\ Sign * 0 = 0
  /\ \A k \in Int : Sign * k \in Int /\ Sign * (k + 1) = Sign * k + Sign
<1>1. CASE Sign = 1
  BY <1>1
<1>2. CASE Sign = -1
  BY <1>2
<1>3. QED
  BY <1>1, <1>2, SignType

LEMMA UncommittedType ==
  ASSUME SumsTyped
  PROVE  /\ \A u \in Threads, n \in Lengths :
              /\ local[u][n] \in Int /\ counts[u][n] \in Nat /\ Uncommitted[u][n] \in Int
              /\ Uncommitted[u][n] = IF Busy(u) THEN Sign * counts[u][n] ELSE 0
         /\ \A n \in Lengths : delta[n] \in Int
<1>1. ASSUME NEW u \in Threads, NEW n \in Lengths
      PROVE  /\ local[u][n] \in Int /\ counts[u][n] \in Nat /\ Uncommitted[u][n] \in Int
             /\ Uncommitted[u][n] = IF Busy(u) THEN Sign * counts[u][n] ELSE 0
  <2>1. local[u][n] \in Int /\ counts[u][n] \in Nat
    BY DEF SumsTyped
  <2>2. Uncommitted[u][n] = IF Busy(u) THEN Sign * counts[u][n] ELSE 0
    BY DEF Uncommitted
  <2>3. QED
    BY <2>1, <2>2, SignTimes
<1>2. QED
  BY <1>1 DEF SumsTyped

LEMMA TotalType ==
  ASSUME SumsTyped, NEW n \in Lengths
  PROVE  Total(local, n) \in Int /\ Total(Uncommitted, n) \in Int /\ delta[n] \in Int
<1>1. /\ \A u \in Threads : local[u][n] \in Int /\ local[u][n] = local[u][n]
      /\ delta[n] \in Int
  BY UncommittedType
<1> DEFINE f == Uncommitted
<1>2. \A u \in Threads : f[u][n] \in Int /\ f[u][n] = f[u][n]
  BY UncommittedType
<1>3. IsFiniteSet(Threads)
  BY RequestAssumption
<1>4. Total(local, n) \in Int
  BY <1>1, <1>3, SumOfEqual DEF Total
<1>5. Total(f, n) \in Int
  <2> HIDE DEF f
  <2> QED BY <1>2, <1>3, SumOfEqual DEF Total
<1>6. QED
  BY <1>1, <1>4, <1>5

LEMMA LedgerBalanced ==
  ASSUME SumsTyped, PhaseInv, Accounted(Rest)
  PROVE  LedgerExact <=> (phase # "done" => \A n \in Lengths : Balanced(n))
<1>1. ASSUME NEW n \in Lengths
      PROVE  Cardinality(OfLength(live, n)) =
               HistogramOf(before, MaxLength)[n] + Merged[n]
                 + MapThenSumSet(LAMBDA t : Uncommitted[t][n], Threads)
             <=> Balanced(n)
  <2> DEFINE s == Total(local, n)
             u == Total(Uncommitted, n)
             d == delta[n]
             b == Cardinality(OfLength(before, n))
             c == Cardinality(OfLength(live, n))
  <2>1. HistogramOf(before, MaxLength)[n] = b
    BY DEF HistogramOf, Lengths
  <2>2. Merged[n] = s + d
    BY SumIsTotal DEF Merged
  <2>3. MapThenSumSet(LAMBDA t : Uncommitted[t][n], Threads) = u
    BY SumIsTotal
  <2>4. s \in Int /\ u \in Int /\ d \in Int /\ b \in Nat /\ c \in Nat
    BY TotalType, LiveFinite, OfLengthFinite
  <2>5. Balanced(n) <=> c = b + s + d + u
    BY DEF Balanced
  <2> HIDE DEF s, u, d, b, c
  <2>6. c = b + (s + d) + u <=> c = b + s + d + u
    BY <2>4
  <2>7. QED
    BY <2>1, <2>2, <2>3, <2>5, <2>6 DEF c
<1>2. QED
  BY <1>1 DEF LedgerExact

\* The ledger of the state after a step, from the totals.
LEMMA NextBalanced ==
  ASSUME SumsTyped', PhaseInv', Accounted(Rest)', (\A n \in Lengths : Balanced(n))'
  PROVE  TeamLedger'
<1>1. (LedgerExact <=> (phase # "done" => \A n \in Lengths : Balanced(n)))'
  BY LedgerBalanced, PTL
<1>2. LedgerExact'
  BY <1>1
<1>3. QED
  BY <1>2 DEF TeamLedger

\* A step that finds no cycle and leaves the sums as they are.
LEMMA KeptLedger ==
  ASSUME PhaseInv, Accounted(Rest), TeamLedger, phase # "done",
         counts' \in [Threads -> [Lengths -> Nat]], Uncommitted' = Uncommitted,
         Working, UNCHANGED <<local, delta, live>>,
         PhaseInv', Left(Changes, Rest') = Left(Changes, Rest)
  PROVE  Accounted(Rest)' /\ TeamLedger'
<1>1. before' = before /\ local' = local /\ delta' = delta /\ live' = live
  BY DEF Working
<1>2. SumsTyped'
  BY <1>1 DEF TeamLedger, SumsTyped
<1>3. Accounted(Rest)'
  BY <1>1, KeptAccount
<1>4. \A n \in Lengths : Balanced(n)
  BY LedgerBalanced DEF TeamLedger
<1> DEFINE u == Uncommitted
<1>5. \A n \in Lengths : Balanced(n) <=>
        Cardinality(OfLength(live, n)) =
          Cardinality(OfLength(before, n)) + Total(local, n) + delta[n] + Total(u, n)
  BY DEF Balanced
<1>6. \A n \in Lengths : Balanced(n)' <=>
        Cardinality(OfLength(live', n)) =
          Cardinality(OfLength(before', n)) + Total(local', n) + delta'[n] + Total(u', n)
  BY DEF Balanced
<1>7. u' = u
  OBVIOUS
<1> HIDE DEF u
<1>8. (\A n \in Lengths : Balanced(n))'
  BY <1>1, <1>4, <1>5, <1>6, <1>7
<1>9. QED
  BY <1>2, <1>3, <1>8, NextBalanced

LEMMA QuietLedger ==
  ASSUME PhaseInv, TeamInv, Accounted(Rest), TeamLedger, NEW t \in Threads,
         Skip(t) \/ Descend(t) \/ Backtrack(t)
  PROVE  PhaseInv' /\ TeamInv' /\ Accounted(Rest)' /\ TeamLedger'
<1>0. PhaseInv' /\ TeamInv' /\ Left(Changes, Rest') = Left(Changes, Rest)
  BY SkipStep, DescendStep, BacktrackStep
<1>1. /\ Working /\ UNCHANGED <<local, delta, live>> /\ owner' = owner /\ counts' = counts
      /\ phase # "done"
  BY DEF Skip, Descend, Backtrack, Working, input, TeamInv
<1>2. Sign' = Sign
  BY <1>1, WorkingSame
<1>3. Uncommitted' = Uncommitted
  BY <1>1, <1>2 DEF Uncommitted, Busy
<1>4. counts' \in [Threads -> [Lengths -> Nat]]
  BY <1>1 DEF TeamLedger, SumsTyped
<1>5. QED
  BY <1>0, <1>1, <1>3, <1>4, KeptLedger

\* The counts of a thread are cleared when it takes a change up.
LEMMA ClaimLedger ==
  ASSUME PhaseInv, TeamInv, Accounted(Rest), TeamLedger, NEW t \in Threads, Claim(t)
  PROVE  PhaseInv' /\ TeamInv' /\ Accounted(Rest)' /\ TeamLedger'
<1>0. PhaseInv' /\ TeamInv' /\ Left(Changes, Rest') = Left(Changes, Rest)
  BY ClaimStep
<1>1. /\ Working /\ UNCHANGED <<local, delta, live>> /\ ~Busy(t) /\ phase # "done"
      /\ counts' = [counts EXCEPT ![t] = NoCounts] /\ owner' = [owner EXCEPT ![t] = next]
      /\ counts \in [Threads -> [Lengths -> Nat]] /\ owner \in [Threads -> Nat]
  BY DEF Claim, Working, input, TeamLedger, SumsTyped, TeamInv
<1>2. Sign' = Sign
  BY <1>1, WorkingSame
<1>3. NoCounts \in [Lengths -> Nat] /\ \A n \in Lengths : NoCounts[n] = 0
  BY DEF NoCounts
<1>4. counts' \in [Threads -> [Lengths -> Nat]]
  BY <1>1, <1>3
<1>5. ASSUME NEW u \in Threads, NEW n \in Lengths
      PROVE  (IF Busy(u)' THEN Sign' * counts'[u][n] ELSE 0)
               = IF Busy(u) THEN Sign * counts[u][n] ELSE 0
  <2>1. CASE u = t
    <3>1. counts'[u][n] = 0 /\ ~Busy(u)
      BY <1>1, <1>3, <2>1
    <3>2. Sign' * counts'[u][n] = 0
      BY <1>2, <3>1, SignTimes
    <3>3. QED
      BY <3>1, <3>2
  <2>2. CASE u # t
    <3>1. counts'[u] = counts[u] /\ Busy(u)' = Busy(u)
      BY <1>1, <2>2 DEF Busy
    <3>2. QED
      BY <1>2, <3>1
  <2>3. QED
    BY <2>1, <2>2
<1>6. Uncommitted' = Uncommitted
  BY <1>5 DEF Uncommitted
<1>7. QED
  BY <1>0, <1>1, <1>4, <1>6, KeptLedger

\* A cycle found is counted once, in the thread's counts of its length.
LEMMA CloseLedger ==
  ASSUME PhaseInv, TeamInv, Accounted(Rest), TeamLedger, NEW t \in Threads, Close(t)
  PROVE  Accounted(Rest)' /\ TeamLedger'
<1> DEFINE c == Found(t)
           m == Depth(t) + 1
<1>1. /\ Working /\ UNCHANGED <<local, delta>> /\ owner' = owner /\ Busy(t) /\ phase # "done"
      /\ counts' = [counts EXCEPT ![t][m] = @ + 1]
      /\ live' = IF phase = "delete" THEN live \ {c} ELSE live \cup {c}
      /\ counts \in [Threads -> [Lengths -> Nat]]
  BY DEF Close, Working, input, TeamLedger, SumsTyped, TeamInv
<1>2. /\ PhaseInv' /\ TeamInv' /\ c \in Left(Changes, Rest) /\ Len(c) = m
      /\ Left(Changes, Rest') = Left(Changes, Rest) \ {c}
  BY CloseStep
<1>3. /\ Accounted(Rest)'
      /\ phase = "delete" => c \in live \ between
      /\ phase = "insert" => c \in after \ live
  BY <1>1, <1>2, FoundAccount
<1>4. m \in Lengths
  <2> DEFINE d == Depth(t)
  <2>1. d \in Nat \ {0} /\ d + 1 <= MaxLength /\ MaxLength \in Nat
    BY <1>1, BusyShape, RequestAssumption DEF Searching
  <2> HIDE DEF d
  <2>2. d + 1 \in 2..MaxLength
    BY <2>1
  <2>3. QED
    BY <2>2 DEF d, Lengths
<1>5. Sign' = Sign /\ before' = before /\ phase' = phase
  BY <1>1, WorkingSame
<1> HIDE DEF c, m
<1>6. counts' \in [Threads -> [Lengths -> Nat]]
  BY <1>1, <1>4
<1>7. ASSUME NEW u \in Threads, NEW n \in Lengths
      PROVE  counts'[u][n] = IF u = t /\ n = m THEN counts[u][n] + 1 ELSE counts[u][n]
  BY <1>1, <1>4
<1>8. SumsTyped'
  BY <1>1, <1>6 DEF SumsTyped, TeamLedger
<1>9. ASSUME NEW n \in Lengths
      PROVE  Balanced(n)'
  <2> DEFINE k == IF n = m THEN Sign ELSE 0
             f == Uncommitted
             h == Uncommitted'
  <2>1. k \in Int
    BY SignTimes
  <2>2. ASSUME NEW u \in Threads
        PROVE  f[u][n] \in Int /\ h[u][n] = IF u = t THEN f[u][n] + k ELSE f[u][n]
    <3>1. counts[u][n] \in Nat /\ f[u][n] \in Int /\ f[u][n] = IF Busy(u) THEN Sign * counts[u][n] ELSE 0
      BY UncommittedType DEF TeamLedger
    <3>2. h[u][n] = IF Busy(u) THEN Sign * counts'[u][n] ELSE 0
      BY <1>1, <1>5 DEF Uncommitted, Busy
    <3>3. CASE u = t /\ n = m
      <4>1. h[u][n] = Sign * (counts[u][n] + 1) /\ f[u][n] = Sign * counts[u][n] /\ k = Sign
        BY <1>1, <1>7, <3>1, <3>2, <3>3
      <4>2. QED
        BY <3>1, <3>3, <4>1, SignTimes
    <3>4. CASE ~(u = t /\ n = m)
      <4>1. h[u][n] = f[u][n]
        BY <1>7, <3>1, <3>2, <3>4
      <4>2. u = t => k = 0
        BY <3>4
      <4>3. QED
        BY <3>1, <4>1, <4>2
    <3>5. QED
      BY <3>3, <3>4
  <2>3. Total(f, n) \in Int /\ Total(h, n) = Total(f, n) + k
    <3>1. IsFiniteSet(Threads)
      BY RequestAssumption
    <3> HIDE DEF f, h, k
    <3>2. QED
      BY <2>1, <2>2, <3>1, SumOfChanged DEF Total
  <2> DEFINE old == Cardinality(OfLength(live, n))
             new == Cardinality(OfLength(live', n))
  <2>4. new = old + k /\ old \in Nat
    <3>1. IsFiniteSet(live) /\ old \in Nat
      BY LiveFinite, OfLengthFinite
    <3>2. CASE phase = "delete"
      <4>1. c \in live /\ live' = live \ {c} /\ Sign = -1
        BY <1>1, <1>3, <3>2, SignType
      <4>2. IsFiniteSet(live') /\ c \notin live' /\ live = live' \cup {c}
        BY <3>1, <4>1, FS_Subset
      <4>3. new \in Nat
        BY <4>2, OfLengthFinite
      <4>4. old = IF Len(c) = n THEN new + 1 ELSE new
        <5> DEFINE S == live'
        <5>1. IsFiniteSet(S) /\ c \notin S /\ live = S \cup {c} /\ new = Cardinality(OfLength(S, n))
          BY <4>2
        <5> HIDE DEF S, new
        <5>2. QED
          BY <5>1, OfLengthAdd
      <4> HIDE DEF old, new
      <4>5. QED
        BY <1>2, <3>1, <4>1, <4>3, <4>4
    <3>3. CASE phase = "insert"
      <4>1. c \notin live /\ live' = live \cup {c} /\ Sign = 1
        BY <1>1, <1>3, <3>3, SignType
      <4>2. new = IF Len(c) = n THEN old + 1 ELSE old
        BY <3>1, <4>1, OfLengthAdd
      <4> HIDE DEF old, new
      <4>3. QED
        BY <1>2, <3>1, <4>1, <4>2
    <3>4. phase = "delete" \/ phase = "insert"
      BY <1>1 DEF PhaseInv
    <3>5. QED
      BY <3>2, <3>3, <3>4
  <2> DEFINE b == Cardinality(OfLength(before, n))
             s == Total(local, n)
             p == delta[n]
             q == Total(f, n)
             r == Total(h, n)
  <2>5. b \in Nat /\ s \in Int /\ p \in Int
    BY LiveFinite, OfLengthFinite, TotalType DEF TeamLedger
  <2>6. old = b + s + p + q
    BY <1>1, LedgerBalanced DEF TeamLedger, Balanced
  <2>7. Balanced(n)' <=> new = b + s + p + r
    BY <1>1, <1>5 DEF Balanced
  <2>8. q \in Int /\ r = q + k
    BY <2>3
  <2> HIDE DEF old, new, b, s, p, q, r, k
  <2>9. new = b + s + p + r
    BY <2>1, <2>4, <2>5, <2>6, <2>8
  <2>10. QED
    BY <2>7, <2>9
<1>10. (\A n \in Lengths : Balanced(n))'
  BY <1>9
<1>11. TeamLedger'
  BY <1>2, <1>3, <1>8, <1>10, NextBalanced
<1>12. QED
  BY <1>3, <1>11

\* What a thread has counted goes from the one column to the other.
LEMMA FinishLedger ==
  ASSUME PhaseInv, TeamInv, Accounted(Rest), TeamLedger, NEW t \in Threads, Finish(t)
  PROVE  PhaseInv' /\ TeamInv' /\ Accounted(Rest)' /\ TeamLedger'
<1>1. PhaseInv' /\ TeamInv' /\ Left(Changes, Rest') = Left(Changes, Rest)
  BY FinishStep
<1> DEFINE sums == [n \in Lengths |-> local[t][n] + Sign * counts[t][n]]
<1>2. /\ Working /\ UNCHANGED <<counts, delta, live>> /\ Busy(t) /\ phase # "done"
      /\ local' = [local EXCEPT ![t] = sums] /\ owner' = [owner EXCEPT ![t] = 0]
      /\ local \in [Threads -> [Lengths -> Int]] /\ owner \in [Threads -> Nat]
  BY DEF Finish, Working, input, TeamLedger, SumsTyped, TeamInv
<1>3. Sign' = Sign /\ before' = before /\ phase' = phase
  BY <1>2, WorkingSame
<1>4. Accounted(Rest)'
  BY <1>1, <1>2, KeptAccount
<1>5. /\ sums \in [Lengths -> Int]
      /\ \A n \in Lengths : sums[n] = local[t][n] + Uncommitted[t][n]
  <2>1. ASSUME NEW n \in Lengths
        PROVE  sums[n] \in Int /\ sums[n] = local[t][n] + Uncommitted[t][n]
    <3>1. /\ local[t][n] \in Int /\ Uncommitted[t][n] \in Int
          /\ Uncommitted[t][n] = Sign * counts[t][n]
      BY <1>2, UncommittedType DEF TeamLedger
    <3>2. sums[n] = local[t][n] + Uncommitted[t][n]
      BY <3>1
    <3> HIDE DEF sums
    <3>3. QED
      BY <3>1, <3>2
  <2>2. QED
    BY <2>1
<1> HIDE DEF sums
<1>6. SumsTyped'
  <2>1. local' \in [Threads -> [Lengths -> Int]]
    BY <1>2, <1>5
  <2>2. QED
    BY <1>2, <2>1 DEF SumsTyped, TeamLedger
<1>7. ASSUME NEW n \in Lengths
      PROVE  Balanced(n)'
  <2> DEFINE f == Uncommitted
             h == Uncommitted'
             k == Uncommitted[t][n]
             l == local'
  <2>1. k \in Int /\ -k \in Int
    <3>1. k \in Int
      BY UncommittedType DEF TeamLedger
    <3> HIDE DEF k
    <3>2. QED
      BY <3>1
  <2>2. ASSUME NEW u \in Threads
        PROVE  f[u][n] \in Int /\ h[u][n] = IF u = t THEN f[u][n] + (-k) ELSE f[u][n]
    <3>1. f[u][n] \in Int /\ f[u][n] = IF Busy(u) THEN Sign * counts[u][n] ELSE 0
      BY UncommittedType DEF TeamLedger
    <3>2. h[u][n] = IF Busy(u)' THEN Sign * counts[u][n] ELSE 0
      BY <1>2, <1>3 DEF Uncommitted
    <3>3. CASE u = t
      <4>1. ~Busy(u)'
        BY <1>2, <3>3 DEF Busy
      <4>2. h[u][n] = 0 /\ f[u][n] = k
        BY <3>2, <3>3, <4>1
      <4> HIDE DEF k, f, h
      <4>3. QED
        BY <2>1, <3>3, <4>2
    <3>4. CASE u # t
      <4>1. Busy(u)' = Busy(u)
        BY <1>2, <3>4 DEF Busy
      <4>2. QED
        BY <3>1, <3>2, <3>4, <4>1
    <3>5. QED
      BY <3>3, <3>4
  <2>3. ASSUME NEW u \in Threads
        PROVE  local[u][n] \in Int /\ l[u][n] = IF u = t THEN local[u][n] + k ELSE local[u][n]
    <3>1. local[u][n] \in Int
      BY UncommittedType DEF TeamLedger
    <3>2. u = t => l[u][n] = local[u][n] + k
      BY <1>2, <1>5
    <3>3. u # t => l[u] = local[u]
      BY <1>2
    <3>4. QED
      BY <3>1, <3>2, <3>3
  <2>4. IsFiniteSet(Threads)
    BY RequestAssumption
  <2>5. Total(f, n) \in Int /\ Total(h, n) = Total(f, n) + (-k)
    <3> HIDE DEF f, h, k
    <3>1. QED
      BY <2>1, <2>2, <2>4, SumOfChanged, SMTT(30) DEF Total
  <2>6. Total(local, n) \in Int /\ Total(l, n) = Total(local, n) + k
    <3> DEFINE o == local
    <3>1. \A u \in Threads :
            o[u][n] \in Int /\ l[u][n] = IF u = t THEN o[u][n] + k ELSE o[u][n]
      BY <2>3
    <3> HIDE DEF l, k, o
    <3>2. Total(o, n) \in Int /\ Total(l, n) = Total(o, n) + k
      BY <2>1, <2>4, <3>1, SumOfChanged DEF Total
    <3>3. QED
      BY <3>2 DEF o
  <2> DEFINE c == Cardinality(OfLength(live, n))
             b == Cardinality(OfLength(before, n))
             s == Total(local, n)
             z == Total(l, n)
             p == delta[n]
             q == Total(f, n)
             r == Total(h, n)
  <2>7. b \in Nat /\ p \in Int
    BY LiveFinite, OfLengthFinite, TotalType DEF TeamLedger
  <2>8. c = b + s + p + q
    BY <1>2, LedgerBalanced DEF TeamLedger, Balanced
  <2>9. Balanced(n)' <=> c = b + z + p + r
    BY <1>2, <1>3 DEF Balanced
  <2>10. q \in Int /\ r = q + (-k) /\ s \in Int /\ z = s + k
    BY <2>5, <2>6
  <2> HIDE DEF c, b, s, z, p, q, r, k
  <2>11. c = b + z + p + r
    BY <2>1, <2>7, <2>8, <2>10
  <2>12. QED
    BY <2>9, <2>11
<1>8. (\A n \in Lengths : Balanced(n))'
  BY <1>7
<1>9. QED
  BY <1>1, <1>4, <1>6, <1>8, NextBalanced

\* With all through, nothing is uncommitted.
LEMMA OverTotals ==
  ASSUME SumsTyped, PhaseOver, NEW n \in Lengths
  PROVE  Total(Uncommitted, n) = 0 /\ Merged[n] = Total(local, n) + delta[n]
<1> DEFINE f == Uncommitted
<1>1. \A u \in Threads : f[u][n] = 0
  BY UncommittedType DEF PhaseOver
<1>2. IsFiniteSet(Threads)
  BY RequestAssumption
<1>3. Total(f, n) = 0
  <2> HIDE DEF f
  <2> QED BY <1>1, <1>2, SumOfZeros DEF Total
<1>4. QED
  BY <1>3, SumIsTotal DEF Merged

LEMMA MergedType ==
  ASSUME SumsTyped
  PROVE  Merged \in [Lengths -> Int]
<1>1. ASSUME NEW n \in Lengths
      PROVE  MapThenSumSet(LAMBDA t : local[t][n], Threads) + delta[n] \in Int
  <2>1. MapThenSumSet(LAMBDA t : local[t][n], Threads) = Total(local, n)
    BY SumIsTotal
  <2>2. Total(local, n) \in Int /\ delta[n] \in Int
    BY <1>1, TotalType
  <2>3. QED
    BY <2>1, <2>2
<1>2. QED
  BY <1>1 DEF Merged

\* Sums that are cleared when they have been merged.
Cleared == local' = [t \in Threads |-> NoCounts] /\ delta' = Merged

LEMMA ClearedSums ==
  ASSUME SumsTyped, PhaseOver, Cleared, counts' = counts
  PROVE  /\ SumsTyped'
         /\ \A n \in Lengths : Total(local', n) = 0 /\ delta'[n] = Total(local, n) + delta[n]
<1>1. NoCounts \in [Lengths -> Int] /\ \A n \in Lengths : NoCounts[n] = 0
  BY DEF NoCounts
<1>2. local' \in [Threads -> [Lengths -> Int]] /\ delta' \in [Lengths -> Int]
  BY <1>1, MergedType DEF Cleared
<1>3. ASSUME NEW n \in Lengths
      PROVE  Total(local', n) = 0 /\ delta'[n] = Total(local, n) + delta[n]
  <2> DEFINE l == local'
  <2>1. \A u \in Threads : l[u][n] = 0
    BY <1>1 DEF Cleared
  <2>2. IsFiniteSet(Threads)
    BY RequestAssumption
  <2>3. Total(l, n) = 0
    <3> HIDE DEF l
    <3> QED BY <2>1, <2>2, SumOfZeros DEF Total
  <2>4. delta'[n] = Total(local, n) + delta[n]
    BY <1>3, OverTotals DEF Cleared
  <2>5. QED
    BY <2>3, <2>4
<1>4. QED
  BY <1>2, <1>3 DEF SumsTyped

LEMMA TurnLedger ==
  ASSUME PhaseInv, TeamInv, Accounted(Rest), TeamLedger, EndDeletions
  PROVE  PhaseInv' /\ TeamInv' /\ Accounted(Rest)' /\ TeamLedger'
<1>1. PhaseInv' /\ TeamInv' /\ Accounted(Rest)'
  BY TurnStep
<1>2. /\ PhaseOver /\ Cleared /\ counts' = counts /\ live' = live /\ before' = before
      /\ owner' = owner /\ phase # "done"
  BY DEF EndDeletions, Cleared, input
<1>3. /\ SumsTyped'
      /\ \A n \in Lengths : Total(local', n) = 0 /\ delta'[n] = Total(local, n) + delta[n]
  BY <1>2, ClearedSums DEF TeamLedger
<1>4. ASSUME NEW n \in Lengths
      PROVE  Balanced(n)'
  <2> DEFINE h == Uncommitted'
             l == local'
  <2>1. \A u \in Threads : h[u][n] = 0
    BY <1>2 DEF Uncommitted, PhaseOver, Busy
  <2>2. IsFiniteSet(Threads)
    BY RequestAssumption
  <2>3. Total(h, n) = 0
    <3> HIDE DEF h
    <3> QED BY <2>1, <2>2, SumOfZeros DEF Total
  <2> DEFINE c == Cardinality(OfLength(live, n))
             b == Cardinality(OfLength(before, n))
             s == Total(local, n)
             p == delta[n]
  <2>4. b \in Nat /\ p \in Int /\ s \in Int
    BY LiveFinite, OfLengthFinite, TotalType DEF TeamLedger
  <2>5. c = b + s + p + 0
    BY <1>2, LedgerBalanced, OverTotals DEF TeamLedger, Balanced
  <2>6. Balanced(n)' <=> c = b + 0 + (s + p) + 0
    BY <1>2, <1>3, <2>3 DEF Balanced
  <2> HIDE DEF c, b, s, p
  <2>7. c = b + 0 + (s + p) + 0
    BY <2>4, <2>5
  <2>8. QED
    BY <2>6, <2>7
<1>5. (\A n \in Lengths : Balanced(n))'
  BY <1>4
<1>6. QED
  BY <1>1, <1>3, <1>5, NextBalanced

\* The result: no count is below zero, and the counts are those of the graph after
\* the batch.
LEMMA ReportLedger ==
  ASSUME PhaseInv, TeamInv, Accounted(Rest), TeamLedger, EndInsertions
  PROVE  /\ PhaseInv' /\ TeamInv' /\ Accounted(Rest)' /\ TeamLedger'
         /\ live = after /\ result' = HistogramOf(after, MaxLength)
<1>1. PhaseInv' /\ TeamInv' /\ Accounted(Rest)' /\ live = after
  BY ReportStep
<1>2. /\ PhaseOver /\ Cleared /\ counts' = counts /\ phase # "done" /\ phase' = "done"
      /\ result' = ApplyDelta(HistogramOf(before, MaxLength), Merged)
  BY DEF EndInsertions, Cleared
<1>3. TeamLedger'
  BY <1>2, ClearedSums DEF TeamLedger, LedgerExact
<1>4. ASSUME NEW n \in Lengths
      PROVE  /\ HistogramOf(before, MaxLength)[n] + Merged[n] = HistogramOf(after, MaxLength)[n]
             /\ HistogramOf(after, MaxLength)[n] \in Nat
  <2> DEFINE c == Cardinality(OfLength(live, n))
             b == Cardinality(OfLength(before, n))
             s == Total(local, n)
             p == delta[n]
             m == Merged[n]
  <2>1. b \in Nat /\ p \in Int /\ s \in Int /\ c \in Nat
    BY LiveFinite, OfLengthFinite, TotalType DEF TeamLedger
  <2>2. c = b + s + p + 0 /\ m = s + p
    BY <1>2, LedgerBalanced, OverTotals DEF TeamLedger, Balanced
  <2>3. HistogramOf(before, MaxLength)[n] = b /\ HistogramOf(after, MaxLength)[n] = c
    BY <1>1 DEF HistogramOf, Lengths
  <2> HIDE DEF c, b, s, p, m
  <2>4. b + m = c
    BY <2>1, <2>2
  <2>5. QED
    BY <2>1, <2>3, <2>4 DEF m
<1>5. result' = HistogramOf(after, MaxLength)
  <2> DEFINE base == HistogramOf(before, MaxLength)
             new == HistogramOf(after, MaxLength)
             d == Merged
  <2>1. new = [n \in Lengths |-> new[n]]
    BY DEF HistogramOf, Lengths
  <2>2. \A n \in Lengths : base[n] + d[n] = new[n] /\ new[n] \in Nat
    BY <1>4
  <2>3. result' = ApplyDelta(base, d)
    BY <1>2
  <2> HIDE DEF base, new, d
  <2>4. ~(\E n \in Lengths : base[n] + d[n] < 0)
    BY <2>2
  <2>5. [n \in Lengths |-> base[n] + d[n]] = [n \in Lengths |-> new[n]]
    BY <2>2
  <2>6. QED
    BY <2>1, <2>3, <2>4, <2>5 DEF ApplyDelta, new
<1>6. QED
  BY <1>1, <1>3, <1>5

-----------------------------------------------------------------------------
(***************************************************************************)
(* The invariant is inductive.                                             *)
(***************************************************************************)
UpdateInv == PhaseInv /\ TeamInv /\ Accounted(Rest) /\ TeamLedger

\* Before the first change nothing is found: what is left is what the phase drops.
LEMMA FreshAccount ==
  ASSUME PhaseInv, phase = "delete", next = 1, live = before
  PROVE  Accounted(Rest)
<1>1. /\ Left(Changes, Rest) = {c \in Cycles(graph, MaxLength) : ~Untouched(Changes, c)}
      /\ Cycles(graph, MaxLength) = before
      /\ between = {c \in before : Untouched(Changes, c)}
  BY FreshLeft, LiveCycles
<1>2. QED
  BY <1>1 DEF Accounted

LEMMA InvInit == Init => UpdateInv
<1> SUFFICES ASSUME Init
             PROVE  UpdateInv
  OBVIOUS
<1>1. PhaseInv
  BY InputInit DEF Init, PhaseInv
<1>2. TeamInv
  <2>1. Idle(next, owner, calls, visited)
    <3>1. <<>> \in Seq(Frames) /\ {} \in SUBSET V /\ 0 \in Nat
      OBVIOUS
    <3>2. QED
      BY <3>1 DEF Init, Idle
  <2>2. QED
    BY <1>1, <2>1, IdleTeam, PhaseFacts
<1>3. Accounted(Rest)
  BY <1>1, FreshAccount DEF Init
<1>4. /\ SumsTyped /\ live = before /\ phase = "delete"
      /\ \A u \in Threads, n \in Lengths : local[u][n] = 0 /\ Uncommitted[u][n] = 0
      /\ \A n \in Lengths : delta[n] = 0
  <2>1. NoCounts \in [Lengths -> Nat] /\ \A n \in Lengths : NoCounts[n] = 0
    BY DEF NoCounts
  <2>2. NoCounts \in [Lengths -> Int]
    BY <2>1
  <2>3. SumsTyped /\ \A n \in Lengths : delta[n] = 0
    BY <2>1, <2>2 DEF Init, SumsTyped
  <2>4. \A u \in Threads, n \in Lengths : local[u][n] = 0 /\ Uncommitted[u][n] = 0
    BY <2>1 DEF Init, Uncommitted, Busy
  <2>5. QED
    BY <2>3, <2>4 DEF Init
<1>5. ASSUME NEW n \in Lengths
      PROVE  Balanced(n)
  <2> DEFINE f == Uncommitted
             l == local
             b == Cardinality(OfLength(before, n))
  <2>1. \A u \in Threads : f[u][n] = 0 /\ l[u][n] = 0
    BY <1>4
  <2>2. Total(f, n) = 0 /\ Total(l, n) = 0
    <3>1. IsFiniteSet(Threads)
      BY RequestAssumption
    <3> HIDE DEF f, l
    <3>2. QED
      BY <2>1, <3>1, SumOfZeros DEF Total
  <2>3. b \in Nat /\ delta[n] = 0 /\ live = before
    BY <1>1, <1>3, <1>4, LiveFinite, OfLengthFinite
  <2>4. Balanced(n) <=> b = b + Total(l, n) + delta[n] + Total(f, n)
    BY <2>3 DEF Balanced
  <2> HIDE DEF b, f, l
  <2>5. QED
    BY <2>2, <2>3, <2>4
<1>6. TeamLedger
  BY <1>1, <1>3, <1>4, <1>5, LedgerBalanced DEF TeamLedger
<1>7. QED
  BY <1>1, <1>2, <1>3, <1>6 DEF UpdateInv

LEMMA InvIdle ==
  ASSUME UpdateInv, UNCHANGED vars
  PROVE  UpdateInv'
<1>1. Changes' = Changes /\ phase' = phase /\ next' = next /\ owner' = owner /\ calls' = calls
  BY DEF vars, input, Changes
<1>2. PhaseInv'
  BY DEF UpdateInv, PhaseInv, InputSound, Changed, vars, input
<1>3. TeamInv'
  BY <1>1, SMTT(30) DEF UpdateInv, TeamInv, vars, Busy, Depth, Holds
<1>4. Accounted(Rest)'
  BY <1>1 DEF UpdateInv, Accounted, Rest, vars, input
<1>5. SumsTyped' /\ Uncommitted' = Uncommitted
  BY DEF UpdateInv, TeamLedger, SumsTyped, vars, Uncommitted, Busy, Sign
<1>6. phase # "done" => \A n \in Lengths : Balanced(n)
  BY LedgerBalanced DEF UpdateInv, TeamLedger
<1> DEFINE u == Uncommitted
<1>7. \A n \in Lengths : Balanced(n) <=>
        Cardinality(OfLength(live, n)) =
          Cardinality(OfLength(before, n)) + Total(local, n) + delta[n] + Total(u, n)
  BY DEF Balanced
<1>8. \A n \in Lengths : Balanced(n)' <=>
        Cardinality(OfLength(live', n)) =
          Cardinality(OfLength(before', n)) + Total(local', n) + delta'[n] + Total(u', n)
  BY DEF Balanced
<1>9. u' = u /\ live' = live /\ before' = before /\ local' = local /\ delta' = delta
  BY <1>5 DEF vars, input
<1> HIDE DEF u
<1>10. (phase # "done" => \A n \in Lengths : Balanced(n))'
  BY <1>1, <1>6, <1>7, <1>8, <1>9
<1>11. (LedgerExact <=> (phase # "done" => \A n \in Lengths : Balanced(n)))'
  BY <1>2, <1>4, <1>5, LedgerBalanced, PTL
<1>12. LedgerExact'
  BY <1>10, <1>11
<1>13. QED
  BY <1>2, <1>3, <1>4, <1>5, <1>12 DEF UpdateInv, TeamLedger

LEMMA InvNext ==
  ASSUME UpdateInv, [Next]_vars
  PROVE  UpdateInv'
<1> USE DEF UpdateInv
<1>1. ASSUME NEW t \in Threads, Claim(t)
      PROVE  UpdateInv'
  BY <1>1, ClaimLedger
<1>2. ASSUME NEW t \in Threads, Close(t)
      PROVE  UpdateInv'
  BY <1>2, CloseLedger, CloseStep
<1>3. ASSUME NEW t \in Threads, Skip(t) \/ Descend(t) \/ Backtrack(t)
      PROVE  UpdateInv'
  BY <1>3, QuietLedger
<1>4. ASSUME NEW t \in Threads, Finish(t)
      PROVE  UpdateInv'
  BY <1>4, FinishLedger
<1>5. CASE EndDeletions
  BY <1>5, TurnLedger
<1>6. CASE EndInsertions
  BY <1>6, ReportLedger
<1>7. CASE UNCHANGED vars
  BY <1>7, InvIdle
<1>8. QED
  BY <1>1, <1>2, <1>3, <1>4, <1>5, <1>6, <1>7 DEF Next, Thread, Returned

\* The invariant of the update of a team of threads: each search goes along a simple
\* path from its change, by edges of no earlier one, and with what it has still to
\* come to, the cycles accounted for are those of the graph in between.
THEOREM UpdateInvariant == Spec => []UpdateInv
<1>1. Init => UpdateInv
  BY InvInit
<1>2. UpdateInv /\ [Next]_vars => UpdateInv'
  BY InvNext
<1>3. QED
  BY <1>1, <1>2, PTL DEF Spec

-----------------------------------------------------------------------------
(***************************************************************************)
(* What follows.                                                           *)
(***************************************************************************)
\* A set of d vertices, named each once, has d elements.
LEMMA DistinctVertices ==
  ASSUME NEW d \in Nat, NEW frames,
         \A a, b \in 1..d : a # b => frames[a].vertex # frames[b].vertex
  PROVE  /\ IsFiniteSet({frames[a].vertex : a \in 1..d})
         /\ Cardinality({frames[a].vertex : a \in 1..d}) = d
<1> DEFINE T == {frames[a].vertex : a \in 1..d}
           f == [a \in 1..d |-> frames[a].vertex]
<1>1. IsFiniteSet(1..d) /\ Cardinality(1..d) = d
  BY FS_Interval
<1>2. f \in Bijection(1..d, T)
  <2>1. f \in [1..d -> T]
    OBVIOUS
  <2>2. \A v \in T : \E a \in 1..d : f[a] = v
    OBVIOUS
  <2>3. \A a, b \in 1..d : f[a] = f[b] => a = b
    OBVIOUS
  <2> HIDE DEF f, T
  <2>4. IsInjective(f)
    BY <2>1, <2>3 DEF IsInjective
  <2>5. QED
    BY <2>1, <2>2, <2>4 DEF Bijection, Injection, Surjection
<1> HIDE DEF f, T
<1>3. ExistsBijection(1..d, T)
  BY <1>2 DEF ExistsBijection
<1>4. IsFiniteSet(T) /\ Cardinality(T) = d
  BY <1>1, <1>3, FS_Bijection
<1>5. QED
  BY <1>4 DEF T

LEMMA TeamVisited ==
  ASSUME PhaseInv, TeamInv
  PROVE  VisitedRestored
<1>1. ASSUME NEW t \in Threads, ~Busy(t)
      PROVE  visited[t] = {}
  BY <1>1 DEF TeamInv
<1>2. ASSUME NEW t \in Threads, Busy(t)
      PROVE  /\ visited[t] = ToSet(Anchor(t)) \cup {calls[t][i].vertex : i \in 1..Depth(t)}
             /\ Cardinality(visited[t]) = Depth(t) + 1
  <2> DEFINE d == Depth(t)
             P == {calls[t][a].vertex : a \in 1..d}
             s == Changes[owner[t]][1]
  <2>1. /\ owner[t] \in 1..Len(Changes) /\ d \in Nat \ {0}
        /\ Searching(graph, Changes, owner[t], calls[t], d)
        /\ visited[t] = {s} \cup P /\ Anchor(t) = Changes[owner[t]]
    BY <1>2, BusyShape DEF Holds
  <2>2. ToSet(Anchor(t)) = {s, Changes[owner[t]][2]}
    BY <2>1, PhaseFacts
  <2>3. /\ calls[t][1].vertex = Changes[owner[t]][2]
        /\ \A a \in 1..d : calls[t][a].vertex # s
        /\ \A a, b \in 1..d : a # b => calls[t][a].vertex # calls[t][b].vertex
    BY <2>1 DEF Searching
  <2>4. 1 \in 1..d /\ d \in Nat
    BY <2>1
  <2>5. Changes[owner[t]][2] \in P /\ s \notin P
    BY <2>3, <2>4
  <2>6. IsFiniteSet(P) /\ Cardinality(P) = d
    <3> DEFINE fr == calls[t]
    <3>1. \A a, b \in 1..d : a # b => fr[a].vertex # fr[b].vertex
      BY <2>3
    <3>2. IsFiniteSet({fr[a].vertex : a \in 1..d}) /\ Cardinality({fr[a].vertex : a \in 1..d}) = d
      <4> HIDE DEF fr, d
      <4> QED BY <2>4, <3>1, DistinctVertices
    <3>3. QED
      BY <3>2
  <2> HIDE DEF P, s, d
  <2>7. Cardinality(P \cup {s}) = d + 1
    BY <2>5, <2>6, FS_AddElement
  <2>8. {s} \cup P = P \cup {s} /\ visited[t] = ToSet(Anchor(t)) \cup P
    BY <2>1, <2>2, <2>5
  <2>9. QED
    BY <2>1, <2>7, <2>8 DEF P, d
<1>3. QED
  BY <1>1, <1>2 DEF VisitedRestored

\* A thread's buffer is empty between its changes, and holds the edge and the path,
\* each vertex once, while it searches.
THEOREM VisitedRestoredAlways == Spec => []VisitedRestored
<1>1. UpdateInv => VisitedRestored
  BY TeamVisited DEF UpdateInv
<1>2. QED
  BY <1>1, UpdateInvariant, PTL

\* The sums spread over the team and the delta are at any time the difference that
\* the cycles accounted for make.
THEOREM LedgerExactAlways == Spec => []LedgerExact
<1>1. UpdateInv => LedgerExact
  BY DEF UpdateInv, TeamLedger
<1>2. QED
  BY <1>1, UpdateInvariant, PTL

LEMMA AbstractNext ==
  ASSUME UpdateInv, [Next]_vars
  PROVE  Abstract!Next \/ UNCHANGED Abstract!vars
<1>1. ASSUME NEW t \in Threads, Close(t)
      PROVE  Abstract!Next
  <2> DEFINE c == Found(t)
  <2>1. /\ Working /\ phase # "done" /\ result' = result
        /\ live' = IF phase = "delete" THEN live \ {c} ELSE live \cup {c}
    BY <1>1 DEF Close, Working, input, UpdateInv, TeamInv
  <2>2. /\ c \in Left(Changes, Rest)
        /\ Left(Changes, Rest') = Left(Changes, Rest) \ {c}
    BY <1>1, CloseStep DEF UpdateInv
  <2>3. /\ phase = "delete" => c \in live \ between
        /\ phase = "insert" => c \in after \ live
    BY <2>1, <2>2, FoundAccount DEF UpdateInv
  <2>4. phase = "delete" \/ phase = "insert"
    BY <2>1 DEF UpdateInv, PhaseInv
  <2> HIDE DEF c
  <2>5. Abstract!input' = Abstract!input /\ phase' = phase
    BY <2>1 DEF Working, Abstract!input
  <2>6. CASE phase = "delete"
    BY <2>1, <2>3, <2>5, <2>6 DEF Abstract!Next, Abstract!Drop
  <2>7. CASE phase = "insert"
    BY <2>1, <2>3, <2>5, <2>7 DEF Abstract!Next, Abstract!Add
  <2>8. QED
    BY <2>4, <2>6, <2>7
<1>2. CASE EndDeletions
  <2>1. live = between
    BY <1>2, TurnStep DEF UpdateInv
  <2>2. QED
    BY <1>2, <2>1 DEF EndDeletions, input, Abstract!Next, Abstract!Turn, Abstract!input
<1>3. CASE EndInsertions
  <2>1. live = after /\ result' = HistogramOf(after, MaxLength)
    BY <1>3, ReportLedger DEF UpdateInv
  <2>2. QED
    BY <1>3, <2>1 DEF EndInsertions, input, Abstract!Next, Abstract!Report, Abstract!input
<1>4. ASSUME ~EndDeletions, ~EndInsertions, \A t \in Threads : ~Close(t)
      PROVE  UNCHANGED Abstract!vars
  BY <1>4 DEF Next, Thread, Claim, Skip, Descend, Backtrack, Finish, Returned, vars, input,
              Abstract!vars, Abstract!input
<1>5. QED
  BY <1>1, <1>2, <1>3, <1>4

\* The team implements HistogramUpdate: whatever the scheduling, each cycle that only
\* the one graph has is dropped, or added, once, and the histogram returned is that
\* of the graph after the batch; it is never the logic error.
THEOREM UpdateImplementsRecompute == Spec => UpdateIsRecompute
<1>1. Init => Abstract!Init
  BY DEF Init, Abstract!Init
<1>2. UpdateInv /\ [Next]_vars => [Abstract!Next]_(Abstract!vars)
  BY AbstractNext
<1>3. QED
  BY <1>1, <1>2, UpdateInvariant, PTL DEF Spec, UpdateIsRecompute, Abstract!Spec

-----------------------------------------------------------------------------
(***************************************************************************)
(* The binary search of a sorted list.                                     *)
(***************************************************************************)
Ranges(ch) == (1..(Len(ch) + 1)) \X (0..Len(ch))

\* One look at the middle of a range.
Look(ch, e, found, range) ==
  LET mid == (range[1] + range[2]) \div 2
  IN  IF range[1] > range[2] THEN 0
      ELSE IF SmallerEdge(ch[mid], e) THEN found[<<mid + 1, range[2]>>]
      ELSE IF SmallerEdge(e, ch[mid]) THEN found[<<range[1], mid - 1>>]
      ELSE mid

Search(ch, e) == CHOOSE found : found = [range \in Ranges(ch) |-> Look(ch, e, found, range)]

\* Where the edge is in the list.
Places(ch, e, low, high) == {i \in low..high : ch[i] = e}

PlaceIn(S) == IF S = {} THEN 0 ELSE Pick(S)

LEMMA EdgesOrdered ==
  ASSUME NEW e \in V \X V, NEW f \in V \X V, NEW h \in V \X V
  PROVE  /\ ~SmallerEdge(e, e)
         /\ e # f => SmallerEdge(e, f) \/ SmallerEdge(f, e)
         /\ SmallerEdge(e, f) /\ SmallerEdge(f, h) => SmallerEdge(e, h)
<1>1. /\ e[1] \in Int /\ e[2] \in Int /\ f[1] \in Int /\ f[2] \in Int /\ h[1] \in Int /\ h[2] \in Int
      /\ e = <<e[1], e[2]>> /\ f = <<f[1], f[2]>>
  BY DEF V
<1>2. e # f => e[1] # f[1] \/ e[2] # f[2]
  BY <1>1
<1>3. QED
  BY <1>1, <1>2 DEF SmallerEdge

\* The middle of a range that is not empty.
IsMiddle(ch, low, high, mid) ==
  /\ low \in 1..(Len(ch) + 1) /\ high \in 0..Len(ch) /\ low <= high
  /\ mid = (low + high) \div 2

\* Looking there leaves the places of the edge in the half that is searched next.
LEMMA LookHalves ==
  ASSUME NEW g, NEW ch, IsChangeList(g, ch), NEW e, e \in V \X V,
         NEW low, NEW high, NEW mid, IsMiddle(ch, low, high, mid)
  PROVE  /\ mid \in low..high /\ mid \in 1..Len(ch) /\ mid \in Nat
         /\ SmallerEdge(ch[mid], e) => Places(ch, e, low, high) = Places(ch, e, mid + 1, high)
         /\ SmallerEdge(e, ch[mid]) => Places(ch, e, low, high) = Places(ch, e, low, mid - 1)
         /\ ~SmallerEdge(ch[mid], e) /\ ~SmallerEdge(e, ch[mid])
              => Places(ch, e, low, high) = {mid}
<1>1. /\ Len(ch) \in Nat /\ \A i \in 1..Len(ch) : ch[i] \in V \X V
      /\ low \in 1..(Len(ch) + 1) /\ high \in 0..Len(ch) /\ low <= high
      /\ mid = (low + high) \div 2
  BY LenProperties, ElementOfSeq DEF IsChangeList, IsMiddle
<1>2. \A i, j \in 1..Len(ch) : SmallerEdge(ch[i], ch[j]) <=> i < j
  BY DEF IsChangeList
<1>3. mid \in low..high /\ mid \in 1..Len(ch) /\ mid \in Nat /\ low \in Nat /\ high \in Nat
  BY <1>1
<1>4. \A i \in low..high : i \in 1..Len(ch) /\ (i < mid \/ i = mid \/ i > mid)
  BY <1>1, <1>3
<1>5. ASSUME SmallerEdge(ch[mid], e), NEW i \in low..high, ch[i] = e
      PROVE  i \in (mid + 1)..high
  <2>1. mid < i
    BY <1>2, <1>3, <1>4, <1>5
  <2>2. QED
    BY <1>3, <2>1
<1>6. ASSUME SmallerEdge(e, ch[mid]), NEW i \in low..high, ch[i] = e
      PROVE  i \in low..(mid - 1)
  <2>1. i < mid
    BY <1>2, <1>3, <1>4, <1>6
  <2>2. QED
    BY <1>3, <2>1
<1>7. ASSUME ~SmallerEdge(ch[mid], e), ~SmallerEdge(e, ch[mid])
      PROVE  Places(ch, e, low, high) = {mid}
  <2>1. ch[mid] = e
    BY <1>1, <1>3, <1>7, EdgesOrdered
  <2>2. \A i \in low..high : ch[i] = e => i = mid
    BY <1>2, <1>3, <1>4, <1>7, <2>1
  <2>3. QED
    BY <1>3, <2>1, <2>2 DEF Places
<1>8. \A i \in (mid + 1)..high : i \in low..high
  BY <1>3
<1>9. \A i \in low..(mid - 1) : i \in low..high
  BY <1>3
<1>10. SmallerEdge(ch[mid], e) => Places(ch, e, low, high) = Places(ch, e, mid + 1, high)
  BY <1>5, <1>8 DEF Places
<1>11. SmallerEdge(e, ch[mid]) => Places(ch, e, low, high) = Places(ch, e, low, mid - 1)
  BY <1>6, <1>9 DEF Places
<1>12. QED
  BY <1>3, <1>7, <1>10, <1>11

\* The function that knows the places satisfies the equation of the search.
Known(ch, e) == [range \in Ranges(ch) |-> PlaceIn(Places(ch, e, range[1], range[2]))]

LEMMA KnownLooks ==
  ASSUME NEW g, NEW ch, IsChangeList(g, ch), NEW e \in V \X V, NEW range \in Ranges(ch)
  PROVE  Known(ch, e)[range] = Look(ch, e, Known(ch, e), range)
<1> DEFINE low == range[1]
           high == range[2]
           mid == (low + high) \div 2
           h == Known(ch, e)
<1>1. low \in 1..(Len(ch) + 1) /\ high \in 0..Len(ch) /\ Len(ch) \in Nat
  BY LenProperties DEF Ranges, IsChangeList
<1>2. h[range] = PlaceIn(Places(ch, e, low, high))
  BY DEF Known
<1>3. CASE low > high
  <2>1. low..high = {}
    BY <1>1, <1>3
  <2>2. Places(ch, e, low, high) = {}
    BY <2>1 DEF Places
  <2>3. QED
    BY <1>2, <1>3, <2>2 DEF Look, PlaceIn
<1>4. CASE ~(low > high)
  <2>1. low <= high
    BY <1>1, <1>4
  <2>2. /\ mid \in low..high /\ mid \in 1..Len(ch) /\ mid \in Nat
        /\ SmallerEdge(ch[mid], e) => Places(ch, e, low, high) = Places(ch, e, mid + 1, high)
        /\ SmallerEdge(e, ch[mid]) => Places(ch, e, low, high) = Places(ch, e, low, mid - 1)
        /\ ~SmallerEdge(ch[mid], e) /\ ~SmallerEdge(e, ch[mid])
             => Places(ch, e, low, high) = {mid}
    <3>1. IsMiddle(ch, low, high, mid)
      BY <1>1, <2>1 DEF IsMiddle
    <3> HIDE DEF low, high, mid
    <3>2. QED
      BY <3>1, LookHalves
  <2>3. Look(ch, e, h, range) =
          IF SmallerEdge(ch[mid], e) THEN h[<<mid + 1, high>>]
          ELSE IF SmallerEdge(e, ch[mid]) THEN h[<<low, mid - 1>>]
          ELSE mid
    BY <1>4 DEF Look
  <2>4. <<mid + 1, high>> \in Ranges(ch) /\ <<low, mid - 1>> \in Ranges(ch)
    <3>1. mid + 1 \in 1..(Len(ch) + 1) /\ mid - 1 \in 0..Len(ch)
      <4> HIDE DEF mid
      <4> QED BY <1>1, <2>2
    <3> HIDE DEF low, high, mid
    <3>2. QED
      BY <1>1, <3>1 DEF Ranges
  <2> HIDE DEF mid, low, high
  <2>5. /\ h[<<mid + 1, high>>] = PlaceIn(Places(ch, e, mid + 1, high))
        /\ h[<<low, mid - 1>>] = PlaceIn(Places(ch, e, low, mid - 1))
    BY <2>4 DEF Known
  <2>6. PlaceIn({mid}) = mid
    BY PickFrom DEF PlaceIn
  <2> HIDE DEF h
  <2>7. h[range] = Look(ch, e, h, range)
    BY <1>2, <2>2, <2>3, <2>5, <2>6
  <2>8. QED
    BY <2>7 DEF h
<1>5. QED
  BY <1>3, <1>4

\* So does the search; and there is no other function that does.
LEMMA SearchLooks ==
  ASSUME NEW g, NEW ch, IsChangeList(g, ch), NEW e \in V \X V
  PROVE  /\ Search(ch, e) = [range \in Ranges(ch) |-> Look(ch, e, Search(ch, e), range)]
         /\ \A range \in Ranges(ch) : Search(ch, e)[range] = Look(ch, e, Search(ch, e), range)
<1> DEFINE h == Known(ch, e)
<1>1. \A range \in Ranges(ch) : h[range] = Look(ch, e, h, range)
  BY KnownLooks
<1>2. h = [range \in Ranges(ch) |-> h[range]]
  BY DEF Known
<1> HIDE DEF h
<1>3. h = [range \in Ranges(ch) |-> Look(ch, e, h, range)]
  BY <1>1, <1>2
<1>4. \E found : found = [range \in Ranges(ch) |-> Look(ch, e, found, range)]
  BY <1>3
<1>5. Search(ch, e) = [range \in Ranges(ch) |-> Look(ch, e, Search(ch, e), range)]
  BY <1>4 DEF Search
<1> DEFINE s == Search(ch, e)
<1>6. \A range \in Ranges(ch) : s[range] = Look(ch, e, s, range)
  <2>1. s = [range \in Ranges(ch) |-> Look(ch, e, s, range)]
    BY <1>5
  <2> HIDE DEF s
  <2>2. QED
    BY <2>1
<1>7. QED
  BY <1>5, <1>6

\* Two searches that agree on all smaller ranges agree on this one.
Agree(ch, s, h, n) ==
  \A range \in Ranges(ch) : range[2] - range[1] < n => s[range] = h[range]

LEMMA LookSame ==
  ASSUME NEW g, NEW ch, IsChangeList(g, ch), NEW e, e \in V \X V,
         NEW range, range \in Ranges(ch), NEW n, n \in Nat, ~(range[2] - range[1] > n),
         NEW s, NEW h, Agree(ch, s, h, n)
  PROVE  Look(ch, e, s, range) = Look(ch, e, h, range)
<1> DEFINE low == range[1]
           high == range[2]
           mid == (low + high) \div 2
<1>1. low \in 1..(Len(ch) + 1) /\ high \in 0..Len(ch) /\ Len(ch) \in Nat
  BY LenProperties DEF Ranges, IsChangeList
<1>2. CASE low > high
  BY <1>2 DEF Look
<1>3. CASE ~(low > high)
  <2>1. IsMiddle(ch, low, high, mid)
    BY <1>1, <1>3 DEF IsMiddle
  <2>2. mid \in low..high /\ mid \in 1..Len(ch) /\ mid \in Nat
    <3> HIDE DEF low, high, mid
    <3> QED BY <2>1, LookHalves
  <2>3. \A f : Look(ch, e, f, range) =
          IF SmallerEdge(ch[mid], e) THEN f[<<mid + 1, high>>]
          ELSE IF SmallerEdge(e, ch[mid]) THEN f[<<low, mid - 1>>]
          ELSE mid
    BY <1>3 DEF Look
  <2>4. high - low <= n
    BY <1>1
  <2> HIDE DEF low, high, mid
  <2>5. /\ <<mid + 1, high>> \in Ranges(ch) /\ high - (mid + 1) < n
        /\ <<low, mid - 1>> \in Ranges(ch) /\ (mid - 1) - low < n
    BY <1>1, <2>2, <2>4 DEF Ranges
  <2>6. s[<<mid + 1, high>>] = h[<<mid + 1, high>>] /\ s[<<low, mid - 1>>] = h[<<low, mid - 1>>]
    BY <2>5 DEF Agree
  <2>7. QED
    BY <2>3, <2>6
<1>4. QED
  BY <1>2, <1>3

\* The search of a range finds where the edge is in it.
LEMMA SearchFinds ==
  ASSUME NEW g, NEW ch, IsChangeList(g, ch), NEW e, e \in V \X V
  PROVE  \A range \in Ranges(ch) : Search(ch, e)[range] = Known(ch, e)[range]
<1> DEFINE s == Search(ch, e)
           h == Known(ch, e)
           Good == {n \in Nat : Agree(ch, s, h, n)}
<1>1. \A range \in Ranges(ch) : /\ s[range] = Look(ch, e, s, range)
                                /\ h[range] = Look(ch, e, h, range)
  BY SearchLooks, KnownLooks
<1>2. \A range \in Ranges(ch) : range[1] \in 1..(Len(ch) + 1) /\ range[2] \in 0..Len(ch)
  BY DEF Ranges
<1>3. Len(ch) \in Nat
  BY LenProperties DEF IsChangeList
<1> HIDE DEF s, h
<1>4. 0 \in Good
  <2>1. ASSUME NEW range \in Ranges(ch), range[2] - range[1] < 0
        PROVE  s[range] = h[range]
    <3>1. range[1] > range[2]
      BY <1>2, <1>3, <2>1
    <3>2. QED
      BY <1>1, <3>1 DEF Look
  <2>2. QED
    BY <2>1 DEF Agree
<1>5. ASSUME NEW n \in Nat, n \in Good
      PROVE  n + 1 \in Good
  <2>1. ASSUME NEW range \in Ranges(ch), range[2] - range[1] < n + 1
        PROVE  s[range] = h[range]
    <3>1. ~(range[2] - range[1] > n)
      BY <1>2, <1>3, <2>1
    <3>2. Agree(ch, s, h, n)
      BY <1>5
    <3>3. Look(ch, e, s, range) = Look(ch, e, h, range)
      BY <3>1, <3>2, LookSame
    <3>4. QED
      BY <1>1, <3>3
  <2>2. QED
    BY <2>1 DEF Agree
<1>6. \A n \in Nat : n \in Good
  <2> HIDE DEF Good
  <2> QED BY <1>4, <1>5, NatSetInduction
<1>7. ASSUME NEW range \in Ranges(ch)
      PROVE  s[range] = h[range]
  <2>1. /\ Len(ch) + 1 \in Nat /\ range[2] - range[1] < Len(ch) + 1
    BY <1>2, <1>3
  <2>2. Agree(ch, s, h, Len(ch) + 1)
    BY <1>6, <2>1
  <2>3. QED
    BY <2>1, <2>2 DEF Agree
<1>8. QED
  BY <1>7 DEF s, h

\* find_change finds an edge among the changes, with the index of the change.
LEMMA FindsChange ==
  ASSUME PhaseInv, NEW v, v \in V, NEW w, w \in V
  PROVE  FindChange(v, w) =
           IF \E i \in 1..Len(Changes) : Changes[i] = <<v, w>>
           THEN CHOOSE i \in 1..Len(Changes) : Changes[i] = <<v, w>>
           ELSE 0
<1> DEFINE e == <<v, w>>
           s == Search(Changes, e)
           all == <<1, Len(Changes)>>
<1>1. IsChangeList(graph, Changes) /\ Len(Changes) \in Nat
  BY PhaseFacts
<1>2. FindChange(v, w) = s[all]
  BY DEF FindChange, Search, Look, Ranges
<1>3. e \in V \X V /\ all \in Ranges(Changes)
  BY <1>1 DEF Ranges
<1>4. s[all] = Known(Changes, e)[all]
  <2> HIDE DEF e, all
  <2> QED BY <1>1, <1>3, SearchFinds
<1>5. Known(Changes, e)[all] = PlaceIn(Places(Changes, e, 1, Len(Changes)))
  BY <1>3 DEF Known
<1>6. QED
  BY <1>2, <1>4, <1>5 DEF PlaceIn, Places, Pick

LEMMA OwnedBeforeSame ==
  ASSUME PhaseInv, NEW v, v \in V, NEW w, w \in V, NEW work, work \in 1..Len(Changes)
  PROVE  FindChange(v, w) \in 1..(work - 1) <=> Forbidden(Changes, work, v, w)
<1> DEFINE At1(i) == Changes[i] = <<v, w>>
           n == Len(Changes)
<1>1. n \in Nat /\ \A i, j \in 1..n : i # j => Changes[i] # Changes[j]
  BY PhaseFacts, ChangeFacts
<1>2. \A i, j \in 1..n : At1(i) /\ At1(j) => i = j
  BY <1>1
<1>3. FindChange(v, w) = IF \E i \in 1..n : At1(i) THEN CHOOSE i \in 1..n : At1(i) ELSE 0
  BY FindsChange
<1>4. Forbidden(Changes, work, v, w) <=> \E j \in 1..(work - 1) : At1(j)
  BY DEF Forbidden
<1> HIDE DEF At1, n
<1>5. work \in 1..n
  BY DEF n
<1>6. \A j \in 1..(work - 1) : j \in 1..n
  BY <1>1, <1>5
<1>7. CASE \E i \in 1..n : At1(i)
  <2>1. FindChange(v, w) \in 1..n /\ At1(FindChange(v, w))
    BY <1>3, <1>7
  <2>2. QED
    BY <1>2, <1>4, <1>6, <2>1
<1>8. CASE ~\E i \in 1..n : At1(i)
  <2>1. FindChange(v, w) = 0
    BY <1>3, <1>8
  <2>2. QED
    BY <1>4, <1>6, <1>8, <2>1
<1>9. QED
  BY <1>7, <1>8

-----------------------------------------------------------------------------
(***************************************************************************)
(* The slices of the pools.                                                *)
(***************************************************************************)
LEMMA ProductStep ==
  ASSUME NEW a \in Int, NEW b \in Int, NEW m \in Nat, a < b
  PROVE  a * m \in Int /\ b * m \in Int /\ a * m + m <= b * m
<1>1. b - a - 1 \in Nat
  OBVIOUS
<1>2. \A k \in Nat : k * m >= 0
  OBVIOUS
<1>3. (b - a - 1) * m >= 0
  BY <1>1, <1>2
<1>4. (b - a - 1) * m = b * m - a * m - m
  OBVIOUS
<1>5. QED
  BY <1>3, <1>4

\* Slices of m slots each: a slot is in the pool, and in one slice.
LEMMA SlotFacts ==
  ASSUME NEW m, m \in Nat \ {0}, NEW n, n \in Nat
  PROVE  /\ \A w \in 1..n, x \in 0..(m - 1) : (w - 1) * m + x \in 0..(n * m - 1)
         /\ \A w, u \in 1..n, x, y \in 0..(m - 1) :
              (w - 1) * m + x = (u - 1) * m + y => w = u /\ x = y
<1>1. ASSUME NEW w \in 1..n, NEW x \in 0..(m - 1)
      PROVE  (w - 1) * m + x \in 0..(n * m - 1)
  <2>1. (w - 1) * m \in Int /\ n * m \in Int /\ (w - 1) * m + m <= n * m
    BY ProductStep
  <2>2. (w - 1) * m >= 0
    OBVIOUS
  <2> DEFINE a == (w - 1) * m
             b == n * m
  <2>3. a \in Int /\ b \in Int /\ a + m <= b /\ a >= 0
    BY <2>1, <2>2
  <2> HIDE DEF a, b
  <2>4. a + x \in 0..(b - 1)
    BY <2>3
  <2>5. QED
    BY <2>4 DEF a, b
<1>2. ASSUME NEW w \in 1..n, NEW u \in 1..n, NEW x \in 0..(m - 1), NEW y \in 0..(m - 1), w < u
      PROVE  (w - 1) * m + x < (u - 1) * m + y
  <2> DEFINE a == (w - 1) * m
             b == (u - 1) * m
  <2>1. a \in Int /\ b \in Int /\ a + m <= b
    BY <1>2, ProductStep
  <2> HIDE DEF a, b
  <2>2. a + x < b + y
    BY <2>1
  <2>3. QED
    BY <2>2 DEF a, b
<1>3. ASSUME NEW w \in 1..n, NEW u \in 1..n, NEW x \in 0..(m - 1), NEW y \in 0..(m - 1),
             (w - 1) * m + x = (u - 1) * m + y
      PROVE  w = u /\ x = y
  <2> DEFINE a == (w - 1) * m
             b == (u - 1) * m
  <2>1. a \in Int /\ b \in Int /\ a + x = b + y
    BY <1>3
  <2>2. ~(w < u) /\ ~(u < w)
    <3>1. w < u => a + x < b + y
      BY <1>2
    <3>2. u < w => b + y < a + x
      BY <1>2
    <3> HIDE DEF a, b
    <3>3. QED
      BY <2>1, <3>1, <3>2
  <2>3. w = u
    BY <2>2
  <2>4. a = b
    BY <2>3
  <2> HIDE DEF a, b
  <2>5. QED
    BY <2>1, <2>3, <2>4
<1>4. QED
  BY <1>1, <1>3

PathSlots(n) == 0..(n * MaxLength - 1)
VisitedSlots(n) == 0..(n * N - 1)

LEMMA PathSlices ==
  ASSUME NEW n, n \in Nat
  PROVE  /\ \A w \in 1..n, d \in 1..MaxLength : PathSlot(w, d) \in PathSlots(n)
         /\ \A w, u \in 1..n, c, d \in 1..MaxLength :
              PathSlot(w, c) = PathSlot(u, d) => w = u /\ c = d
<1> DEFINE S(w, x) == (w - 1) * MaxLength + x
<1>1. MaxLength \in Nat \ {0}
  BY VertexFacts
<1>2. /\ \A w \in 1..n, x \in 0..(MaxLength - 1) : S(w, x) \in PathSlots(n)
      /\ \A w, u \in 1..n, x, y \in 0..(MaxLength - 1) : S(w, x) = S(u, y) => w = u /\ x = y
  BY <1>1, SlotFacts DEF PathSlots
<1>3. \A w \in 1..n, d \in 1..MaxLength : PathSlot(w, d) = S(w, d - 1)
  <2>1. ASSUME NEW w \in 1..n, NEW d \in 1..MaxLength
        PROVE  PathSlot(w, d) = S(w, d - 1)
    <3> DEFINE a == (w - 1) * MaxLength
    <3>1. a \in Int /\ PathSlot(w, d) = a + d - 1 /\ S(w, d - 1) = a + (d - 1)
      BY <1>1 DEF PathSlot
    <3> HIDE DEF a, S
    <3>2. QED
      BY <1>1, <3>1
  <2>2. QED
    BY <2>1
<1> HIDE DEF S
<1>4. \A d \in 1..MaxLength : d - 1 \in 0..(MaxLength - 1)
  BY <1>1
<1>5. \A c, d \in 1..MaxLength : c - 1 = d - 1 => c = d
  BY <1>1
<1>6. QED
  BY <1>2, <1>3, <1>4, <1>5

LEMMA VisitedSlices ==
  ASSUME NEW n, n \in Nat
  PROVE  /\ \A w \in 1..n, v \in V : VisitedSlot(w, v) \in VisitedSlots(n)
         /\ \A w, u \in 1..n, x, y \in V :
              VisitedSlot(w, x) = VisitedSlot(u, y) => w = u /\ x = y
<1>1. N \in Nat \ {0}
  BY VertexFacts
<1>2. QED
  BY <1>1, SlotFacts DEF VisitedSlots, VisitedSlot, V

-----------------------------------------------------------------------------
(***************************************************************************)
(* The invariant of the kernel.                                            *)
(***************************************************************************)
IsPool(p, S) == p = [slot \in S |-> p[slot]]

\* The slices of a thread, up to a depth, as the frames of a search.
FramesOf(p, c, w, n) ==
  [d \in 1..n |-> [vertex |-> p[PathSlot(w, d)], offset |-> c[PathSlot(w, d)]]]

MarkedIn(m, w) == {v \in V : m[VisitedSlot(w, v)] # 0}

\* A thread searches for its change, or marks nothing yet, or the source only.
WorkOk(g, ch, w, at, n, frames, marked) ==
  /\ at = "begin" => n = 0 /\ marked = {}
  /\ at = "exited" => n = 0 /\ marked = {ch[w][1]}
  /\ at = "search" => /\ Searching(g, ch, w, frames, n)
                      /\ marked = {ch[w][1]} \cup {frames[a].vertex : a \in 1..n}

Stack(w) == FramesOf(path, cursor, w, depth[w])

WorkInv(w) == WorkOk(graph, Changes, w, pc[w], depth[w], Stack(w), MarkedIn(marks, w))

Launched ==
  /\ phase # "done"
  /\ pc \in [1..Len(Changes) -> {"begin", "search", "exited"}]
  /\ depth \in [1..Len(Changes) -> Nat]
  /\ IsPool(path, PathSlots(Len(Changes)))
  /\ IsPool(cursor, PathSlots(Len(Changes)))
  /\ IsPool(marks, VisitedSlots(Len(Changes)))
  /\ \A w \in 1..Len(Changes) : WorkInv(w)

KernelInv == pc = <<>> \/ Launched

\* The cycles of each change that its thread has still to come to.
AheadOf(g, ch, w, at, frames, n) ==
  IF at = "begin" THEN Owned(g, ch, w) ELSE Ahead(g, ch, w, frames, n)

DeviceRest ==
  [w \in 1..Len(Changes) |->
     IF w \notin DOMAIN pc THEN Owned(graph, Changes, w)
     ELSE AheadOf(graph, Changes, w, pc[w], Stack(w), depth[w])]

CudaSums ==
  /\ tallies \in [Lengths -> Nat] /\ deleted \in [Lengths -> Nat]
  /\ delta \in [Lengths -> Int]
  /\ phase = "delete" => deleted = NoCounts
  /\ pc = <<>> => tallies = NoCounts

CudaInv ==
  /\ PhaseInv
  /\ Idle(next, owner, calls, visited)
  /\ KernelInv
  /\ Accounted(DeviceRest)
  /\ CudaSums /\ DeviceLedgerExact

-----------------------------------------------------------------------------
(***************************************************************************)
(* One slot of a pool.                                                     *)
(***************************************************************************)
\* In a pool of n slices, slot d of slice w is written.
Writes(n, p, w, d, x, q) ==
  /\ n \in Nat /\ IsPool(p, PathSlots(n))
  /\ w \in 1..n /\ d \in 1..MaxLength
  /\ q = [p EXCEPT ![PathSlot(w, d)] = x]

\* The others are as they were.
Written(n, p, w, d, x, q) ==
  /\ IsPool(q, PathSlots(n))
  /\ q[PathSlot(w, d)] = x
  /\ \A c \in 1..MaxLength : c # d => q[PathSlot(w, c)] = p[PathSlot(w, c)]
  /\ \A u \in 1..n, c \in 1..MaxLength : u # w => q[PathSlot(u, c)] = p[PathSlot(u, c)]

LEMMA PathSet ==
  ASSUME NEW n, NEW p, NEW w, NEW d, NEW x, NEW q, Writes(n, p, w, d, x, q)
  PROVE  Written(n, p, w, d, x, q)
<1>0. /\ n \in Nat /\ IsPool(p, PathSlots(n)) /\ w \in 1..n /\ d \in 1..MaxLength
      /\ q = [p EXCEPT ![PathSlot(w, d)] = x]
  BY DEF Writes
<1> DEFINE S == PathSlots(n)
<1>1. /\ \A u \in 1..n, c \in 1..MaxLength : PathSlot(u, c) \in S
      /\ \A u \in 1..n, c \in 1..MaxLength :
           PathSlot(u, c) = PathSlot(w, d) => u = w /\ c = d
  BY <1>0, PathSlices
<1>2. DOMAIN p = S /\ PathSlot(w, d) \in S
  BY <1>0, <1>1 DEF IsPool
<1> HIDE DEF S
<1>3. q = [s \in S |-> IF s = PathSlot(w, d) THEN x ELSE p[s]]
  BY <1>0, <1>2
<1>4. q = [s \in S |-> q[s]]
  BY <1>3
<1>5. \A s \in S : q[s] = IF s = PathSlot(w, d) THEN x ELSE p[s]
  BY <1>3
<1>6. IsPool(q, S)
  BY <1>4 DEF IsPool
<1>7. QED
  BY <1>0, <1>1, <1>2, <1>5, <1>6 DEF S, Written

\* The slot of vertex v in slice w is written.
Marks(n, m, w, v, x, q) ==
  /\ n \in Nat /\ IsPool(m, VisitedSlots(n))
  /\ w \in 1..n /\ v \in V /\ x \in {0, 1}
  /\ q = [m EXCEPT ![VisitedSlot(w, v)] = x]

Marked(n, m, w, v, x, q) ==
  /\ IsPool(q, VisitedSlots(n))
  /\ MarkedIn(q, w) = IF x = 0 THEN MarkedIn(m, w) \ {v} ELSE MarkedIn(m, w) \cup {v}
  /\ \A u \in 1..n : u # w => MarkedIn(q, u) = MarkedIn(m, u)

LEMMA MarkSet ==
  ASSUME NEW n, NEW m, NEW w, NEW v, NEW x, NEW q, Marks(n, m, w, v, x, q)
  PROVE  Marked(n, m, w, v, x, q)
<1>0. /\ n \in Nat /\ IsPool(m, VisitedSlots(n))
      /\ w \in 1..n /\ v \in V /\ x \in {0, 1}
      /\ q = [m EXCEPT ![VisitedSlot(w, v)] = x]
  BY DEF Marks
<1> DEFINE S == VisitedSlots(n)
<1>1. /\ \A u \in 1..n, y \in V : VisitedSlot(u, y) \in S
      /\ \A u \in 1..n, y \in V : VisitedSlot(u, y) = VisitedSlot(w, v) => u = w /\ y = v
  BY <1>0, VisitedSlices
<1>2. DOMAIN m = S /\ VisitedSlot(w, v) \in S
  BY <1>0, <1>1 DEF IsPool
<1> HIDE DEF S
<1>3. q = [s \in S |-> IF s = VisitedSlot(w, v) THEN x ELSE m[s]]
  BY <1>0, <1>2
<1>4. q = [s \in S |-> q[s]]
  BY <1>3
<1>5. \A s \in S : q[s] = IF s = VisitedSlot(w, v) THEN x ELSE m[s]
  BY <1>3
<1>6. IsPool(q, S)
  BY <1>4 DEF IsPool
<1>7. \A u \in 1..n, y \in V :
        q[VisitedSlot(u, y)] = IF u = w /\ y = v THEN x ELSE m[VisitedSlot(u, y)]
  BY <1>0, <1>1, <1>5
<1>8. ASSUME NEW u \in 1..n, u # w
      PROVE  MarkedIn(q, u) = MarkedIn(m, u)
  <2>1. \A y \in V : q[VisitedSlot(u, y)] = m[VisitedSlot(u, y)]
    BY <1>7, <1>8
  <2>2. QED
    BY <2>1 DEF MarkedIn
<1>9. MarkedIn(q, w) = IF x = 0 THEN MarkedIn(m, w) \ {v} ELSE MarkedIn(m, w) \cup {v}
  <2>1. \A y \in V : y \in MarkedIn(q, w) <=> q[VisitedSlot(w, y)] # 0
    BY DEF MarkedIn
  <2>2. \A y \in V : y \in MarkedIn(m, w) <=> m[VisitedSlot(w, y)] # 0
    BY DEF MarkedIn
  <2>3. MarkedIn(q, w) \subseteq V /\ MarkedIn(m, w) \subseteq V
    BY DEF MarkedIn
  <2>4. \A y \in V : q[VisitedSlot(w, y)] = IF y = v THEN x ELSE m[VisitedSlot(w, y)]
    BY <1>0, <1>7
  <2>5. x = 0 \/ x = 1
    BY <1>0
  <2>6. CASE x = 0
    BY <2>1, <2>2, <2>3, <2>4, <2>6, <1>0, ZenonT(60)
  <2>7. CASE x = 1
    BY <2>1, <2>2, <2>3, <2>4, <2>7, <1>0, ZenonT(60)
  <2>8. QED
    BY <2>5, <2>6, <2>7
<1>10. QED
  BY <1>6, <1>8, <1>9 DEF S, Marked

-----------------------------------------------------------------------------
(***************************************************************************)
(* The step of one thread.                                                 *)
(***************************************************************************)
\* Thread w goes on to `at` and depth n, and writes nothing but its own slices.
OwnSlices(w, at, n) ==
  /\ Working
  /\ pc' = [pc EXCEPT ![w] = at] /\ depth' = [depth EXCEPT ![w] = n]
  /\ IsPool(path', PathSlots(Len(Changes)))
  /\ IsPool(cursor', PathSlots(Len(Changes)))
  /\ IsPool(marks', VisitedSlots(Len(Changes)))
  /\ \A u \in 1..Len(Changes) : u # w =>
       /\ MarkedIn(marks', u) = MarkedIn(marks, u)
       /\ \A c \in 1..MaxLength : /\ path'[PathSlot(u, c)] = path[PathSlot(u, c)]
                                  /\ cursor'[PathSlot(u, c)] = cursor[PathSlot(u, c)]

\* Where its slices leave it is a search.
GoodStep(w, at, n) ==
  /\ OwnSlices(w, at, n)
  /\ at \in {"begin", "search", "exited"} /\ n \in Nat
  /\ WorkOk(graph, Changes, w, at, n, FramesOf(path', cursor', w, n), MarkedIn(marks', w))

\* The depth of a thread stays within its slices.
LEMMA DepthBound ==
  ASSUME PhaseInv, Launched, NEW w, w \in 1..Len(Changes)
  PROVE  depth[w] \in 0..MaxLength
<1>1. WorkInv(w) /\ depth[w] \in Nat /\ pc[w] \in {"begin", "search", "exited"}
  BY DEF Launched
<1>2. MaxLength \in Nat
  BY VertexFacts
<1>3. CASE pc[w] = "search"
  <2>1. Searching(graph, Changes, w, Stack(w), depth[w])
    BY <1>1, <1>3 DEF WorkInv, WorkOk
  <2>2. depth[w] + 1 <= MaxLength
    BY <2>1 DEF Searching
  <2>3. QED
    BY <1>1, <1>2, <2>2
<1>4. CASE pc[w] # "search"
  <2>1. depth[w] = 0
    BY <1>1, <1>4 DEF WorkInv, WorkOk
  <2>2. QED
    BY <1>2, <2>1
<1>5. QED
  BY <1>3, <1>4

LEMMA StepKernel ==
  ASSUME PhaseInv, Launched, NEW w, w \in 1..Len(Changes), NEW at, NEW n, GoodStep(w, at, n)
  PROVE  /\ PhaseInv' /\ Launched'
         /\ DeviceRest'[w] = AheadOf(graph, Changes, w, at, FramesOf(path', cursor', w, n), n)
         /\ \A u \in 1..Len(Changes) : u # w => DeviceRest'[u] = DeviceRest[u]
<1> DEFINE L == Len(Changes)
<1>1. /\ PhaseInv' /\ Changes' = Changes /\ graph' = graph /\ phase' = phase
  BY WorkingSame DEF GoodStep, OwnSlices
<1>2. /\ DOMAIN pc = 1..L /\ DOMAIN depth = 1..L
      /\ pc \in [1..L -> {"begin", "search", "exited"}] /\ depth \in [1..L -> Nat]
      /\ phase # "done" /\ \A u \in 1..L : WorkInv(u)
  BY DEF Launched
<1>3. /\ pc' \in [1..L -> {"begin", "search", "exited"}] /\ depth' \in [1..L -> Nat]
      /\ DOMAIN pc' = 1..L
      /\ pc'[w] = at /\ depth'[w] = n
      /\ \A u \in 1..L : u # w => pc'[u] = pc[u] /\ depth'[u] = depth[u]
  BY <1>2 DEF GoodStep, OwnSlices
<1>4. ASSUME NEW u \in 1..L, u # w
      PROVE  FramesOf(path', cursor', u, depth[u]) = Stack(u)
  <2>1. \A c \in 1..depth[u] : c \in 1..MaxLength
    <3>1. depth[u] \in 0..MaxLength /\ MaxLength \in Nat
      BY DepthBound, VertexFacts
    <3>2. QED
      BY <3>1
  <2>2. \A c \in 1..depth[u] : /\ path'[PathSlot(u, c)] = path[PathSlot(u, c)]
                               /\ cursor'[PathSlot(u, c)] = cursor[PathSlot(u, c)]
    BY <1>4, <2>1 DEF GoodStep, OwnSlices
  <2>3. QED
    BY <2>2 DEF FramesOf, Stack
<1>5. ASSUME NEW u \in 1..L, u # w
      PROVE  /\ WorkInv(u)'
             /\ DeviceRest'[u] = DeviceRest[u]
  <2>1. /\ Stack(u)' = Stack(u) /\ pc'[u] = pc[u] /\ depth'[u] = depth[u]
        /\ MarkedIn(marks', u) = MarkedIn(marks, u)
    <3>1. pc'[u] = pc[u] /\ depth'[u] = depth[u] /\ MarkedIn(marks', u) = MarkedIn(marks, u)
      BY <1>3, <1>5 DEF GoodStep, OwnSlices
    <3>2. Stack(u)' = FramesOf(path', cursor', u, depth'[u])
      BY DEF Stack
    <3>3. QED
      BY <1>4, <1>5, <3>1, <3>2
  <2>2. WorkInv(u)'
    BY <1>1, <1>2, <2>1 DEF WorkInv
  <2>3. QED
    BY <1>1, <1>2, <1>3, <2>1, <2>2 DEF DeviceRest
<1>6. Stack(w)' = FramesOf(path', cursor', w, n)
  BY <1>3 DEF Stack
<1>7. WorkInv(w)'
  BY <1>1, <1>3, <1>6 DEF WorkInv, GoodStep
<1>8. DeviceRest'[w] = AheadOf(graph, Changes, w, at, FramesOf(path', cursor', w, n), n)
  BY <1>1, <1>3, <1>6 DEF DeviceRest
<1>9. Launched'
  <2>1. \A u \in 1..L : WorkInv(u)'
    BY <1>5, <1>7
  <2>2. /\ IsPool(path', PathSlots(L)) /\ IsPool(cursor', PathSlots(L))
        /\ IsPool(marks', VisitedSlots(L))
    BY DEF GoodStep, OwnSlices
  <2>3. QED
    BY <1>1, <1>2, <1>3, <2>1, <2>2 DEF Launched
<1>10. QED
  BY <1>1, <1>5, <1>8, <1>9

\* What the slices of a searching thread say.
LEMMA WorkShape ==
  ASSUME PhaseInv, Launched, NEW w, w \in 1..Len(Changes), pc[w] = "search"
  PROVE  /\ Searching(graph, Changes, w, Stack(w), depth[w])
         /\ depth[w] \in Nat \ {0} /\ depth[w] + 1 <= MaxLength /\ depth[w] \in 1..MaxLength
         /\ \A a \in 1..depth[w] : /\ Stack(w)[a].vertex = VertexAt(w, a)
                                   /\ Stack(w)[a].offset = cursor[PathSlot(w, a)]
         /\ MarkedIn(marks, w) =
              {Changes[w][1]} \cup {Stack(w)[a].vertex : a \in 1..depth[w]}
         /\ Top(w) = Stack(w)[depth[w]].vertex /\ Top(w) \in V
         /\ OutOfEdges(w)
              <=> Stack(w)[depth[w]].offset > Len(graph[Stack(w)[depth[w]].vertex])
         /\ ~OutOfEdges(w)
              => Stack(w)[depth[w]].offset <= Len(graph[Stack(w)[depth[w]].vertex])
         /\ NextOf(w) = graph[Stack(w)[depth[w]].vertex][Stack(w)[depth[w]].offset]
         /\ ~OutOfEdges(w) => NextOf(w) \in V
         /\ \A a \in 1..MaxLength : PathSlot(w, a) \in PathSlots(Len(Changes))
<1> DEFINE d == depth[w]
           f == Stack(w)
<1>1. /\ Searching(graph, Changes, w, f, d)
      /\ MarkedIn(marks, w) = {Changes[w][1]} \cup {f[a].vertex : a \in 1..d}
  BY DEF Launched, WorkInv, WorkOk
<1>2. d \in Nat \ {0} /\ d + 1 <= MaxLength /\ MaxLength \in Nat
  BY <1>1, VertexFacts DEF Searching
<1>3. d \in 1..MaxLength /\ d \in 1..d
  <2> HIDE DEF d
  <2> QED BY <1>2
<1>4. \A a \in 1..d : f[a].vertex = VertexAt(w, a) /\ f[a].offset = cursor[PathSlot(w, a)]
  BY DEF Stack, FramesOf, VertexAt
<1>5. Top(w) = f[d].vertex /\ Cursor(w) = f[d].offset
  BY <1>3, <1>4 DEF Top, Cursor
<1>6. graph \in Adjacencies(V) /\ Len(Changes) \in Nat
  BY PhaseFacts
<1>7. /\ f[d].vertex \in V /\ f[d].offset \in 1..(Len(graph[f[d].vertex]) + 1)
      /\ Len(graph[f[d].vertex]) \in Nat
      /\ \A j \in 1..Len(graph[f[d].vertex]) : graph[f[d].vertex][j] \in V
  <2> HIDE DEF d, f
  <2> QED BY <1>1, <1>3, <1>6, SearchShape DEF FramesFit
<1>8. OutOfEdges(w) <=> f[d].offset > Len(graph[f[d].vertex])
  BY <1>5 DEF OutOfEdges
<1>9. NextOf(w) = graph[f[d].vertex][f[d].offset]
  BY <1>5 DEF NextOf
<1>10. \A a \in 1..MaxLength : PathSlot(w, a) \in PathSlots(Len(Changes))
  BY <1>6, PathSlices
<1> HIDE DEF d, f
<1>11. ~OutOfEdges(w) => f[d].offset <= Len(graph[f[d].vertex]) /\ NextOf(w) \in V
  BY <1>7, <1>8, <1>9
<1>12. QED
  BY <1>1, <1>2, <1>3, <1>4, <1>5, <1>7, <1>8, <1>9, <1>10, <1>11 DEF d, f

LEMMA OwnedBeforeForbidden ==
  ASSUME PhaseInv, Launched, NEW w, w \in 1..Len(Changes), pc[w] = "search", ~OutOfEdges(w)
  PROVE  OwnedBefore(w) <=> Forbidden(Changes, w, Stack(w)[depth[w]].vertex, NextOf(w))
<1>1. /\ Top(w) = Stack(w)[depth[w]].vertex /\ Top(w) \in V /\ NextOf(w) \in V
  BY WorkShape
<1>2. OwnedBefore(w) <=> Forbidden(Changes, w, Top(w), NextOf(w))
  BY <1>1, OwnedBeforeSame DEF OwnedBefore
<1>3. QED
  BY <1>1, <1>2

\* The rest of a change whose thread is there.
LEMMA DeviceRestOf ==
  ASSUME Launched, NEW w, w \in 1..Len(Changes)
  PROVE  DeviceRest[w] = AheadOf(graph, Changes, w, pc[w], Stack(w), depth[w])
BY DEF DeviceRest, Launched

LEMMA DeviceWithin ==
  ASSUME NEW w, w \in 1..Len(Changes)
  PROVE  DeviceRest[w] \subseteq Owned(graph, Changes, w)
BY DEF DeviceRest, AheadOf, Ahead

\* A step that finds no cycle leaves as many.
LEMMA QuietStep ==
  ASSUME PhaseInv, Launched, NEW w, w \in 1..Len(Changes), NEW at, NEW n, GoodStep(w, at, n),
         AheadOf(graph, Changes, w, at, FramesOf(path', cursor', w, n), n) = DeviceRest[w]
  PROVE  PhaseInv' /\ Launched' /\ Left(Changes, DeviceRest') = Left(Changes, DeviceRest)
<1>1. /\ PhaseInv' /\ Launched'
      /\ DeviceRest'[w] = AheadOf(graph, Changes, w, at, FramesOf(path', cursor', w, n), n)
      /\ \A u \in 1..Len(Changes) : u # w => DeviceRest'[u] = DeviceRest[u]
  BY StepKernel
<1> DEFINE new == DeviceRest'
           old == DeviceRest
<1>2. \A u \in 1..Len(Changes) : new[u] = old[u]
  BY <1>1
<1>3. Left(Changes, new) = Left(Changes, old)
  <2> HIDE DEF new, old
  <2> QED BY <1>2, SameLeft
<1>4. QED
  BY <1>1, <1>3

\* A thread consumes an edge.
Consumes(w) ==
  /\ Advance(w)
  /\ Working /\ UNCHANGED <<pc, depth, path, marks>>

LEMMA ConsumesSlices ==
  ASSUME PhaseInv, Launched, NEW w, w \in 1..Len(Changes), pc[w] = "search", Consumes(w)
  PROVE  /\ OwnSlices(w, "search", depth[w])
         /\ Consumed(Stack(w), FramesOf(path', cursor', w, depth[w]), depth[w])
         /\ MarkedIn(marks', w) = MarkedIn(marks, w)
<1> DEFINE d == depth[w]
           L == Len(Changes)
           f == Stack(w)
           now == FramesOf(path', cursor', w, d)
<1>1. d \in Nat \ {0} /\ d + 1 <= MaxLength /\ d \in 1..MaxLength /\ L \in Nat
  BY WorkShape, PhaseFacts
<1>2. /\ IsPool(path, PathSlots(L)) /\ IsPool(cursor, PathSlots(L))
      /\ IsPool(marks, VisitedSlots(L)) /\ DOMAIN pc = 1..L /\ DOMAIN depth = 1..L
      /\ pc = [u \in 1..L |-> pc[u]] /\ depth = [u \in 1..L |-> depth[u]]
  BY DEF Launched
<1>3. /\ path' = path /\ marks' = marks /\ pc' = pc /\ depth' = depth /\ Working
      /\ cursor' = [cursor EXCEPT ![PathSlot(w, d)] = cursor[PathSlot(w, d)] + 1]
  BY DEF Consumes, Advance
<1>4. /\ IsPool(cursor', PathSlots(L))
      /\ cursor'[PathSlot(w, d)] = cursor[PathSlot(w, d)] + 1
      /\ \A c \in 1..MaxLength : c # d => cursor'[PathSlot(w, c)] = cursor[PathSlot(w, c)]
      /\ \A u \in 1..L, c \in 1..MaxLength :
           u # w => cursor'[PathSlot(u, c)] = cursor[PathSlot(u, c)]
  <2> DEFINE q == cursor'
             x == cursor[PathSlot(w, d)] + 1
  <2>1. Writes(L, cursor, w, d, x, q)
    BY <1>1, <1>2, <1>3 DEF Writes
  <2>2. Written(L, cursor, w, d, x, q)
    <3> HIDE DEF q, x, d, L
    <3> QED BY <2>1, PathSet
  <2>3. QED
    BY <2>2 DEF Written
<1>5. pc' = [pc EXCEPT ![w] = "search"] /\ depth' = [depth EXCEPT ![w] = d]
  BY <1>2, <1>3
<1>6. OwnSlices(w, "search", d)
  BY <1>2, <1>3, <1>4, <1>5 DEF OwnSlices
<1>7. \A a \in 1..d : a \in 1..MaxLength
  <2> HIDE DEF d
  <2> QED BY <1>1, VertexFacts
<1>8. \A a \in 1..d : /\ f[a].vertex = path[PathSlot(w, a)]
                      /\ f[a].offset = cursor[PathSlot(w, a)]
                      /\ now[a].vertex = path'[PathSlot(w, a)]
                      /\ now[a].offset = cursor'[PathSlot(w, a)]
  BY DEF Stack, FramesOf
<1> HIDE DEF d, f, now
<1>9. \A a \in 1..(d - 1) : a \in 1..d /\ a # d
  BY <1>1
<1>10. d \in 1..d
  BY <1>1
<1>11. Consumed(f, now, d)
  BY <1>3, <1>4, <1>7, <1>8, <1>9, <1>10 DEF Consumed
<1>12. QED
  BY <1>3, <1>6, <1>11 DEF d, f, now

-----------------------------------------------------------------------------
(***************************************************************************)
(* The iterations of the kernel's loop.                                    *)
(***************************************************************************)
LEMMA CountOwnedStep ==
  ASSUME PhaseInv, Launched, NEW w, w \in 1..Len(Changes), CountOwned(w)
  PROVE  /\ PhaseInv' /\ Launched' /\ Working
         /\ CycleOf(w) \in Left(Changes, DeviceRest) /\ Len(CycleOf(w)) = depth[w] + 1
         /\ Left(Changes, DeviceRest') = Left(Changes, DeviceRest) \ {CycleOf(w)}
<1> DEFINE d == depth[w]
           f == Stack(w)
           now == FramesOf(path', cursor', w, d)
           found == CycleOf(w)
           ch == Changes
<1>1. pc[w] = "search" /\ ~OutOfEdges(w) /\ ClosesChange(w) /\ Consumes(w) /\ Working
  BY DEF CountOwned, Consumes, Working, Kernel, input
<1>2. OwnSlices(w, "search", d) /\ Consumed(f, now, d) /\ MarkedIn(marks', w) = MarkedIn(marks, w)
  BY <1>1, ConsumesSlices
<1>3. /\ graph \in Adjacencies(V) /\ IsChangeList(graph, ch) /\ Len(ch) \in Nat
      /\ w \in 1..Len(ch) /\ Searching(graph, ch, w, f, d) /\ d \in Nat \ {0}
      /\ MarkedIn(marks, w) = {ch[w][1]} \cup {f[a].vertex : a \in 1..d}
  BY <1>1, PhaseFacts, WorkShape
<1>4. /\ f[d].offset <= Len(graph[f[d].vertex])
      /\ graph[f[d].vertex][f[d].offset] = ch[w][1]
      /\ ~Forbidden(ch, w, f[d].vertex, ch[w][1])
  <2>1. /\ NextOf(w) = graph[f[d].vertex][f[d].offset] /\ NextOf(w) = ch[w][1]
        /\ f[d].offset <= Len(graph[f[d].vertex])
    BY <1>1, WorkShape DEF ClosesChange, Source
  <2>2. ~Forbidden(ch, w, f[d].vertex, NextOf(w))
    BY <1>1, OwnedBeforeForbidden DEF ClosesChange
  <2>3. QED
    BY <2>1, <2>2
<1>5. found = Rotated(ClosedBy(ch[w][1], f, d))
  <2>1. \A a \in 1..d : f[a].vertex = VertexAt(w, a)
    BY <1>1, WorkShape
  <2>2. [a \in 1..d |-> VertexAt(w, a)] = [a \in 1..d |-> f[a].vertex]
    BY <2>1
  <2>3. QED
    BY <2>2 DEF CycleOf, ClosedBy, Source
<1>6. /\ Searching(graph, ch, w, now, d)
      /\ Len(found) = d + 1
      /\ found \in Ahead(graph, ch, w, f, d)
      /\ Ahead(graph, ch, w, now, d) = Ahead(graph, ch, w, f, d) \ {found}
  <2> HIDE DEF d, f, now, found, ch
  <2> QED BY <1>2, <1>3, <1>4, <1>5, SearchCloses
<1>7. \A a \in 1..d : now[a].vertex = f[a].vertex
  BY <1>2 DEF Consumed
<1>8. MarkedIn(marks', w) = {ch[w][1]} \cup {now[a].vertex : a \in 1..d}
  <2> HIDE DEF d, f, now
  <2> QED BY <1>2, <1>3, <1>7
<1>9. GoodStep(w, "search", d)
  BY <1>2, <1>3, <1>6, <1>8 DEF GoodStep, WorkOk
<1>10. /\ PhaseInv' /\ Launched'
       /\ DeviceRest'[w] = Ahead(graph, ch, w, now, d)
       /\ \A u \in 1..Len(ch) : u # w => DeviceRest'[u] = DeviceRest[u]
  BY <1>9, StepKernel DEF AheadOf
<1>11. DeviceRest[w] = Ahead(graph, ch, w, f, d)
  BY <1>1, DeviceRestOf DEF AheadOf
<1>12. \A u \in 1..Len(ch) : DeviceRest[u] \subseteq Owned(graph, ch, u)
  BY DeviceWithin
<1>13. Left(Changes, DeviceRest') = Left(Changes, DeviceRest) \ {found} /\ found \in Left(Changes, DeviceRest)
  <2> DEFINE new == DeviceRest'
             old == DeviceRest
  <2>1. Finds(graph, ch, old, new, w, found)
    <3> HIDE DEF found, now, f, d
    <3> QED BY <1>3, <1>6, <1>10, <1>11, <1>12 DEF Finds
  <2>2. Left(ch, new) = Left(ch, old) \ {found} /\ found \in Left(ch, old)
    <3> HIDE DEF new, old, ch, found
    <3> QED BY <2>1, OneLess
  <2>3. QED
    BY <2>2
<1>14. QED
  BY <1>1, <1>6, <1>10, <1>13

LEMMA PassStep ==
  ASSUME PhaseInv, Launched, NEW w, w \in 1..Len(Changes), Pass(w)
  PROVE  /\ PhaseInv' /\ Launched' /\ Working
         /\ Left(Changes, DeviceRest') = Left(Changes, DeviceRest)
<1> DEFINE d == depth[w]
           f == Stack(w)
           now == FramesOf(path', cursor', w, d)
           n == NextOf(w)
           ch == Changes
<1>1. /\ pc[w] = "search" /\ ~OutOfEdges(w) /\ ~ClosesChange(w) /\ LeadsNowhere(w)
      /\ Consumes(w) /\ Working
  BY DEF Pass, Consumes, Working, Kernel, input
<1>2. OwnSlices(w, "search", d) /\ Consumed(f, now, d) /\ MarkedIn(marks', w) = MarkedIn(marks, w)
  BY <1>1, ConsumesSlices
<1>3. /\ graph \in Adjacencies(V) /\ IsChangeList(graph, ch) /\ Len(ch) \in Nat
      /\ w \in 1..Len(ch) /\ Searching(graph, ch, w, f, d) /\ d \in Nat \ {0}
      /\ MarkedIn(marks, w) = {ch[w][1]} \cup {f[a].vertex : a \in 1..d}
      /\ f[d].offset <= Len(graph[f[d].vertex])
      /\ n = graph[f[d].vertex][f[d].offset] /\ n \in V
  BY <1>1, PhaseFacts, WorkShape
<1>4. \/ Forbidden(ch, w, f[d].vertex, n)
      \/ n # ch[w][1] /\ ((\E a \in 1..d : n = f[a].vertex) \/ d + 1 >= MaxLength)
  <2>1. CASE OwnedBefore(w)
    BY <1>1, <2>1, OwnedBeforeForbidden
  <2>2. CASE ~OwnedBefore(w)
    <3>1. n # ch[w][1]
      BY <1>1, <2>2 DEF ClosesChange, Source
    <3>2. CASE n = Target(w)
      <4>1. f[1].vertex = ch[w][2] /\ 1 \in 1..d
        BY <1>3 DEF Searching
      <4>2. QED
        BY <3>1, <3>2, <4>1 DEF Target
    <3>3. CASE marks[VisitedSlot(w, n)] # 0
      <4>1. n \in MarkedIn(marks, w)
        BY <1>3, <3>3, SMTT(30) DEF MarkedIn
      <4>2. \E a \in 1..d : n = f[a].vertex
        BY <1>3, <3>1, <4>1
      <4>3. QED
        BY <3>1, <4>2
    <3>4. CASE d + 1 >= MaxLength
      BY <3>1, <3>4
    <3>5. QED
      BY <1>1, <2>2, <3>2, <3>3, <3>4 DEF LeadsNowhere
  <2>3. QED
    BY <2>1, <2>2
<1>5. Searching(graph, ch, w, now, d) /\ Ahead(graph, ch, w, now, d) = Ahead(graph, ch, w, f, d)
  <2> HIDE DEF d, f, now, n, ch
  <2> QED BY <1>2, <1>3, <1>4, SearchSkips
<1>6. \A a \in 1..d : now[a].vertex = f[a].vertex
  BY <1>2 DEF Consumed
<1>7. MarkedIn(marks', w) = {ch[w][1]} \cup {now[a].vertex : a \in 1..d}
  <2> HIDE DEF d, f, now
  <2> QED BY <1>2, <1>3, <1>6
<1>8. GoodStep(w, "search", d)
  BY <1>2, <1>3, <1>5, <1>7 DEF GoodStep, WorkOk
<1>9. AheadOf(graph, Changes, w, "search", now, d) = DeviceRest[w]
  BY <1>1, <1>5, DeviceRestOf DEF AheadOf
<1>10. QED
  BY <1>1, <1>8, <1>9, QuietStep

LEMMA PopStep ==
  ASSUME PhaseInv, Launched, NEW w, w \in 1..Len(Changes), Pop(w)
  PROVE  /\ PhaseInv' /\ Launched' /\ Working
         /\ Left(Changes, DeviceRest') = Left(Changes, DeviceRest)
<1> DEFINE d == depth[w]
           f == Stack(w)
           now == FramesOf(path', cursor', w, d - 1)
           at == IF d = 1 THEN "exited" ELSE "search"
           ch == Changes
           L == Len(Changes)
           held == MarkedIn(marks, w)
           kept == MarkedIn(marks', w)
<1>1. /\ pc[w] = "search" /\ OutOfEdges(w) /\ Working
      /\ path' = path /\ cursor' = cursor
      /\ marks' = [marks EXCEPT ![VisitedSlot(w, Top(w))] = 0]
      /\ depth' = [depth EXCEPT ![w] = d - 1]
      /\ pc' = [pc EXCEPT ![w] = at]
  BY DEF Pop, Working, Kernel, input
<1>2. /\ graph \in Adjacencies(V) /\ L \in Nat
      /\ w \in 1..L /\ Searching(graph, ch, w, f, d) /\ d \in Nat \ {0}
      /\ held = {ch[w][1]} \cup {f[a].vertex : a \in 1..d}
      /\ f[d].offset > Len(graph[f[d].vertex])
      /\ Top(w) = f[d].vertex /\ Top(w) \in V
  BY <1>1, PhaseFacts, WorkShape
<1>3. /\ IsPool(path', PathSlots(L)) /\ IsPool(cursor', PathSlots(L))
      /\ IsPool(marks, VisitedSlots(L))
  BY <1>1 DEF Launched
<1>4. /\ IsPool(marks', VisitedSlots(L)) /\ kept = held \ {f[d].vertex}
      /\ \A u \in 1..L : u # w => MarkedIn(marks', u) = MarkedIn(marks, u)
  <2> DEFINE q == marks'
             v == Top(w)
  <2>1. Marks(L, marks, w, v, 0, q)
    BY <1>1, <1>2, <1>3 DEF Marks
  <2>2. Marked(L, marks, w, v, 0, q)
    <3> HIDE DEF L, v, q
    <3> QED BY <2>1, MarkSet
  <2>3. QED
    BY <1>2, <2>2 DEF Marked
<1>5. OwnSlices(w, at, d - 1)
  BY <1>1, <1>3, <1>4 DEF OwnSlices
<1>6. \A a \in 1..(d - 1) : now[a] = f[a]
  <2>1. \A a \in 1..(d - 1) : a \in 1..d
    <3> HIDE DEF d
    <3> QED BY <1>2
  <2>2. QED
    BY <1>1, <2>1 DEF Stack, FramesOf
<1>7. /\ d > 1 => Searching(graph, ch, w, now, d - 1)
      /\ Ahead(graph, ch, w, now, d - 1) = Ahead(graph, ch, w, f, d)
  <2>1. \A a \in 1..(d - 1) : now[a].vertex = f[a].vertex /\ now[a].offset = f[a].offset
    BY <1>6
  <2> HIDE DEF d, f, now, ch
  <2>2. QED
    BY <1>2, <2>1, SearchPops
<1>8. kept = {ch[w][1]} \cup {now[a].vertex : a \in 1..(d - 1)}
  <2>1. f[d].vertex # ch[w][1] /\ \A a \in 1..(d - 1) : f[a].vertex # f[d].vertex
    <3>1. /\ \A a \in 1..d : f[a].vertex # ch[w][1]
          /\ \A a, b \in 1..d : a # b => f[a].vertex # f[b].vertex
      BY <1>2 DEF Searching
    <3>2. d \in 1..d /\ \A a \in 1..(d - 1) : a \in 1..d /\ a # d
      <4> HIDE DEF d
      <4> QED BY <1>2
    <3> HIDE DEF d, f
    <3>3. QED
      BY <3>1, <3>2
  <2>2. {f[a].vertex : a \in 1..d} = {f[a].vertex : a \in 1..(d - 1)} \cup {f[d].vertex}
    <3>1. \A a \in 1..d : a \in 1..(d - 1) \/ a = d
      <4> HIDE DEF d
      <4> QED BY <1>2
    <3>2. d \in 1..d /\ \A a \in 1..(d - 1) : a \in 1..d
      <4> HIDE DEF d
      <4> QED BY <1>2
    <3> HIDE DEF d, f
    <3>3. QED
      BY <3>1, <3>2
  <2>3. {now[a].vertex : a \in 1..(d - 1)} = {f[a].vertex : a \in 1..(d - 1)}
    <3> HIDE DEF d, f, now
    <3> QED BY <1>6
  <2>4. \A v \in {f[a].vertex : a \in 1..(d - 1)} : v # f[d].vertex
    BY <2>1
  <2> DEFINE P == {f[a].vertex : a \in 1..(d - 1)}
             x == f[d].vertex
             s == ch[w][1]
  <2>5. held = {s} \cup (P \cup {x}) /\ kept = held \ {x} /\ x # s /\ x \notin P
    BY <1>2, <1>4, <2>1, <2>2, <2>4
  <2>6. kept = {s} \cup P
    <3> HIDE DEF P, x, s, held, kept
    <3> QED BY <2>5
  <2>7. QED
    BY <2>3, <2>6
<1>9. GoodStep(w, at, d - 1)
  <2>1. CASE d = 1
    <3>1. {now[a].vertex : a \in 1..(d - 1)} = {}
      BY <2>1
    <3>2. kept = {ch[w][1]} /\ at = "exited" /\ d - 1 = 0
      BY <1>8, <2>1, <3>1
    <3> HIDE DEF d, at, now, kept
    <3>3. QED
      BY <1>5, <3>2 DEF GoodStep, WorkOk, kept, now
  <2>2. CASE d # 1
    <3>1. d > 1 /\ d - 1 \in Nat /\ at = "search"
      BY <1>2, <2>2
    <3> HIDE DEF d, at
    <3>2. QED
      BY <1>5, <1>7, <1>8, <3>1 DEF GoodStep, WorkOk
  <2>3. QED
    BY <2>1, <2>2
<1>10. AheadOf(graph, Changes, w, at, now, d - 1) = DeviceRest[w]
  <2>1. at # "begin" /\ pc[w] # "begin"
    BY <1>1
  <2>2. DeviceRest[w] = Ahead(graph, ch, w, f, d)
    BY <2>1, DeviceRestOf DEF AheadOf
  <2>3. QED
    BY <1>7, <2>1, <2>2 DEF AheadOf
<1>11. PhaseInv' /\ Launched' /\ Left(Changes, DeviceRest') = Left(Changes, DeviceRest)
  <2> HIDE DEF at
  <2> QED BY <1>9, <1>10, QuietStep
<1>12. QED
  BY <1>1, <1>11

LEMMA PushStep ==
  ASSUME PhaseInv, Launched, NEW w, w \in 1..Len(Changes), Push(w)
  PROVE  /\ PhaseInv' /\ Launched' /\ Working
         /\ Left(Changes, DeviceRest') = Left(Changes, DeviceRest)
<1> DEFINE d == depth[w]
           f == Stack(w)
           now == FramesOf(path', cursor', w, d + 1)
           n == NextOf(w)
           ch == Changes
           L == Len(Changes)
           held == MarkedIn(marks, w)
           kept == MarkedIn(marks', w)
<1>1. /\ pc[w] = "search" /\ ~OutOfEdges(w) /\ ~ClosesChange(w) /\ ~LeadsNowhere(w)
      /\ Working
      /\ marks' = [marks EXCEPT ![VisitedSlot(w, n)] = 1]
      /\ path' = [path EXCEPT ![PathSlot(w, d + 1)] = n]
      /\ cursor' = [cursor EXCEPT ![PathSlot(w, d)] = @ + 1, ![PathSlot(w, d + 1)] = 1]
      /\ depth' = [depth EXCEPT ![w] = d + 1]
      /\ pc' = pc
  BY DEF Push, Working, Kernel, input
<1>2. /\ graph \in Adjacencies(V) /\ IsChangeList(graph, ch) /\ L \in Nat
      /\ w \in 1..L /\ w \in 1..Len(ch) /\ Searching(graph, ch, w, f, d) /\ d \in Nat \ {0}
      /\ held = {ch[w][1]} \cup {f[a].vertex : a \in 1..d}
      /\ f[d].offset <= Len(graph[f[d].vertex])
      /\ n = graph[f[d].vertex][f[d].offset] /\ n \in V
      /\ \A a \in 1..d : f[a].vertex = path[PathSlot(w, a)] /\ f[a].offset = cursor[PathSlot(w, a)]
  BY <1>1, PhaseFacts, WorkShape, SMTT(30) DEF VertexAt
<1>3. /\ IsPool(path, PathSlots(L)) /\ IsPool(cursor, PathSlots(L))
      /\ IsPool(marks, VisitedSlots(L)) /\ pc' = [pc EXCEPT ![w] = "search"]
  BY <1>1 DEF Launched
<1>4. /\ ~Forbidden(ch, w, f[d].vertex, n) /\ n # ch[w][1]
      /\ \A a \in 1..d : n # f[a].vertex
      /\ d + 1 < MaxLength
  <2>1. ~OwnedBefore(w) /\ n # ch[w][1] /\ marks[VisitedSlot(w, n)] = 0 /\ ~(d + 1 >= MaxLength)
    BY <1>1 DEF ClosesChange, LeadsNowhere, Source
  <2>2. ~Forbidden(ch, w, f[d].vertex, n)
    BY <1>1, <2>1, OwnedBeforeForbidden
  <2>3. n \notin held
    BY <2>1 DEF MarkedIn
  <2>4. d + 1 < MaxLength
    <3> HIDE DEF d
    <3> QED BY <1>2, <2>1, VertexFacts
  <2>5. QED
    BY <1>2, <2>1, <2>2, <2>3, <2>4
<1>5. d \in 1..MaxLength /\ d + 1 \in 1..MaxLength /\ d # d + 1
  <2> HIDE DEF d
  <2> QED BY <1>2, <1>4, VertexFacts
<1>6. Written(L, path, w, d + 1, n, path')
  <2> DEFINE q == path'
             e == d + 1
  <2>1. Writes(L, path, w, e, n, q)
    BY <1>1, <1>2, <1>3, <1>5 DEF Writes
  <2>2. Written(L, path, w, e, n, q)
    <3> HIDE DEF L, e, n, q
    <3> QED BY <2>1, PathSet
  <2>3. QED
    BY <2>2
<1> DEFINE mid == [cursor EXCEPT ![PathSlot(w, d)] = cursor[PathSlot(w, d)] + 1]
<1>7. Written(L, cursor, w, d, cursor[PathSlot(w, d)] + 1, mid)
  <2> DEFINE x == cursor[PathSlot(w, d)] + 1
  <2>1. Writes(L, cursor, w, d, x, mid)
    BY <1>2, <1>3, <1>5 DEF Writes
  <2>2. Written(L, cursor, w, d, x, mid)
    <3> HIDE DEF L, d, x, mid
    <3> QED BY <2>1, PathSet
  <2>3. QED
    BY <2>2
<1>8. Written(L, mid, w, d + 1, 1, cursor')
  <2> DEFINE q == cursor'
             e == d + 1
  <2>1. cursor' = [mid EXCEPT ![PathSlot(w, d + 1)] = 1]
    BY <1>1
  <2>2. Writes(L, mid, w, e, 1, q)
    <3> HIDE DEF mid
    <3> QED BY <1>2, <1>5, <1>7, <2>1 DEF Writes, Written
  <2>3. Written(L, mid, w, e, 1, q)
    <3> HIDE DEF L, e, mid, q
    <3> QED BY <2>2, PathSet
  <2>4. QED
    BY <2>3
<1> HIDE DEF mid
<1>9. Marked(L, marks, w, n, 1, marks')
  <2> DEFINE q == marks'
  <2>1. Marks(L, marks, w, n, 1, q)
    BY <1>1, <1>2, <1>3 DEF Marks
  <2>2. Marked(L, marks, w, n, 1, q)
    <3> HIDE DEF L, n, q
    <3> QED BY <2>1, MarkSet
  <2>3. QED
    BY <2>2
<1>10. OwnSlices(w, "search", d + 1)
  <2>1. /\ IsPool(path', PathSlots(L)) /\ IsPool(cursor', PathSlots(L))
        /\ IsPool(marks', VisitedSlots(L))
    BY <1>6, <1>8, <1>9 DEF Written, Marked
  <2>2. ASSUME NEW u \in 1..L, u # w
        PROVE  /\ MarkedIn(marks', u) = MarkedIn(marks, u)
               /\ \A c \in 1..MaxLength : /\ path'[PathSlot(u, c)] = path[PathSlot(u, c)]
                                          /\ cursor'[PathSlot(u, c)] = cursor[PathSlot(u, c)]
    <3>1. MarkedIn(marks', u) = MarkedIn(marks, u)
      BY <1>9, <2>2 DEF Marked
    <3>2. \A c \in 1..MaxLength : path'[PathSlot(u, c)] = path[PathSlot(u, c)]
      BY <1>6, <2>2 DEF Written
    <3>3. \A c \in 1..MaxLength : cursor'[PathSlot(u, c)] = cursor[PathSlot(u, c)]
      BY <1>7, <1>8, <2>2 DEF Written
    <3>4. QED
      BY <3>1, <3>2, <3>3
  <2>3. QED
    BY <1>1, <1>3, <2>1, <2>2 DEF OwnSlices
<1>11. /\ path'[PathSlot(w, d + 1)] = n /\ cursor'[PathSlot(w, d + 1)] = 1
       /\ cursor'[PathSlot(w, d)] = cursor[PathSlot(w, d)] + 1
       /\ \A a \in 1..MaxLength : a # d + 1 => path'[PathSlot(w, a)] = path[PathSlot(w, a)]
       /\ \A a \in 1..MaxLength :
            a # d + 1 /\ a # d => cursor'[PathSlot(w, a)] = cursor[PathSlot(w, a)]
  <2> HIDE DEF d, n, L
  <2> QED BY <1>5, <1>6, <1>7, <1>8 DEF Written
<1>12. \A a \in 1..(d + 1) : /\ now[a].vertex = path'[PathSlot(w, a)]
                             /\ now[a].offset = cursor'[PathSlot(w, a)]
  BY DEF FramesOf
<1>13. /\ \A a \in 1..d : a \in 1..(d + 1) /\ a \in 1..MaxLength /\ a # d + 1
       /\ \A a \in 1..(d - 1) : a \in 1..d /\ a # d
       /\ d + 1 \in 1..(d + 1) /\ d \in 1..d
       /\ \A a \in 1..(d + 1) : a \in 1..d \/ a = d + 1
  <2> HIDE DEF d
  <2> QED BY <1>2, <1>5, VertexFacts
<1>14. Consumed(f, now, d) /\ now[d + 1].vertex = n /\ now[d + 1].offset = 1
  <2> HIDE DEF d, f, now, n
  <2> QED BY <1>2, <1>11, <1>12, <1>13, SMTT(30) DEF Consumed
<1>15. GoesOn(ch, w, f, d, now, n)
  <2> HIDE DEF d, f, now, n, ch
  <2> QED BY <1>4, <1>14 DEF GoesOn
<1>16. /\ Searching(graph, ch, w, now, d + 1)
       /\ Ahead(graph, ch, w, now, d + 1) = Ahead(graph, ch, w, f, d)
  <2> HIDE DEF d, f, now, n, ch
  <2> QED BY <1>2, <1>14, <1>15, SearchPushes
<1>17. kept = {ch[w][1]} \cup {now[a].vertex : a \in 1..(d + 1)}
  <2>1. kept = held \cup {n}
    BY <1>9 DEF Marked
  <2>2. {now[a].vertex : a \in 1..(d + 1)} = {f[a].vertex : a \in 1..d} \cup {n}
    <3>1. \A a \in 1..d : now[a].vertex = f[a].vertex
      BY <1>14 DEF Consumed
    <3> HIDE DEF d, f, now, n
    <3>2. QED
      BY <1>13, <1>14, <3>1
  <2> HIDE DEF d, f, now, n, held, kept
  <2>3. QED
    BY <1>2, <2>1, <2>2
<1>18. GoodStep(w, "search", d + 1)
  <2>1. d + 1 \in Nat
    BY <1>2
  <2> HIDE DEF d
  <2>2. QED
    BY <1>10, <1>16, <1>17, <2>1 DEF GoodStep, WorkOk
<1>19. AheadOf(graph, Changes, w, "search", now, d + 1) = DeviceRest[w]
  BY <1>1, <1>16, DeviceRestOf DEF AheadOf
<1>20. PhaseInv' /\ Launched' /\ Left(Changes, DeviceRest') = Left(Changes, DeviceRest)
  <2> DEFINE e == d + 1
  <2> HIDE DEF e
  <2> QED BY <1>18, <1>19, QuietStep DEF e
<1>21. QED
  BY <1>1, <1>20

LEMMA BeginChangeStep ==
  ASSUME PhaseInv, Launched, NEW w, w \in 1..Len(Changes), BeginChange(w)
  PROVE  /\ PhaseInv' /\ Launched' /\ Working
         /\ Left(Changes, DeviceRest') = Left(Changes, DeviceRest)
<1> DEFINE now == FramesOf(path', cursor', w, 1)
           ch == Changes
           L == Len(Changes)
           s == ch[w][1]
           t == ch[w][2]
           kept == MarkedIn(marks', w)
           mid == [marks EXCEPT ![VisitedSlot(w, s)] = 1]
<1>1. /\ pc[w] = "begin" /\ Working
      /\ marks' = [marks EXCEPT ![VisitedSlot(w, s)] = 1, ![VisitedSlot(w, t)] = 1]
      /\ path' = [path EXCEPT ![PathSlot(w, 1)] = t]
      /\ cursor' = [cursor EXCEPT ![PathSlot(w, 1)] = 1]
      /\ depth' = [depth EXCEPT ![w] = 1]
      /\ pc' = [pc EXCEPT ![w] = "search"]
  BY DEF BeginChange, Working, Kernel, input, Source, Target
<1>2. /\ graph \in Adjacencies(V) /\ IsChangeList(graph, ch) /\ L \in Nat
      /\ w \in 1..L /\ w \in 1..Len(ch) /\ s \in V /\ t \in V /\ 1 \in 1..MaxLength
  BY PhaseFacts, VertexFacts
<1>3. /\ IsPool(path, PathSlots(L)) /\ IsPool(cursor, PathSlots(L))
      /\ IsPool(marks, VisitedSlots(L)) /\ MarkedIn(marks, w) = {}
  BY <1>1 DEF Launched, WorkInv, WorkOk
<1>4. Written(L, path, w, 1, t, path') /\ Written(L, cursor, w, 1, 1, cursor')
  <2> DEFINE p == path'
             q == cursor'
  <2>1. Writes(L, path, w, 1, t, p) /\ Writes(L, cursor, w, 1, 1, q)
    BY <1>1, <1>2, <1>3 DEF Writes
  <2>2. Written(L, path, w, 1, t, p) /\ Written(L, cursor, w, 1, 1, q)
    <3> HIDE DEF L, t, p, q
    <3> QED BY <2>1, PathSet
  <2>3. QED
    BY <2>2
<1>5. Marked(L, marks, w, s, 1, mid)
  <2>1. Marks(L, marks, w, s, 1, mid)
    BY <1>2, <1>3 DEF Marks
  <2> HIDE DEF L, s, mid
  <2>2. QED
    BY <2>1, MarkSet
<1>6. Marked(L, mid, w, t, 1, marks')
  <2> DEFINE q == marks'
  <2>1. marks' = [mid EXCEPT ![VisitedSlot(w, t)] = 1]
    BY <1>1
  <2>2. Marks(L, mid, w, t, 1, q)
    <3> HIDE DEF mid
    <3> QED BY <1>2, <1>5, <2>1 DEF Marks, Marked
  <2>3. Marked(L, mid, w, t, 1, q)
    <3> HIDE DEF L, t, mid, q
    <3> QED BY <2>2, MarkSet
  <2>4. QED
    BY <2>3
<1> HIDE DEF mid
<1>7. OwnSlices(w, "search", 1)
  BY <1>1, <1>4, <1>5, <1>6 DEF OwnSlices, Written, Marked
<1>8. now[1].vertex = t /\ now[1].offset = 1
  BY <1>4 DEF FramesOf, Written
<1>9. Searching(graph, ch, w, now, 1) /\ Ahead(graph, ch, w, now, 1) = Owned(graph, ch, w)
  <2> HIDE DEF now, ch
  <2> QED BY <1>2, <1>8, SearchBegins DEF t
<1>10. kept = {s} \cup {now[a].vertex : a \in 1..1}
  <2>1. kept = ({} \cup {s}) \cup {t}
    BY <1>3, <1>5, <1>6 DEF Marked
  <2>2. {now[a].vertex : a \in 1..1} = {t}
    <3>1. \A a \in 1..1 : a = 1
      OBVIOUS
    <3> HIDE DEF now, t
    <3>2. QED
      BY <1>8, <3>1
  <2> HIDE DEF kept, now, s, t
  <2>3. QED
    BY <2>1, <2>2
<1>11. GoodStep(w, "search", 1)
  BY <1>7, <1>9, <1>10 DEF GoodStep, WorkOk
<1>12. AheadOf(graph, Changes, w, "search", now, 1) = DeviceRest[w]
  BY <1>1, <1>9, DeviceRestOf DEF AheadOf
<1>13. QED
  BY <1>1, <1>11, <1>12, QuietStep

-----------------------------------------------------------------------------
(***************************************************************************)
(* The cycles accounted for, and the counts.                               *)
(***************************************************************************)
\* What is left is of the graph of the phase, and on a change.
LEMMA DeviceTouched ==
  ASSUME PhaseInv, NEW c \in Left(Changes, DeviceRest)
  PROVE  /\ c \in Cycles(graph, MaxLength) /\ c \notin between
         /\ phase = "delete" => c \in before
         /\ phase # "delete" => c \in after
<1>1. PICK j \in 1..Len(Changes) : c \in DeviceRest[j]
  BY DEF Left
<1>2. c \in Owned(graph, Changes, j)
  BY <1>1, DeviceWithin
<1>3. c \in Cycles(graph, MaxLength) /\ Len(Changes) \in Nat
  BY <1>2, PhaseFacts DEF Owned
<1>4. ~Untouched(Changes, c)
  BY <1>2, <1>3, HasOwner
<1>5. QED
  BY <1>3, <1>4, LiveCycles

LEMMA DeviceKept ==
  ASSUME Accounted(DeviceRest), Working, live' = live,
         Left(Changes, DeviceRest') = Left(Changes, DeviceRest)
  PROVE  Accounted(DeviceRest)'
BY WorkingSame DEF Accounted

\* A cycle found was accounted for by mistake, or was not accounted for.
LEMMA DeviceFound ==
  ASSUME PhaseInv, Accounted(DeviceRest), Working, NEW c \in Left(Changes, DeviceRest),
         Left(Changes, DeviceRest') = Left(Changes, DeviceRest) \ {c}, phase # "done",
         live' = IF phase = "delete" THEN live \ {c} ELSE live \cup {c}
  PROVE  /\ Accounted(DeviceRest)'
         /\ phase = "delete" => c \in live \ between
         /\ phase = "insert" => c \in after \ live
<1>1. phase = "delete" \/ phase = "insert"
  BY DEF PhaseInv
<1>2. /\ c \notin between
      /\ phase = "insert" => c \in after
  BY DeviceTouched
<1>3. /\ Changes' = Changes /\ phase' = phase /\ between' = between /\ after' = after
  BY WorkingSame
<1> DEFINE L == Left(Changes, DeviceRest)
           M == Left(Changes, DeviceRest')
<1>4. CASE phase = "delete"
  <2>1. live = between \cup L /\ live' = live \ {c} /\ M = L \ {c} /\ c \in L
    BY <1>4 DEF Accounted
  <2>2. live' = between \cup M
    <3> HIDE DEF L, M
    <3> QED BY <1>2, <2>1
  <2>3. QED
    BY <1>2, <1>3, <1>4, <2>1, <2>2 DEF Accounted
<1>5. CASE phase = "insert"
  <2>1. live = after \ L /\ live' = live \cup {c} /\ M = L \ {c} /\ c \in L
    BY <1>5 DEF Accounted
  <2>2. live' = after \ M
    <3> HIDE DEF L, M
    <3> QED BY <1>2, <1>5, <2>1
  <2>3. QED
    BY <1>2, <1>3, <1>5, <2>1, <2>2 DEF Accounted
<1>6. QED
  BY <1>1, <1>4, <1>5

LEMMA DeviceFinite ==
  ASSUME PhaseInv, Accounted(DeviceRest)
  PROVE  IsFiniteSet(live) /\ IsFiniteSet(before) /\ IsFiniteSet(after)
<1>1. IsFiniteSet(before) /\ IsFiniteSet(between) /\ IsFiniteSet(after)
  BY InputFinite DEF PhaseInv
<1>2. CASE phase = "delete"
  <2>1. between \subseteq before
    BY DEF PhaseInv, InputSound
  <2>2. Left(Changes, DeviceRest) \subseteq before
    BY <1>2, DeviceTouched
  <2>3. live \subseteq before
    BY <1>2, <2>1, <2>2 DEF Accounted
  <2>4. QED
    BY <1>1, <2>3, FS_Subset
<1>3. CASE phase # "delete"
  <2>1. live \subseteq after
    BY <1>3 DEF Accounted
  <2>2. QED
    BY <1>1, <2>1, FS_Subset
<1>4. QED
  BY <1>2, <1>3

\* What a cycle found makes of the number of those of a length.
LEMMA FoundCount ==
  ASSUME IsFiniteSet(live), NEW c, NEW n,
         \/ /\ phase = "delete" /\ c \in live /\ live' = live \ {c}
         \/ /\ phase = "insert" /\ c \notin live /\ live' = live \cup {c}
  PROVE  /\ Cardinality(OfLength(live, n)) \in Nat
         /\ Cardinality(OfLength(live', n)) =
              Cardinality(OfLength(live, n)) + (IF Len(c) = n THEN Sign ELSE 0)
<1> DEFINE old == Cardinality(OfLength(live, n))
           new == Cardinality(OfLength(live', n))
<1>1. old \in Nat
  BY OfLengthFinite
<1>2. CASE phase = "delete"
  <2>1. c \in live /\ live' = live \ {c} /\ Sign = -1
    BY <1>2, SignType
  <2>2. IsFiniteSet(live') /\ c \notin live' /\ live = live' \cup {c}
    BY <2>1, FS_Subset
  <2>3. new \in Nat
    BY <2>2, OfLengthFinite
  <2>4. old = IF Len(c) = n THEN new + 1 ELSE new
    <3> DEFINE S == live'
    <3>1. IsFiniteSet(S) /\ c \notin S /\ live = S \cup {c} /\ new = Cardinality(OfLength(S, n))
      BY <2>2
    <3> HIDE DEF S, new
    <3>2. QED
      BY <3>1, OfLengthAdd
  <2> HIDE DEF old, new
  <2>5. new = old + (IF Len(c) = n THEN Sign ELSE 0)
    BY <1>1, <2>1, <2>3, <2>4
  <2>6. QED
    BY <1>1, <2>5 DEF old, new
<1>3. CASE phase = "insert"
  <2>1. c \notin live /\ live' = live \cup {c} /\ Sign = 1
    BY <1>3, SignType
  <2>2. new = IF Len(c) = n THEN old + 1 ELSE old
    BY <2>1, OfLengthAdd
  <2> HIDE DEF old, new
  <2>3. new = old + (IF Len(c) = n THEN Sign ELSE 0)
    BY <1>1, <2>1, <2>2
  <2>4. QED
    BY <1>1, <2>3 DEF old, new
<1>4. QED
  BY <1>2, <1>3

LEMMA HistogramBefore ==
  ASSUME PhaseInv, Accounted(DeviceRest), NEW n \in Lengths
  PROVE  /\ HistogramOf(before, MaxLength)[n] = Cardinality(OfLength(before, n))
         /\ HistogramOf(before, MaxLength)[n] \in Nat
         /\ Cardinality(OfLength(live, n)) \in Nat
<1>1. HistogramOf(before, MaxLength)[n] = Cardinality(OfLength(before, n))
  BY DEF HistogramOf, Lengths
<1>2. QED
  BY <1>1, DeviceFinite, OfLengthFinite

\* A cycle found is counted once.
LEMMA CountOwnedLedger ==
  ASSUME PhaseInv, Launched, Accounted(DeviceRest), CudaSums, DeviceLedgerExact,
         NEW w, w \in 1..Len(Changes), CountOwned(w)
  PROVE  /\ Accounted(DeviceRest)' /\ CudaSums' /\ DeviceLedgerExact'
         /\ phase = "delete" => CycleOf(w) \in live \ between
         /\ phase = "insert" => CycleOf(w) \in after \ live
<1> DEFINE c == CycleOf(w)
           m == depth[w] + 1
<1>1. /\ Working /\ UNCHANGED <<deleted, delta, pc>>
      /\ tallies' = [tallies EXCEPT ![m] = @ + 1]
      /\ live' = IF phase = "delete" THEN live \ {c} ELSE live \cup {c}
      /\ phase # "done" /\ pc[w] = "search" /\ w \in DOMAIN pc
  BY DEF CountOwned, Working, Kernel, input, Launched
<1>2. /\ c \in Left(Changes, DeviceRest) /\ Len(c) = m
      /\ Left(Changes, DeviceRest') = Left(Changes, DeviceRest) \ {c}
  BY CountOwnedStep
<1>3. /\ Accounted(DeviceRest)'
      /\ phase = "delete" => c \in live \ between
      /\ phase = "insert" => c \in after \ live
  <2> HIDE DEF c
  <2> QED BY <1>1, <1>2, DeviceFound
<1>4. m \in Lengths
  <2> DEFINE d == depth[w]
  <2>1. d \in Nat \ {0} /\ d + 1 <= MaxLength /\ MaxLength \in Nat
    BY <1>1, WorkShape, VertexFacts
  <2> HIDE DEF d
  <2>2. d + 1 \in 2..MaxLength
    BY <2>1
  <2>3. QED
    BY <2>2 DEF d, Lengths
<1>5. Sign' = Sign /\ before' = before /\ phase' = phase
  BY <1>1, WorkingSame
<1>6. phase = "delete" \/ phase = "insert"
  BY <1>1 DEF PhaseInv
<1>7. pc # <<>>
  BY <1>1
<1> HIDE DEF c, m
<1>8. /\ tallies' \in [Lengths -> Nat] /\ tallies \in [Lengths -> Nat]
      /\ \A n \in Lengths : tallies'[n] = IF n = m THEN tallies[n] + 1 ELSE tallies[n]
  BY <1>1, <1>4 DEF CudaSums
<1>9. CudaSums'
  BY <1>1, <1>5, <1>7, <1>8 DEF CudaSums, NoCounts
<1>10. ASSUME NEW n \in Lengths
       PROVE  Cardinality(OfLength(live', n)) =
                HistogramOf(before, MaxLength)[n] - deleted[n] + Sign * tallies'[n]
  <2> DEFINE old == Cardinality(OfLength(live, n))
             new == Cardinality(OfLength(live', n))
             b == HistogramOf(before, MaxLength)[n]
             e == deleted[n]
             k == tallies[n]
             p == Sign * k
             q == Sign * tallies'[n]
             s == Sign
  <2>1. old \in Nat /\ new = old + (IF Len(c) = n THEN s ELSE 0)
    <3>1. IsFiniteSet(live)
      BY DeviceFinite
    <3>2. \/ phase = "delete" /\ c \in live /\ live' = live \ {c}
          \/ phase = "insert" /\ c \notin live /\ live' = live \cup {c}
      BY <1>1, <1>3, <1>6
    <3>3. QED
      BY <3>1, <3>2, FoundCount
  <2>2. b \in Nat /\ e \in Nat /\ k \in Nat /\ s \in Int /\ p \in Int
    BY HistogramBefore, SignTimes DEF CudaSums
  <2>3. q = IF n = m THEN p + s ELSE p
    BY <1>8, <2>2, SignTimes, SMTT(30)
  <2>4. old = b - e + p
    BY <1>1 DEF DeviceLedgerExact
  <2> HIDE DEF old, new, b, e, k, p, q, s
  <2>5. new = b - e + q
    BY <1>2, <2>1, <2>2, <2>3, <2>4
  <2>6. QED
    BY <2>5 DEF new, b, e, q
<1>11. DeviceLedgerExact'
  BY <1>1, <1>5, <1>10 DEF DeviceLedgerExact
<1>12. QED
  BY <1>3, <1>9, <1>11 DEF c

\* The other iterations find none.
LEMMA QuietLaunched ==
  ASSUME PhaseInv, Launched, Accounted(DeviceRest), CudaSums, DeviceLedgerExact,
         NEW w, w \in 1..Len(Changes),
         BeginChange(w) \/ Pop(w) \/ Pass(w) \/ Push(w)
  PROVE  /\ PhaseInv' /\ Launched' /\ Accounted(DeviceRest)' /\ CudaSums' /\ DeviceLedgerExact'
<1>1. /\ PhaseInv' /\ Launched' /\ Working
      /\ Left(Changes, DeviceRest') = Left(Changes, DeviceRest)
  BY BeginChangeStep, PopStep, PassStep, PushStep
<1>2. UNCHANGED <<tallies, deleted, delta, live>>
  BY DEF BeginChange, Pop, Pass, Push, Kernel
<1>3. Accounted(DeviceRest)'
  BY <1>1, <1>2, DeviceKept
<1>4. Sign' = Sign /\ before' = before /\ phase' = phase /\ Changes' = Changes
  BY <1>1, WorkingSame
<1>5. DeviceLedgerExact'
  BY <1>2, <1>4 DEF DeviceLedgerExact
<1>6. pc' # <<>>
  <2>1. DOMAIN pc' = 1..Len(Changes)
    BY <1>1, <1>4 DEF Launched
  <2>2. w \in DOMAIN pc'
    BY <2>1
  <2>3. QED
    BY <2>2
<1>7. CudaSums'
  BY <1>2, <1>4, <1>6 DEF CudaSums, NoCounts
<1>8. QED
  BY <1>1, <1>3, <1>5, <1>7

-----------------------------------------------------------------------------
(***************************************************************************)
(* The host.                                                               *)
(***************************************************************************)
\* Before a launch all cycles of all changes are left.
LEMMA DeviceFresh ==
  ASSUME PhaseInv, pc = <<>>
  PROVE  /\ \A w \in 1..Len(Changes) : DeviceRest[w] = Owned(graph, Changes, w)
         /\ Left(Changes, DeviceRest) = {c \in Cycles(graph, MaxLength) : ~Untouched(Changes, c)}
<1>1. \A w \in 1..Len(Changes) : DeviceRest[w] = Owned(graph, Changes, w)
  BY DEF DeviceRest
<1>2. Len(Changes) \in Nat
  BY PhaseFacts
<1>3. QED
  BY <1>1, <1>2, AllLeft

LEMMA LaunchStep ==
  ASSUME PhaseInv, pc = <<>>, Launch
  PROVE  /\ PhaseInv' /\ Launched' /\ Working
         /\ Left(Changes, DeviceRest') = Left(Changes, DeviceRest)
<1> DEFINE L == Len(Changes)
<1>1. /\ Working /\ phase # "done"
      /\ pc' = [w \in 1..L |-> "begin"] /\ depth' = [w \in 1..L |-> 0]
      /\ path' = [slot \in PathSlots(L) |-> Junk] /\ cursor' = [slot \in PathSlots(L) |-> Junk]
      /\ marks' = [slot \in VisitedSlots(L) |-> 0]
  BY DEF Launch, Working, vars, input, PathSlots, VisitedSlots
<1>2. /\ PhaseInv' /\ Changes' = Changes /\ graph' = graph /\ phase' = phase
  BY <1>1, WorkingSame
<1>3. L \in Nat
  BY PhaseFacts
<1>4. /\ IsPool(path', PathSlots(L)) /\ IsPool(cursor', PathSlots(L))
      /\ IsPool(marks', VisitedSlots(L))
  BY <1>1 DEF IsPool
<1>5. /\ pc' \in [1..L -> {"begin", "search", "exited"}] /\ depth' \in [1..L -> Nat]
      /\ DOMAIN pc' = 1..L /\ \A w \in 1..L : pc'[w] = "begin" /\ depth'[w] = 0
  BY <1>1
<1>6. ASSUME NEW w \in 1..L
      PROVE  MarkedIn(marks', w) = {}
  <2>1. \A v \in V : VisitedSlot(w, v) \in VisitedSlots(L)
    BY <1>3, VisitedSlices
  <2>2. \A v \in V : marks'[VisitedSlot(w, v)] = 0
    BY <1>1, <2>1
  <2>3. QED
    BY <2>2 DEF MarkedIn
<1>7. \A w \in 1..L : WorkInv(w)'
  BY <1>2, <1>5, <1>6 DEF WorkInv, WorkOk
<1>8. Launched'
  BY <1>1, <1>2, <1>4, <1>5, <1>7 DEF Launched
<1>9. \A w \in 1..L : DeviceRest'[w] = Owned(graph, Changes, w)
  BY <1>2, <1>5 DEF DeviceRest, AheadOf
<1>10. \A w \in 1..L : DeviceRest[w] = Owned(graph, Changes, w)
  BY DeviceFresh
<1>11. Left(Changes, DeviceRest') = Left(Changes, DeviceRest)
  <2> DEFINE new == DeviceRest'
             old == DeviceRest
  <2>1. \A w \in 1..Len(Changes) : new[w] = old[w]
    BY <1>9, <1>10
  <2>2. Left(Changes, new) = Left(Changes, old)
    <3> HIDE DEF new, old
    <3> QED BY <2>1, SameLeft
  <2>3. QED
    BY <2>2
<1>12. QED
  BY <1>1, <1>2, <1>8, <1>11

\* When the kernel is over nothing is left.
LEMMA FinishedLeft ==
  ASSUME PhaseInv, KernelInv, Finished
  PROVE  Left(Changes, DeviceRest) = {}
<1>1. CASE pc = <<>>
  <2>1. Changes = <<>>
    BY <1>1 DEF Finished
  <2>2. 1..Len(Changes) = {}
    BY <2>1
  <2>3. QED
    BY <2>2 DEF Left
<1>2. CASE Launched
  <2>1. ASSUME NEW w \in 1..Len(Changes)
        PROVE  DeviceRest[w] = {}
    <3>1. pc[w] = "exited" /\ WorkInv(w)
      BY <1>2 DEF Finished, KernelOver, Works, Launched
    <3>2. depth[w] = 0
      BY <3>1 DEF WorkInv, WorkOk
    <3>3. DeviceRest[w] = Ahead(graph, Changes, w, Stack(w), depth[w])
      BY <1>2, <3>1, DeviceRestOf DEF AheadOf
    <3>4. QED
      BY <3>2, <3>3, SearchOver
  <2>2. QED
    BY <2>1, NoneLeft
<1>3. QED
  BY <1>1, <1>2 DEF KernelInv

\* The counts of the deletions are copied back, and the batch is applied.
LEMMA CollectDeletionsStep ==
  ASSUME CudaInv, CollectDeletions
  PROVE  CudaInv' /\ live = between
<1> USE DEF CudaInv
<1>1. live = between
  BY FinishedLeft DEF Accounted, CollectDeletions
<1>2. PhaseInv'
  BY DEF PhaseInv, InputSound, Changed, CollectDeletions, input
<1>3. /\ pc' = <<>> /\ (phase = "insert")' /\ live' = live /\ between' = between
      /\ before' = before /\ deleted' = tallies /\ tallies' = NoCounts /\ delta' = delta
      /\ Sign' = 1 /\ phase = "delete"
  BY DEF CollectDeletions, FreeKernel, input, Sign
<1>4. Idle(next, owner, calls, visited)'
  BY DEF CollectDeletions, team
<1>5. (pc = <<>>)' /\ (phase # "delete")'
  BY <1>3
<1>6. (Left(Changes, DeviceRest) = {c \in Cycles(graph, MaxLength) : ~Untouched(Changes, c)})'
  BY <1>2, <1>5, DeviceFresh, PTL
<1>7. /\ (Cycles(graph, MaxLength) = after)'
      /\ (between = {c \in after : Untouched(Changes, c)})'
  BY <1>2, <1>5, LiveCycles, PTL
<1>8. Accounted(DeviceRest)'
  <2> DEFINE L == Left(Changes, DeviceRest)
  <2>1. Accounted(DeviceRest)' <=> live' = after' \ L'
    BY <1>3 DEF Accounted
  <2>2. after' \ L' = {c \in after' : Untouched(Changes', c)}
    BY <1>6, <1>7
  <2>3. QED
    BY <1>1, <1>3, <1>7, <2>1, <2>2
<1>9. NoCounts \in [Lengths -> Nat] /\ \A n \in Lengths : NoCounts[n] = 0
  BY DEF NoCounts
<1>10. CudaSums'
  BY <1>3, <1>9 DEF CudaSums, NoCounts
<1>11. ASSUME NEW n \in Lengths
       PROVE  Cardinality(OfLength(live', n)) =
                HistogramOf(before', MaxLength)[n] - deleted'[n] + Sign' * tallies'[n]
  <2> DEFINE c == Cardinality(OfLength(live, n))
             b == HistogramOf(before, MaxLength)[n]
             k == tallies[n]
             p == Sign * k
             e == deleted[n]
  <2>1. c = b - e + p
    BY <1>3 DEF DeviceLedgerExact
  <2>2. e = 0
    BY <1>3, <1>9 DEF CudaSums
  <2>3. b \in Nat /\ k \in Nat
    BY HistogramBefore DEF CudaSums
  <2>4. p = -k
    BY <1>3, <2>3, SignType
  <2>5. Sign' * tallies'[n] = 0
    BY <1>3, <1>9
  <2> HIDE DEF c, b, k, p, e
  <2>6. c = b - k + 0
    BY <2>1, <2>2, <2>3, <2>4
  <2>7. QED
    BY <1>3, <2>5, <2>6 DEF c, b, k
<1>12. DeviceLedgerExact'
  BY <1>3, <1>11 DEF DeviceLedgerExact
<1>13. KernelInv'
  BY <1>3 DEF KernelInv
<1>14. QED
  BY <1>1, <1>2, <1>4, <1>8, <1>10, <1>12, <1>13

\* The counts of both kernels make the delta, and the update returns.
LEMMA CollectInsertionsStep ==
  ASSUME CudaInv, CollectInsertions
  PROVE  CudaInv' /\ live = after /\ result' = HistogramOf(after, MaxLength)
<1> USE DEF CudaInv
<1>1. live = after
  BY FinishedLeft DEF Accounted, CollectInsertions
<1>2. /\ PhaseInv' /\ live' = live /\ after' = after /\ before' = before /\ (phase = "done")'
      /\ phase = "insert" /\ deleted' = deleted
      /\ tallies' = NoCounts /\ pc' = <<>>
      /\ delta' = [n \in Lengths |-> tallies[n] - deleted[n]]
      /\ result' = ApplyDelta(HistogramOf(before, MaxLength), delta')
  BY DEF PhaseInv, InputSound, Changed, CollectInsertions, FreeKernel, input
<1>3. Accounted(DeviceRest)'
  BY <1>1, <1>2 DEF Accounted
<1>4. Idle(next, owner, calls, visited)' /\ KernelInv'
  BY <1>2 DEF CollectInsertions, team, KernelInv
<1>5. NoCounts \in [Lengths -> Nat]
  BY DEF NoCounts
<1>6. CudaSums'
  BY <1>2, <1>5 DEF CudaSums, NoCounts
<1>7. ASSUME NEW n \in Lengths
      PROVE  /\ HistogramOf(before, MaxLength)[n] + delta'[n] = HistogramOf(after, MaxLength)[n]
             /\ HistogramOf(after, MaxLength)[n] \in Nat
             /\ Cardinality(OfLength(live', n)) =
                  HistogramOf(before', MaxLength)[n] - deleted'[n] + (delta'[n] + deleted'[n])
  <2> DEFINE c == Cardinality(OfLength(live, n))
             b == HistogramOf(before, MaxLength)[n]
             k == tallies[n]
             e == deleted[n]
             p == Sign * k
             d == delta'[n]
  <2>1. c = b - e + p
    BY <1>2 DEF DeviceLedgerExact
  <2>2. b \in Nat /\ k \in Nat /\ e \in Nat /\ c \in Nat
    BY HistogramBefore DEF CudaSums
  <2>3. p = k
    BY <1>2, <2>2, SignType
  <2>4. d = k - e
    BY <1>2
  <2>5. HistogramOf(after, MaxLength)[n] = c
    BY <1>1 DEF HistogramOf, Lengths
  <2> HIDE DEF c, b, k, e, p, d
  <2>6. b + d = c /\ c = b - e + (d + e)
    BY <2>1, <2>2, <2>3, <2>4
  <2>7. QED
    BY <1>2, <2>2, <2>5, <2>6 DEF b, c, d, e
<1>8. DeviceLedgerExact'
  BY <1>2, <1>7 DEF DeviceLedgerExact
<1>9. result' = HistogramOf(after, MaxLength)
  <2> DEFINE base == HistogramOf(before, MaxLength)
             new == HistogramOf(after, MaxLength)
             d == delta'
  <2>1. new = [n \in Lengths |-> new[n]]
    BY DEF HistogramOf, Lengths
  <2>2. \A n \in Lengths : base[n] + d[n] = new[n] /\ new[n] \in Nat
    BY <1>7
  <2>3. result' = ApplyDelta(base, d)
    BY <1>2
  <2> HIDE DEF base, new, d
  <2>4. ~(\E n \in Lengths : base[n] + d[n] < 0)
    BY <2>2
  <2>5. [n \in Lengths |-> base[n] + d[n]] = [n \in Lengths |-> new[n]]
    BY <2>2
  <2>6. QED
    BY <2>1, <2>3, <2>4, <2>5 DEF ApplyDelta, new
<1>10. QED
  BY <1>1, <1>2, <1>3, <1>4, <1>6, <1>8, <1>9

LEMMA LaunchInv ==
  ASSUME CudaInv, Launch
  PROVE  CudaInv'
<1> USE DEF CudaInv
<1>1. pc = <<>> /\ Changes # <<>> /\ UNCHANGED vars /\ UNCHANGED deleted /\ tallies' = NoCounts
  BY DEF Launch
<1>2. /\ PhaseInv' /\ Launched' /\ Working
      /\ Left(Changes, DeviceRest') = Left(Changes, DeviceRest)
  BY <1>1, LaunchStep
<1>3. UNCHANGED <<delta, live, next, owner, calls, visited>>
  BY <1>1 DEF vars
<1>4. Accounted(DeviceRest)'
  BY <1>2, <1>3, DeviceKept
<1>5. Sign' = Sign /\ before' = before /\ phase' = phase
  BY <1>2, WorkingSame
<1>6. tallies' = tallies
  BY <1>1 DEF CudaSums
<1>7. DeviceLedgerExact'
  BY <1>1, <1>3, <1>5, <1>6 DEF DeviceLedgerExact
<1>8. CudaSums'
  BY <1>1, <1>3, <1>5, <1>6 DEF CudaSums, NoCounts
<1>9. Idle(next, owner, calls, visited)'
  BY <1>3
<1>10. QED
  BY <1>2, <1>4, <1>7, <1>8, <1>9 DEF KernelInv

LEMMA KernelStep ==
  ASSUME CudaInv, NEW w, w \in Works, CountOwnedCycles(w)
  PROVE  CudaInv'
<1> USE DEF CudaInv
<1>1. Launched /\ w \in 1..Len(Changes)
  BY DEF KernelInv, Launched, Works
<1>2. UNCHANGED <<next, owner, calls, visited>>
  BY DEF CountOwnedCycles, BeginChange, Pop, CountOwned, Pass, Push, Kernel, team
<1>3. PhaseInv' /\ Launched' /\ Accounted(DeviceRest)' /\ CudaSums' /\ DeviceLedgerExact'
  <2>1. CASE CountOwned(w)
    BY <1>1, <2>1, CountOwnedStep, CountOwnedLedger
  <2>2. CASE ~CountOwned(w)
    BY <1>1, <2>2, QuietLaunched DEF CountOwnedCycles
  <2>3. QED
    BY <2>1, <2>2
<1>4. QED
  BY <1>2, <1>3 DEF KernelInv

-----------------------------------------------------------------------------
(***************************************************************************)
(* The invariant of both backends is inductive.                            *)
(***************************************************************************)
BackendInv ==
  /\ backend \in {"openmp", "cuda"}
  /\ backend = "openmp" => UpdateInv /\ pc = <<>>
  /\ backend = "cuda" => CudaInv

LEMMA BackendInit == InitUpdate => BackendInv
<1> SUFFICES ASSUME InitUpdate
             PROVE  BackendInv
  OBVIOUS
<1>1. UpdateInv /\ Init /\ pc = <<>> /\ tallies = NoCounts /\ deleted = NoCounts
  BY InvInit DEF InitUpdate
<1>2. PhaseInv /\ phase = "delete" /\ live = before /\ delta = NoCounts
  BY <1>1 DEF UpdateInv, Init
<1>3. Idle(next, owner, calls, visited)
  <2>1. <<>> \in Seq(Frames) /\ {} \in SUBSET V /\ 0 \in Nat
    OBVIOUS
  <2>2. QED
    BY <1>1, <2>1 DEF Init, Idle
<1>4. Accounted(DeviceRest)
  <2>1. /\ Left(Changes, DeviceRest) = {c \in Cycles(graph, MaxLength) : ~Untouched(Changes, c)}
        /\ Cycles(graph, MaxLength) = before
        /\ between = {c \in before : Untouched(Changes, c)}
    BY <1>1, <1>2, DeviceFresh, LiveCycles
  <2>2. QED
    BY <1>2, <2>1 DEF Accounted
<1>5. NoCounts \in [Lengths -> Nat] /\ \A n \in Lengths : NoCounts[n] = 0
  BY DEF NoCounts
<1>6. NoCounts \in [Lengths -> Int]
  BY <1>5
<1>7. CudaSums
  BY <1>1, <1>2, <1>5, <1>6 DEF CudaSums
<1>8. ASSUME NEW n \in Lengths
      PROVE  Cardinality(OfLength(live, n)) =
               HistogramOf(before, MaxLength)[n] - deleted[n] + Sign * tallies[n]
  <2> DEFINE b == HistogramOf(before, MaxLength)[n]
  <2>1. b = Cardinality(OfLength(live, n)) /\ b \in Nat
    BY <1>2, <1>4, HistogramBefore
  <2>2. deleted[n] = 0 /\ Sign * tallies[n] = 0
    BY <1>1, <1>5, SignTimes
  <2> HIDE DEF b
  <2>3. QED
    BY <2>1, <2>2 DEF b
<1>9. DeviceLedgerExact
  BY <1>2, <1>8 DEF DeviceLedgerExact
<1>10. CudaInv
  BY <1>1, <1>2, <1>3, <1>4, <1>7, <1>9 DEF CudaInv, KernelInv
<1>11. QED
  BY <1>1, <1>10 DEF BackendInv, InitUpdate

LEMMA CudaIdle ==
  ASSUME CudaInv, UNCHANGED allVars
  PROVE  CudaInv'
<1> USE DEF CudaInv
<1>1. UNCHANGED vars /\ UNCHANGED <<pc, depth, path, cursor, marks, tallies, deleted>>
  BY DEF allVars, device
<1>2. Working /\ UNCHANGED <<delta, live, next, owner, calls, visited>>
  BY <1>1 DEF vars, input, Working
<1>3. PhaseInv' /\ Sign' = Sign /\ before' = before /\ phase' = phase /\ Changes' = Changes /\ graph' = graph
  BY <1>2, WorkingSame
<1>4. \A w : Stack(w)' = Stack(w)
  BY <1>1 DEF Stack
<1>5. KernelInv'
  BY <1>1, <1>3, <1>4 DEF KernelInv, Launched, WorkInv
<1>6. DeviceRest' = DeviceRest
  BY <1>1, <1>3, <1>4 DEF DeviceRest
<1>7. Accounted(DeviceRest)'
  BY <1>2, <1>6, DeviceKept
<1>8. DeviceLedgerExact' /\ CudaSums'
  BY <1>1, <1>2, <1>3 DEF DeviceLedgerExact, CudaSums, NoCounts
<1>9. QED
  BY <1>2, <1>3, <1>5, <1>7, <1>8

LEMMA BackendNext ==
  ASSUME BackendInv, [NextUpdate]_allVars
  PROVE  BackendInv'
<1>1. CASE UNCHANGED allVars
  <2>1. backend' = backend /\ pc' = pc /\ UNCHANGED vars
    BY <1>1 DEF allVars, device
  <2>2. backend = "openmp" => UpdateInv'
    BY <2>1, InvIdle DEF BackendInv
  <2>3. backend = "cuda" => CudaInv'
    BY <1>1, CudaIdle DEF BackendInv
  <2>4. QED
    BY <2>1, <2>2, <2>3 DEF BackendInv
<1>2. CASE UpdateOpenMP
  <2>1. backend = "openmp" /\ backend' = backend /\ pc' = pc /\ Next
    BY <1>2 DEF UpdateOpenMP, device
  <2>2. UpdateInv'
    BY <2>1, InvNext DEF BackendInv
  <2>3. QED
    BY <2>1, <2>2 DEF BackendInv
<1>3. CASE UpdateCuda
  <2>1. backend = "cuda" /\ CudaInv
    BY <1>3 DEF UpdateCuda, BackendInv
  <2>2. backend' = backend
    BY <1>3 DEF UpdateCuda, Launch, CollectDeletions, CollectInsertions, CountOwnedCycles,
                BeginChange, Pop, CountOwned, Pass, Push, Kernel
  <2>3. CudaInv'
    BY <1>3, <2>1, LaunchInv, CollectDeletionsStep, CollectInsertionsStep, KernelStep
       DEF UpdateCuda
  <2>4. QED
    BY <2>1, <2>2, <2>3 DEF BackendInv
<1>4. QED
  BY <1>1, <1>2, <1>3 DEF NextUpdate, CudaReturned

\* The invariant of an update of either backend: that of the team, or the same of the
\* threads of the kernel, whose stacks and marks are slices of three pools.
THEOREM BackendInvariant == UpdateSpec => []BackendInv
<1>1. InitUpdate => BackendInv
  BY BackendInit
<1>2. BackendInv /\ [NextUpdate]_allVars => BackendInv'
  BY BackendNext
<1>3. QED
  BY <1>1, <1>2, PTL DEF UpdateSpec

-----------------------------------------------------------------------------
(***************************************************************************)
(* What follows.                                                           *)
(***************************************************************************)
\* A thread's slices hold a simple path from its change, by edges of the graph and
\* none of an earlier change.
LEMMA SlicePath ==
  ASSUME PhaseInv, Launched, NEW w, w \in 1..Len(Changes), pc[w] # "begin"
  PROVE  /\ MarkedIn(marks, w) = {Source(w)} \cup {VertexAt(w, a) : a \in 1..depth[w]}
         /\ \A a, b \in 1..depth[w] : a # b => VertexAt(w, a) # VertexAt(w, b)
         /\ depth[w] > 0 => VertexAt(w, 1) = Target(w)
         /\ \A a \in 1..(depth[w] - 1) :
              /\ <<VertexAt(w, a), VertexAt(w, a + 1)>> \in Edges(graph)
              /\ \A i \in 1..(w - 1) : Changes[i] # <<VertexAt(w, a), VertexAt(w, a + 1)>>
<1> DEFINE d == depth[w]
           f == Stack(w)
<1>1. CASE pc[w] = "search"
  <2>1. /\ Searching(graph, Changes, w, f, d) /\ d \in Nat \ {0}
        /\ MarkedIn(marks, w) = {Changes[w][1]} \cup {f[a].vertex : a \in 1..d}
        /\ \A a \in 1..d : f[a].vertex = VertexAt(w, a)
    BY <1>1, WorkShape
  <2>2. graph \in Adjacencies(V)
    BY PhaseFacts
  <2>3. /\ f[1].vertex = Changes[w][2]
        /\ \A a, b \in 1..d : a # b => f[a].vertex # f[b].vertex
        /\ \A a \in 1..(d - 1), j \in 1..(w - 1) :
             Changes[j] # <<f[a].vertex, f[a + 1].vertex>>
        /\ \A a \in 1..(d - 1) :
             /\ f[a].offset >= 2
             /\ graph[f[a].vertex][f[a].offset - 1] = f[a + 1].vertex
    BY <2>1 DEF Searching, IsSearch
  <2>4. \A a \in 1..d : /\ f[a].vertex \in V
                        /\ f[a].offset \in 1..(Len(graph[f[a].vertex]) + 1)
                        /\ Len(graph[f[a].vertex]) \in Nat
    <3> HIDE DEF d, f
    <3> QED BY <2>1, <2>2, SearchShape DEF FramesFit
  <2>5. 1 \in 1..d /\ \A a \in 1..(d - 1) : a \in 1..d /\ a + 1 \in 1..d
    <3> HIDE DEF d
    <3> QED BY <2>1
  <2>6. ASSUME NEW a \in 1..(d - 1)
        PROVE  f[a].offset - 1 \in 1..Len(graph[f[a].vertex])
    <3> DEFINE o == f[a].offset
               l == Len(graph[f[a].vertex])
    <3>1. o >= 2 /\ o \in 1..(l + 1) /\ l \in Nat
      BY <2>3, <2>4, <2>5
    <3> HIDE DEF o, l
    <3>2. o - 1 \in 1..l
      BY <3>1
    <3>3. QED
      BY <3>2 DEF o, l
  <2>7. \A a \in 1..(d - 1) : f[a + 1].vertex \in Neighbours(graph, f[a].vertex)
    <3> HIDE DEF d, f
    <3> QED BY <2>3, <2>6 DEF Neighbours
  <2>8. \A a \in 1..(d - 1) : <<f[a].vertex, f[a + 1].vertex>> \in Edges(graph)
    <3> HIDE DEF d, f
    <3> QED BY <2>4, <2>5, <2>7 DEF Edges
  <2>9. {f[a].vertex : a \in 1..d} = {VertexAt(w, a) : a \in 1..d}
    BY <2>1
  <2> DEFINE at(a) == VertexAt(w, a)
  <2>10. \A a \in 1..d : f[a].vertex = at(a)
    BY <2>1
  <2> HIDE DEF f, at, d
  <2>11. /\ \A a, b \in 1..d : a # b => at(a) # at(b)
         /\ at(1) = Changes[w][2]
    BY <2>3, <2>5, <2>10
  <2>12. ASSUME NEW a \in 1..(d - 1)
         PROVE  /\ <<at(a), at(a + 1)>> \in Edges(graph)
                /\ \A i \in 1..(w - 1) : Changes[i] # <<at(a), at(a + 1)>>
    <3>1. f[a].vertex = at(a) /\ f[a + 1].vertex = at(a + 1)
      BY <2>5, <2>10
    <3>2. QED
      BY <2>3, <2>8, <3>1
  <2>13. QED
    BY <2>1, <2>9, <2>11, <2>12 DEF d, at, Source, Target
<1>2. CASE pc[w] # "search"
  <2>1. pc[w] = "exited" /\ WorkInv(w)
    BY <1>2 DEF Launched
  <2>2. d = 0 /\ MarkedIn(marks, w) = {Changes[w][1]}
    BY <2>1 DEF WorkInv, WorkOk
  <2>3. 1..d = {} /\ 1..(d - 1) = {}
    BY <2>2
  <2>4. QED
    BY <2>2, <2>3 DEF Source
<1>3. QED
  BY <1>1, <1>2

LEMMA KernelSlices ==
  ASSUME PhaseInv, KernelInv
  PROVE  SlicesPrivate
<1>1. CASE pc = <<>>
  <2>1. Works = {}
    BY <1>1 DEF Works
  <2>2. QED
    BY <2>1 DEF SlicesPrivate
<1>2. CASE Launched
  <2>1. Works = 1..Len(Changes)
    BY <1>2 DEF Works, Launched
  <2>2. QED
    BY <1>2, <2>1, SlicePath DEF SlicesPrivate, MarkedIn
<1>3. QED
  BY <1>1, <1>2 DEF KernelInv

\* In the three pools no slice reaches into another, whatever the number of changes
\* and the order in which their threads take their steps.
THEOREM SlicesPrivateAlways == UpdateSpec => []SlicesPrivate
<1>1. BackendInv => SlicesPrivate
  <2>1. UpdateInv /\ pc = <<>> => SlicesPrivate
    BY KernelSlices DEF UpdateInv, KernelInv
  <2>2. CudaInv => SlicesPrivate
    BY KernelSlices DEF CudaInv
  <2>3. QED
    BY <2>1, <2>2 DEF BackendInv
<1>2. QED
  BY <1>1, BackendInvariant, PTL

\* The partial sums of the team, or the counts the threads of the kernel share, are
\* exact while they are made: no cycle is counted for two changes, and none is missed.
THEOREM LedgersExactAlways == UpdateSpec => []LedgersExact
<1>1. BackendInv => LedgersExact
  BY DEF BackendInv, UpdateInv, TeamLedger, CudaInv, LedgersExact
<1>2. QED
  BY <1>1, BackendInvariant, PTL

\* The visited buffers of the team are restored after each change.
THEOREM BuffersRestoredAlways == UpdateSpec => []VisitedRestored
<1>1. BackendInv => VisitedRestored
  <2>1. CudaInv => TeamInv
    BY IdleTeam, PhaseFacts DEF CudaInv
  <2>2. QED
    BY <2>1, TeamVisited DEF BackendInv, UpdateInv, CudaInv
<1>2. QED
  BY <1>1, BackendInvariant, PTL

LEMMA CudaAbstractNext ==
  ASSUME CudaInv, UpdateCuda
  PROVE  Abstract!Next \/ UNCHANGED Abstract!vars
<1>1. ASSUME NEW w, w \in Works, CountOwned(w)
      PROVE  Abstract!Next
  <2> DEFINE c == CycleOf(w)
  <2>1. Launched /\ w \in 1..Len(Changes)
    BY <1>1 DEF CudaInv, KernelInv, Launched, Works
  <2>2. /\ phase # "done" /\ result' = result
        /\ phase' = phase /\ before' = before /\ between' = between /\ after' = after
        /\ live' = IF phase = "delete" THEN live \ {c} ELSE live \cup {c}
    BY <1>1, <2>1 DEF CountOwned, Kernel, input, Launched
  <2>3. /\ phase = "delete" => c \in live \ between
        /\ phase = "insert" => c \in after \ live
    BY <1>1, <2>1, CountOwnedLedger DEF CudaInv
  <2>4. phase = "delete" \/ phase = "insert"
    BY <2>2 DEF CudaInv, PhaseInv
  <2> HIDE DEF c
  <2>5. Abstract!input' = Abstract!input
    BY <2>2 DEF Abstract!input
  <2>6. CASE phase = "delete"
    BY <2>2, <2>3, <2>5, <2>6 DEF Abstract!Next, Abstract!Drop
  <2>7. CASE phase = "insert"
    BY <2>2, <2>3, <2>5, <2>7 DEF Abstract!Next, Abstract!Add
  <2>8. QED
    BY <2>4, <2>6, <2>7
<1>2. CASE CollectDeletions
  <2>1. live = between
    BY <1>2, CollectDeletionsStep
  <2>2. QED
    BY <1>2, <2>1 DEF CollectDeletions, input, Abstract!Next, Abstract!Turn, Abstract!input
<1>3. CASE CollectInsertions
  <2>1. live = after /\ result' = HistogramOf(after, MaxLength)
    BY <1>3, CollectInsertionsStep
  <2>2. QED
    BY <1>3, <2>1 DEF CollectInsertions, input, Abstract!Next, Abstract!Report, Abstract!input
<1>4. ASSUME ~CollectDeletions, ~CollectInsertions, \A w \in Works : ~CountOwned(w)
      PROVE  UNCHANGED Abstract!vars
  BY <1>4 DEF UpdateCuda, CountOwnedCycles, Launch, BeginChange, Pop, Pass, Push, Kernel, vars,
              input, Abstract!vars, Abstract!input
<1>5. QED
  BY <1>1, <1>2, <1>3, <1>4

\* Either backend implements HistogramUpdate: the deletions leave out, and the
\* insertions take in, each cycle once, and what the update returns is the histogram
\* of the graph after the batch, never the logic error.
THEOREM BackendsImplementRecompute == UpdateSpec => UpdateIsRecompute
<1>1. InitUpdate => Abstract!Init
  BY DEF InitUpdate, Init, Abstract!Init
<1>2. BackendInv /\ [NextUpdate]_allVars => [Abstract!Next]_(Abstract!vars)
  <2> SUFFICES ASSUME BackendInv, [NextUpdate]_allVars
               PROVE  Abstract!Next \/ UNCHANGED Abstract!vars
    OBVIOUS
  <2>1. CASE UpdateOpenMP
    BY <2>1, AbstractNext DEF UpdateOpenMP, BackendInv
  <2>2. CASE UpdateCuda
    BY <2>2, CudaAbstractNext DEF UpdateCuda, BackendInv
  <2>3. CASE UNCHANGED allVars
    BY <2>3 DEF allVars, vars, input, Abstract!vars, Abstract!input
  <2>4. QED
    BY <2>1, <2>2, <2>3 DEF NextUpdate, CudaReturned
<1>3. QED
  BY <1>1, <1>2, BackendInvariant, PTL DEF UpdateSpec, UpdateIsRecompute, Abstract!Spec
=============================================================================
