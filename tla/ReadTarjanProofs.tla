-------------------------- MODULE ReadTarjanProofs --------------------------
(***************************************************************************)
(* What holds of the static Read-Tarjan search for every graph and length  *)
(* bound: the two paths a branch is opened for stay good until it takes    *)
(* them, it takes both, and every simple cycle is counted once.            *)
(***************************************************************************)
EXTENDS ReadTarjan, CycleFacts

USE RequestAssumption

-----------------------------------------------------------------------------
(***************************************************************************)
(* Searches, ways back to the root, and what is blocked for good.          *)
(***************************************************************************)
Settled(s) ==
  /\ s.onward \in Adjacencies(V)
  /\ \A v \in V : v \notin Neighbours(s.onward, v)
  /\ s.root \in V
  /\ s.inner = {v \in V : v > s.root}

\* A way back to the root past the blocked vertices, which goes there as soon as
\* there is an edge to it: a list names the root before any vertex above it.
Way(s, path, blocked) ==
  /\ path \in Seq(V) /\ Len(path) >= 1 /\ path[1] = s.root
  /\ \A i \in 2..Len(path) : /\ path[i] \in s.inner /\ path[i] \notin blocked
                             /\ path[i - 1] \in Neighbours(s.onward, path[i])
  /\ \A i, j \in 2..Len(path) : i # j => path[i] # path[j]
  /\ \A i \in 3..Len(path) : s.root \notin Neighbours(s.onward, path[i])

\* From the vertex no edge leads to the root or out of the blocked ones.
Dead(s, blocked, u) ==
  /\ s.root \notin Neighbours(s.onward, u)
  /\ \A w \in Neighbours(s.onward, u) : w \in s.inner => w \in blocked

\* The vertices a failing search has added.
Grown(s, before, after) ==
  /\ before \subseteq after /\ after \in SUBSET V
  /\ \A u \in after \ before : u \in s.inner /\ Dead(s, after, u)

\* The first m vertices of p are a simple path from the root that is blocked, and
\* whatever else is blocked is so for good.
OnPath(s, p, m, blocked) ==
  /\ m \in 1..Len(p) /\ p[1] = s.root
  /\ \A i \in 2..m : /\ p[i] \in s.inner /\ p[i] \in blocked
                     /\ p[i] \in Neighbours(s.onward, p[i - 1])
  /\ \A i, j \in 1..m : i # j => p[i] # p[j]
  /\ blocked \in SUBSET s.inner
  /\ \A u \in blocked : (\A i \in 1..m : p[i] # u) => Dead(s, blocked, u)

-----------------------------------------------------------------------------
(***************************************************************************)
(* The invariant of the search.                                            *)
(***************************************************************************)
MaxLength == IF bound = Unbounded THEN N ELSE bound

Calls == [vertex : V, offset : Nat \ {0}, blocked : SUBSET V, main : Seq(V),
          alternate : Seq(V), restore : Nat \ {0}]

\* How much of the path p belongs to the i-th of the calls.
Size(stack, p, i) == IF i = Len(stack) THEN Len(p) ELSE stack[i + 1].restore

Typed ==
  /\ graph \in Adjacencies(V)
  /\ \A v \in V : v \notin Neighbours(graph, v)
  /\ bound \in {Unbounded} \cup (Nat \ {0, 1})
  /\ cycles = Cycles(graph, MaxLength)
  /\ root \in -1..(N - 1)
  /\ calls \in Seq(Calls)
  /\ current \in Seq(V)
  /\ calls # <<>> => root \in V
  /\ histogram \in [Lengths -> Nat]

\* A known path continues from a vertex, by an edge its call has still to look at.
Kept(s, path, call) ==
  /\ Way(s, path, call.blocked)
  /\ \E j \in call.offset..Len(s.onward[call.vertex]) : s.onward[call.vertex][j] = Last(path)

CallFits(s, call, p, m) ==
  /\ OnPath(s, p, m, call.blocked)
  /\ p[m] = call.vertex
  /\ call.offset <= Len(s.onward[call.vertex]) + 1
  /\ call.main # None => Kept(s, call.main, call)
  /\ call.alternate # None => Kept(s, call.alternate, call)
  /\ call.main # None /\ call.alternate # None => Last(call.main) # Last(call.alternate)
  /\ \A j \in call.offset..Len(s.onward[call.vertex]) :
       s.onward[call.vertex][j] = s.root => call.main = <<s.root>>

\* The last edge a call has looked at leads to w.
Led(s, call, w) ==
  /\ call.offset - 1 \in 1..Len(s.onward[call.vertex])
  /\ s.onward[call.vertex][call.offset - 1] = w

\* Each call has a longer path than the one that made it, which it continues by
\* the edge that was looked at.
Stacked(s, stack, p) ==
  /\ \A i \in 1..Len(stack) : CallFits(s, stack[i], p, Size(stack, p, i))
  /\ \A i \in 2..Len(stack) : /\ Size(stack, p, i - 1) < Size(stack, p, i)
                             /\ Led(s, stack[i - 1], p[Size(stack, p, i - 1) + 1])

\* The first call has the root only.
Grounded(stack) == stack # <<>> => stack[1].restore = 1

SearchInv == Typed /\ Stacked(Search, calls, current) /\ Grounded(calls)

\* The cycle begins with the first m vertices of p, and goes on to w.
Begins(p, m, c) == m <= Len(c) /\ \A i \in 1..m : c[i] = p[i]
Takes(p, m, w, c) == Begins(p, m, c) /\ Successor(c, m) = w

\* It leaves the path by an edge that one of the calls has still to look at.
Left(s, stack, p, c) ==
  \E i \in 1..Len(stack) :
    /\ Begins(p, Size(stack, p, i), c)
    /\ \E j \in stack[i].offset..Len(s.onward[stack[i].vertex]) :
         s.onward[stack[i].vertex][j] = Successor(c, Size(stack, p, i))

Ahead(c) == c[1] > root \/ (c[1] = root /\ Left(Search, calls, current, c))

CountInv ==
  /\ counted \subseteq cycles
  /\ IsFiniteSet(counted)
  /\ \A c \in cycles : c \in counted <=> ~Ahead(c)
  /\ histogram = HistogramOf(counted, N)
  /\ result # NoResult => calls = <<>> /\ root + 1 = N

-----------------------------------------------------------------------------
(***************************************************************************)
(* Recursive functions.  A recursion that calls a function at lower ranks  *)
(* only has a solution.                                                    *)
(***************************************************************************)
WellFounded(D, F, T, n, rank) ==
  /\ F # {} /\ \A f \in F : f = [x \in D |-> f[x]]
  /\ T \in [F -> F] /\ n \in Nat /\ rank \in [D -> 0..n]
  /\ \A f, g \in F : \A x \in D :
       (\A y \in D : rank[y] < rank[x] => f[y] = g[y]) => T[f][x] = T[g][x]

LEMMA FixpointExists ==
  ASSUME NEW D, NEW F, NEW T, NEW n, NEW rank, WellFounded(D, F, T, n, rank)
  PROVE  \E f \in F : f = T[f]
<1>0. /\ F # {} /\ \A f \in F : f = [x \in D |-> f[x]]
      /\ T \in [F -> F] /\ n \in Nat /\ rank \in [D -> 0..n]
      /\ \A f, g \in F : \A x \in D :
           (\A y \in D : rank[y] < rank[x] => f[y] = g[y]) => T[f][x] = T[g][x]
  BY DEF WellFounded
<1> DEFINE Solves(f, m) == \A x \in D : rank[x] < m => f[x] = T[f][x]
           S == {m \in Nat : \E f \in F : Solves(f, m)}
<1>1. 0 \in S
  BY <1>0 DEF Solves
<1>2. ASSUME NEW m \in Nat, m \in S
      PROVE  m + 1 \in S
  <2>1. PICK f \in F : Solves(f, m)
    BY <1>2
  <2> DEFINE g == T[f]
  <2>2. g \in F
    BY <1>0
  <2> HIDE DEF g
  <2>3. ASSUME NEW x \in D, rank[x] < m + 1
        PROVE  g[x] = T[g][x]
    <3>1. \A y \in D : rank[y] < rank[x] => g[y] = f[y]
      <4> TAKE y \in D
      <4> HAVE rank[y] < rank[x]
      <4>1. rank[y] < m
        BY <1>0, <2>3
      <4>2. QED
        BY <2>1, <4>1 DEF g
    <3>2. T[g][x] = T[f][x]
      BY <1>0, <2>2, <3>1
    <3>3. QED
      BY <3>2 DEF g
  <2>4. QED
    BY <2>2, <2>3
<1>3. \A m \in Nat : m \in S
  <2> HIDE DEF S
  <2> QED BY <1>1, <1>2, NatSetInduction
<1>4. \E f \in F : Solves(f, n + 1)
  <2>1. n + 1 \in S
    <3> HIDE DEF S
    <3> QED BY <1>0, <1>3
  <2>2. QED
    BY <2>1
<1>5. PICK f \in F : Solves(f, n + 1)
  BY <1>4
<1>6. \A x \in D : f[x] = T[f][x]
  <2> TAKE x \in D
  <2>1. rank[x] \in 0..n /\ n \in Nat
    BY <1>0
  <2>2. QED
    BY <1>5, <2>1
<1>7. f = [x \in D |-> f[x]] /\ T[f] = [x \in D |-> T[f][x]]
  BY <1>0
<1>8. QED
  BY <1>6, <1>7

LEMMA RankInduction ==
  ASSUME NEW D, NEW n \in Nat, NEW rank \in [D -> 0..n], NEW P,
         \A x \in D : (\A y \in D : rank[y] < rank[x] => y \in P) => x \in P
  PROVE  \A x \in D : x \in P
<1> DEFINE S == {m \in Nat : \A x \in D : rank[x] < m => x \in P}
<1>1. 0 \in S
  OBVIOUS
<1>2. ASSUME NEW m \in Nat, m \in S
      PROVE  m + 1 \in S
  <2>1. ASSUME NEW x \in D, rank[x] < m + 1
        PROVE  x \in P
    <3>1. \A y \in D : rank[y] < rank[x] => rank[y] < m
      BY <2>1
    <3>2. QED
      BY <1>2, <3>1
  <2>2. QED
    BY <2>1
<1>3. \A m \in Nat : m \in S
  <2> HIDE DEF S
  <2> QED BY <1>1, <1>2, NatSetInduction
<1>4. n + 1 \in S
  BY <1>3
<1>5. QED
  BY <1>4

-----------------------------------------------------------------------------
(***************************************************************************)
(* The graph.                                                              *)
(***************************************************************************)
LEMMA VertexType == V \in SUBSET Int /\ V \in SUBSET Nat /\ IsFiniteSet(V) /\ Cardinality(V) = N
<1>1. IsFiniteSet(V) /\ Cardinality(V) = N
  BY FS_Interval DEF V
<1>2. QED
  BY <1>1 DEF V

LEMMA SettledShape ==
  ASSUME NEW s, Settled(s)
  PROVE  /\ DOMAIN s.onward = V /\ s.root \in V /\ s.inner \in SUBSET V /\ s.root \notin s.inner
         /\ \A v \in V : /\ Len(s.onward[v]) \in 0..N
                         /\ \A i \in 1..Len(s.onward[v]) :
                              /\ s.onward[v][i] \in V
                              /\ s.onward[v][i] \in Neighbours(s.onward, v)
                         /\ \A i, j \in 1..Len(s.onward[v]) :
                              i < j => s.onward[v][i] < s.onward[v][j]
                         /\ Neighbours(s.onward, v) \in SUBSET (V \ {v})
<1>1. /\ DOMAIN s.onward = V /\ s.root \in V /\ s.inner \in SUBSET V /\ s.root \notin s.inner
      /\ \A v \in V : Len(s.onward[v]) \in Nat
  <2>1. s.onward \in [V -> Seq(V)] /\ s.root \in V /\ s.inner = {v \in V : v > s.root}
    BY DEF Settled, Adjacencies
  <2>2. s.root \in Int
    BY <2>1, VertexType
  <2>3. \A v \in V : Len(s.onward[v]) \in Nat
    BY <2>1, LenProperties
  <2>4. QED
    BY <2>1, <2>2, <2>3
<1>2. ASSUME NEW v \in V, NEW i \in 1..Len(s.onward[v])
      PROVE  s.onward[v][i] \in V
  <2>1. s.onward[v] \in Seq(V)
    BY DEF Settled, Adjacencies
  <2>2. QED
    BY <2>1, ElementOfSeq
<1>3. \A v \in V : \A i, j \in 1..Len(s.onward[v]) :
        i < j => s.onward[v][i] < s.onward[v][j]
  BY DEF Settled, Adjacencies
<1>4. ASSUME NEW v \in V
      PROVE  Len(s.onward[v]) <= N
  <2> DEFINE g == s.onward[v]
             S == {m \in Nat : m + 1 <= Len(g) => m <= g[m + 1]}
  <2>1. /\ Len(g) \in Nat /\ \A i \in 1..Len(g) : g[i] \in 0..(N - 1)
        /\ \A i, j \in 1..Len(g) : i < j => g[i] < g[j]
    BY <1>1, <1>2, <1>3 DEF V
  <2> HIDE DEF g
  <2>2. 0 \in S
    BY <2>1
  <2>3. ASSUME NEW m \in Nat, m \in S
        PROVE  m + 1 \in S
    <3>1. CASE m + 2 <= Len(g)
      <4>1. m + 1 \in 1..Len(g) /\ m + 2 \in 1..Len(g) /\ m + 1 < m + 2
        BY <2>1, <3>1
      <4>2. g[m + 1] < g[m + 2] /\ g[m + 1] \in Int /\ g[m + 2] \in Int /\ m <= g[m + 1]
        BY <2>1, <2>3, <4>1
      <4>3. (m + 1) + 1 = m + 2
        OBVIOUS
      <4>4. QED
        BY <4>2, <4>3
    <3>2. CASE ~(m + 2 <= Len(g))
      BY <2>1, <3>2
    <3>3. QED
      BY <3>1, <3>2
  <2>4. \A m \in Nat : m \in S
    <3> HIDE DEF S
    <3> QED BY <2>2, <2>3, NatSetInduction
  <2>5. QED
    <3>1. CASE Len(g) = 0
      BY <3>1 DEF g
    <3>2. CASE Len(g) # 0
      <4>1. Len(g) - 1 \in Nat /\ (Len(g) - 1) + 1 = Len(g) /\ Len(g) \in 1..Len(g)
        BY <2>1, <3>2
      <4>2. Len(g) - 1 <= g[Len(g)]
        BY <2>1, <2>4, <4>1
      <4>3. Len(g) <= N
        BY <2>1, <4>1, <4>2
      <4>4. QED
        BY <4>3 DEF g
    <3>3. QED
      BY <3>1, <3>2
<1>5. \A v \in V : Neighbours(s.onward, v) \in SUBSET (V \ {v})
  BY <1>2 DEF Neighbours, Settled
<1>6. \A v \in V : \A i \in 1..Len(s.onward[v]) : s.onward[v][i] \in Neighbours(s.onward, v)
  BY DEF Neighbours
<1>7. QED
  BY <1>1, <1>2, <1>3, <1>4, <1>5, <1>6

-----------------------------------------------------------------------------
(***************************************************************************)
(* find_path_dfs.                                                          *)
(***************************************************************************)
Places == V \X (Nat \ {0}) \X SUBSET V
Results == [path : Seq(V), visited : SUBSET V]

\* The body of the recursion.
Look(s, blocked, dfs, at) ==
  LET v == at[1]
      next == s.onward[v][at[2]]
      below == dfs[<<next, 1, at[3] \cup {next}>>]
      onFrom(visited) == dfs[<<v, at[2] + 1, visited>>]
  IN  IF at[2] > Len(s.onward[v]) THEN [path |-> None, visited |-> at[3]]
      ELSE IF next = s.root THEN [path |-> <<s.root, v>>, visited |-> at[3]]
      ELSE IF next \notin s.inner \/ next \in at[3] \cup blocked THEN onFrom(at[3])
      ELSE IF below.path = None THEN onFrom(below.visited)
      ELSE [below EXCEPT !.path = Append(@, v)]

\* Where the edge leads that is looked at, and the two calls that may follow.
NextOf(s, at) == s.onward[at[1]][at[2]]
Below(s, at) == <<NextOf(s, at), 1, at[3] \cup {NextOf(s, at)}>>
Onward(at, visited) == <<at[1], at[2] + 1, visited>>

LEMMA LookCases ==
  ASSUME NEW s, NEW blocked, NEW dfs, NEW at \in Places, Len(s.onward[at[1]]) \in Nat
  PROVE  /\ at[2] > Len(s.onward[at[1]]) =>
              Look(s, blocked, dfs, at) = [path |-> None, visited |-> at[3]]
         /\ at[2] <= Len(s.onward[at[1]]) =>
            /\ NextOf(s, at) = s.root =>
                 Look(s, blocked, dfs, at) = [path |-> <<s.root, at[1]>>, visited |-> at[3]]
            /\ /\ NextOf(s, at) # s.root
               /\ NextOf(s, at) \notin s.inner \/ NextOf(s, at) \in at[3] \cup blocked
               => Look(s, blocked, dfs, at) = dfs[Onward(at, at[3])]
            /\ /\ NextOf(s, at) # s.root
               /\ NextOf(s, at) \in s.inner /\ NextOf(s, at) \notin at[3] \cup blocked
               => Look(s, blocked, dfs, at) =
                    IF dfs[Below(s, at)].path = None
                    THEN dfs[Onward(at, dfs[Below(s, at)].visited)]
                    ELSE [dfs[Below(s, at)] EXCEPT !.path = Append(dfs[Below(s, at)].path, at[1])]
<1>1. at[2] <= Len(s.onward[at[1]]) => ~(at[2] > Len(s.onward[at[1]]))
  BY DEF Places
<1>2. Look(s, blocked, dfs, at) =
        IF at[2] > Len(s.onward[at[1]]) THEN [path |-> None, visited |-> at[3]]
        ELSE IF NextOf(s, at) = s.root THEN [path |-> <<s.root, at[1]>>, visited |-> at[3]]
        ELSE IF NextOf(s, at) \notin s.inner \/ NextOf(s, at) \in at[3] \cup blocked
             THEN dfs[Onward(at, at[3])]
        ELSE IF dfs[Below(s, at)].path = None
             THEN dfs[Onward(at, dfs[Below(s, at)].visited)]
        ELSE [dfs[Below(s, at)] EXCEPT !.path = Append(dfs[Below(s, at)].path, at[1])]
  BY Zenon DEF Look, NextOf, Below, Onward
<1>3. QED
  BY <1>1, <1>2, Zenon

LEMMA DfsIsChoice ==
  ASSUME NEW s, Settled(s), NEW blocked
  PROVE  Dfs(s, blocked) = CHOOSE f : f = [at \in Places |-> Look(s, blocked, f, at)]
BY SettledShape DEF Dfs, Places, Look

\* How much a call has left: the vertices not visited, then the edges of its vertex.
EdgesLeft(at) == IF at[2] <= N THEN N + 1 - at[2] ELSE 0
Unvisited(at) == Cardinality(V \ at[3])
Rank == [at \in Places |-> Unvisited(at) * (N + 1) + EdgesLeft(at)]

LEMMA LexicographicRank ==
  ASSUME NEW a \in 0..N, NEW b \in 0..N, NEW p \in 0..N, NEW q \in 0..N
  PROVE  /\ a * (N + 1) + p \in 0..(N * (N + 1) + N)
         /\ b < a => b * (N + 1) + q < a * (N + 1) + p
         /\ b = a /\ q < p => b * (N + 1) + q < a * (N + 1) + p
<1> DEFINE m == N + 1
<1>1. m \in Nat /\ N \in Nat
  OBVIOUS
<1>2. \A x, y \in 0..N : x * m \in Nat /\ (x < y => x * m + m <= y * m) /\ (x = y => x * m = y * m)
  <2> TAKE x, y \in 0..N
  <2>1. x * m \in Nat
    BY <1>1
  <2>2. ASSUME x < y
        PROVE  x * m + m <= y * m
    <3>1. y = x + (y - x) /\ y - x >= 1
      BY <2>2
    <3>2. y * m = x * m + (y - x) * m
      BY <3>1, <1>1
    <3>3. (y - x) * m >= m
      BY <3>1, <1>1
    <3>4. QED
      BY <3>2, <3>3, <1>1
  <2>3. QED
    BY <2>1, <2>2
<1>3. a * m <= N * m /\ N * m \in Nat
  BY <1>1, <1>2
<1>4. a * m \in Nat /\ b * m \in Nat
  BY <1>2
<1> HIDE DEF m
<1>5. p <= N /\ q <= N /\ p >= 0 /\ m = N + 1
  BY DEF m
<1>6. /\ a * m + p \in 0..(N * m + N)
      /\ b < a => b * m + q < a * m + p
      /\ b = a /\ q < p => b * m + q < a * m + p
  BY <1>1, <1>2, <1>3, <1>4, <1>5
<1>7. QED
  BY <1>6 DEF m

LEMMA RankFalls ==
  /\ Rank \in [Places -> 0..(N * (N + 1) + N)]
  /\ \A at, on \in Places :
       at[3] \subseteq on[3] /\ on[1] = at[1] /\ on[2] = at[2] + 1 /\ at[2] <= N
         => Rank[on] < Rank[at]
  /\ \A at, on \in Places :
       at[3] \subseteq on[3] /\ at[3] # on[3] => Rank[on] < Rank[at]
<1>1. \A at \in Places : /\ EdgesLeft(at) \in 0..N /\ Unvisited(at) \in 0..N
                         /\ IsFiniteSet(V \ at[3])
  <2> TAKE at \in Places
  <2>1. at[2] \in Nat \ {0} /\ at[3] \in SUBSET V
    BY DEF Places
  <2>2. EdgesLeft(at) \in 0..N
    BY <2>1 DEF EdgesLeft
  <2>3. IsFiniteSet(V \ at[3]) /\ Cardinality(V \ at[3]) <= Cardinality(V)
    BY VertexType, FS_Subset
  <2>4. Cardinality(V \ at[3]) \in Nat
    BY <2>3, FS_CardinalityType
  <2>5. QED
    BY <2>2, <2>3, <2>4, VertexType DEF Unvisited
<1>2. ASSUME NEW at \in Places, NEW on \in Places, at[3] \subseteq on[3]
      PROVE  /\ Unvisited(on) <= Unvisited(at)
             /\ at[3] # on[3] => Unvisited(on) < Unvisited(at)
  <2>1. V \ on[3] \subseteq V \ at[3] /\ IsFiniteSet(V \ at[3])
    BY <1>1, <1>2
  <2>2. Cardinality(V \ on[3]) <= Cardinality(V \ at[3])
    BY <2>1, FS_Subset
  <2>3. ASSUME at[3] # on[3]
        PROVE  Cardinality(V \ on[3]) < Cardinality(V \ at[3])
    <3>1. on[3] \in SUBSET V
      BY DEF Places
    <3>2. V \ on[3] # V \ at[3]
      BY <1>2, <2>3, <3>1
    <3>3. QED
      BY <2>1, <2>2, <3>2, <1>1, FS_Subset, FS_CardinalityType
  <2>4. QED
    BY <2>2, <2>3 DEF Unvisited
<1>3. ASSUME NEW at \in Places, NEW on \in Places,
             \/ Unvisited(on) < Unvisited(at)
             \/ Unvisited(on) = Unvisited(at) /\ EdgesLeft(on) < EdgesLeft(at)
      PROVE  Rank[on] < Rank[at]
  <2>1. /\ Unvisited(at) \in 0..N /\ Unvisited(on) \in 0..N
        /\ EdgesLeft(at) \in 0..N /\ EdgesLeft(on) \in 0..N
    BY <1>1
  <2>2. Unvisited(on) * (N + 1) + EdgesLeft(on) < Unvisited(at) * (N + 1) + EdgesLeft(at)
    BY <1>3, <2>1, LexicographicRank
  <2>3. QED
    BY <2>2 DEF Rank
<1>4. Rank \in [Places -> 0..(N * (N + 1) + N)]
  <2>1. \A at \in Places : Rank[at] \in 0..(N * (N + 1) + N)
    <3> TAKE at \in Places
    <3>1. Unvisited(at) * (N + 1) + EdgesLeft(at) \in 0..(N * (N + 1) + N)
      <4>1. Unvisited(at) \in 0..N /\ EdgesLeft(at) \in 0..N
        BY <1>1
      <4>2. QED
        BY <4>1, LexicographicRank
    <3>2. QED
      BY <3>1 DEF Rank
  <2>2. QED
    BY <2>1 DEF Rank
<1>5. ASSUME NEW at \in Places, NEW on \in Places, at[3] \subseteq on[3],
             on[1] = at[1], on[2] = at[2] + 1, at[2] <= N
      PROVE  Rank[on] < Rank[at]
  <2>1. EdgesLeft(on) < EdgesLeft(at)
    <3>1. at[2] \in Nat /\ on[2] \in Nat
      BY DEF Places
    <3>2. QED
      BY <1>5, <3>1 DEF EdgesLeft
  <2>2. Unvisited(on) < Unvisited(at) \/ Unvisited(on) = Unvisited(at)
    <3>1. Unvisited(on) <= Unvisited(at)
      BY <1>2, <1>5
    <3>2. Unvisited(at) \in 0..N /\ Unvisited(on) \in 0..N
      BY <1>1
    <3>3. QED
      BY <3>1, <3>2
  <2>3. QED
    BY <1>3, <2>1, <2>2
<1>6. ASSUME NEW at \in Places, NEW on \in Places, at[3] \subseteq on[3], at[3] # on[3]
      PROVE  Rank[on] < Rank[at]
  <2>1. Unvisited(on) < Unvisited(at)
    BY <1>2, <1>6
  <2>2. QED
    BY <1>3, <2>1
<1>7. QED
  BY <1>4, <1>5, <1>6

LEMMA CallsBelow ==
  ASSUME NEW s, Settled(s), NEW at \in Places, at[2] <= Len(s.onward[at[1]])
  PROVE  /\ NextOf(s, at) \in V /\ NextOf(s, at) \in Neighbours(s.onward, at[1])
         /\ \A S \in SUBSET V : at[3] \subseteq S =>
              /\ Onward(at, S) \in Places /\ Rank[Onward(at, S)] < Rank[at]
              /\ Onward(at, S)[1] = at[1] /\ Onward(at, S)[2] = at[2] + 1 /\ Onward(at, S)[3] = S
         /\ /\ Below(s, at) \in Places
            /\ NextOf(s, at) \notin at[3] => Rank[Below(s, at)] < Rank[at]
            /\ Below(s, at)[1] = NextOf(s, at) /\ Below(s, at)[2] = 1
            /\ Below(s, at)[3] = at[3] \cup {NextOf(s, at)}
<1>1. at[1] \in V /\ at[2] \in Nat \ {0} /\ at[3] \in SUBSET V
  BY DEF Places
<1>2. at[2] <= N /\ at[2] \in 1..Len(s.onward[at[1]])
  BY <1>1, SettledShape
<1>3. NextOf(s, at) \in V /\ NextOf(s, at) \in Neighbours(s.onward, at[1])
  BY <1>1, <1>2, SettledShape DEF NextOf
<1>4. ASSUME NEW S \in SUBSET V, at[3] \subseteq S
      PROVE  /\ Onward(at, S) \in Places /\ Rank[Onward(at, S)] < Rank[at]
             /\ Onward(at, S)[1] = at[1] /\ Onward(at, S)[2] = at[2] + 1 /\ Onward(at, S)[3] = S
  <2>1. /\ Onward(at, S) \in Places /\ Onward(at, S)[1] = at[1]
        /\ Onward(at, S)[2] = at[2] + 1 /\ Onward(at, S)[3] = S
    BY <1>1 DEF Places, Onward
  <2>2. Rank[Onward(at, S)] < Rank[at]
    BY <1>2, <1>4, <2>1, RankFalls
  <2>3. QED
    BY <2>1, <2>2
<1>5. /\ Below(s, at) \in Places
      /\ Below(s, at)[1] = NextOf(s, at) /\ Below(s, at)[2] = 1
      /\ Below(s, at)[3] = at[3] \cup {NextOf(s, at)}
  BY <1>1, <1>3 DEF Places, Below
<1>6. NextOf(s, at) \notin at[3] => Rank[Below(s, at)] < Rank[at]
  BY <1>5, RankFalls
<1>7. QED
  BY <1>3, <1>4, <1>5, <1>6

\* The recursion is well-founded.
LEMMA LookTyped ==
  ASSUME NEW s, Settled(s), NEW blocked, NEW f \in [Places -> Results],
         \A at \in Places : at[3] \subseteq f[at].visited,
         NEW at \in Places
  PROVE  Look(s, blocked, f, at) \in Results /\ at[3] \subseteq Look(s, blocked, f, at).visited
<1>1. /\ at[1] \in V /\ at[2] \in Nat \ {0} /\ at[3] \in SUBSET V
      /\ Len(s.onward[at[1]]) \in Nat /\ s.root \in V
  BY SettledShape DEF Places
<1>2. \A on \in Places : f[on] \in Results /\ on[3] \subseteq f[on].visited
                         /\ f[on].visited \in SUBSET V /\ f[on].path \in Seq(V)
  BY DEF Results
<1>3. CASE at[2] > Len(s.onward[at[1]])
  <2>1. Look(s, blocked, f, at) = [path |-> None, visited |-> at[3]]
    BY <1>1, <1>3, LookCases
  <2>2. None \in Seq(V)
    BY DEF None
  <2>3. QED
    BY <1>1, <2>1, <2>2 DEF Results
<1>4. CASE at[2] <= Len(s.onward[at[1]])
  <2>1. CASE NextOf(s, at) = s.root
    <3>1. Look(s, blocked, f, at) = [path |-> <<s.root, at[1]>>, visited |-> at[3]]
      BY <1>1, <1>4, <2>1, LookCases
    <3>2. <<s.root, at[1]>> \in Seq(V)
      BY <1>1
    <3>3. QED
      BY <1>1, <3>1, <3>2 DEF Results
  <2>2. CASE /\ NextOf(s, at) # s.root
             /\ NextOf(s, at) \notin s.inner \/ NextOf(s, at) \in at[3] \cup blocked
    <3>1. Look(s, blocked, f, at) = f[Onward(at, at[3])]
      BY <1>1, <1>4, <2>2, LookCases
    <3>2. Onward(at, at[3]) \in Places /\ Onward(at, at[3])[3] = at[3]
      BY <1>1, <1>4, CallsBelow
    <3>3. QED
      BY <1>2, <3>1, <3>2
  <2>3. CASE /\ NextOf(s, at) # s.root
             /\ NextOf(s, at) \in s.inner /\ NextOf(s, at) \notin at[3] \cup blocked
    <3> DEFINE below == f[Below(s, at)]
    <3>1. Below(s, at) \in Places /\ at[3] \subseteq Below(s, at)[3]
      BY <1>1, <1>4, CallsBelow
    <3>2. /\ below \in Results /\ below.visited \in SUBSET V /\ below.path \in Seq(V)
          /\ at[3] \subseteq below.visited
      BY <1>2, <3>1
    <3>3. CASE below.path = None
      <4>1. Look(s, blocked, f, at) = f[Onward(at, below.visited)]
        BY <1>1, <1>4, <2>3, <3>3, LookCases
      <4>2. Onward(at, below.visited) \in Places /\ Onward(at, below.visited)[3] = below.visited
        BY <1>4, <3>2, CallsBelow
      <4>3. QED
        BY <1>2, <3>2, <4>1, <4>2
    <3>4. CASE below.path # None
      <4>1. Look(s, blocked, f, at) = [below EXCEPT !.path = Append(below.path, at[1])]
        BY <1>1, <1>4, <2>3, <3>4, LookCases
      <4>2. Append(below.path, at[1]) \in Seq(V)
        BY <1>1, <3>2, AppendProperties
      <4> HIDE DEF below
      <4>3. QED
        BY <3>2, <4>1, <4>2 DEF Results
    <3>5. QED
      BY <3>3, <3>4
  <2>4. QED
    BY <2>1, <2>2, <2>3
<1>5. QED
  BY <1>1, <1>3, <1>4

LEMMA LookAgrees ==
  ASSUME NEW s, Settled(s), NEW blocked, NEW f \in [Places -> Results], NEW g,
         \A at \in Places : at[3] \subseteq f[at].visited,
         NEW at \in Places,
         \A on \in Places : Rank[on] < Rank[at] => f[on] = g[on]
  PROVE  Look(s, blocked, f, at) = Look(s, blocked, g, at)
<1>1. /\ at[1] \in V /\ at[2] \in Nat \ {0} /\ at[3] \in SUBSET V
      /\ Len(s.onward[at[1]]) \in Nat
  BY SettledShape DEF Places
<1>2. CASE at[2] > Len(s.onward[at[1]])
  BY <1>1, <1>2, LookCases
<1>3. CASE at[2] <= Len(s.onward[at[1]])
  <2>1. \A S \in SUBSET V : at[3] \subseteq S => f[Onward(at, S)] = g[Onward(at, S)]
    BY <1>3, CallsBelow
  <2>2. CASE NextOf(s, at) = s.root
    BY <1>1, <1>3, <2>2, LookCases
  <2>3. CASE /\ NextOf(s, at) # s.root
             /\ NextOf(s, at) \notin s.inner \/ NextOf(s, at) \in at[3] \cup blocked
    BY <1>1, <1>3, <2>1, <2>3, LookCases
  <2>4. CASE /\ NextOf(s, at) # s.root
             /\ NextOf(s, at) \in s.inner /\ NextOf(s, at) \notin at[3] \cup blocked
    <3> DEFINE below == f[Below(s, at)]
    <3>1. /\ Below(s, at) \in Places /\ at[3] \subseteq Below(s, at)[3]
          /\ Rank[Below(s, at)] < Rank[at]
      BY <1>1, <1>3, <2>4, CallsBelow
    <3>2. below = g[Below(s, at)] /\ below.visited \in SUBSET V /\ at[3] \subseteq below.visited
      <4>1. below \in Results
        BY <3>1
      <4>2. QED
        BY <3>1, <4>1 DEF Results
    <3>3. f[Onward(at, below.visited)] = g[Onward(at, below.visited)]
      BY <2>1, <3>2
    <3>4. CASE below.path = None
      <4>1. Look(s, blocked, f, at) = f[Onward(at, below.visited)]
        BY <1>1, <1>3, <2>4, <3>4, LookCases
      <4>2. Look(s, blocked, g, at) = g[Onward(at, g[Below(s, at)].visited)]
        BY <1>1, <1>3, <2>4, <3>2, <3>4, LookCases
      <4>3. QED
        BY <3>2, <3>3, <4>1, <4>2
    <3>5. CASE below.path # None
      <4>1. Look(s, blocked, f, at) = [below EXCEPT !.path = Append(below.path, at[1])]
        BY <1>1, <1>3, <2>4, <3>5, LookCases
      <4>2. Look(s, blocked, g, at)
              = [g[Below(s, at)] EXCEPT !.path = Append(g[Below(s, at)].path, at[1])]
        BY <1>1, <1>3, <2>4, <3>2, <3>5, LookCases
      <4>3. QED
        BY <3>2, <4>1, <4>2
    <3>6. QED
      BY <3>4, <3>5
  <2>5. QED
    BY <2>2, <2>3, <2>4
<1>4. QED
  BY <1>1, <1>2, <1>3

LEMMA DfsLooks ==
  ASSUME NEW s, Settled(s), NEW blocked
  PROVE  \A at \in Places : Dfs(s, blocked)[at] = Look(s, blocked, Dfs(s, blocked), at)
<1> DEFINE F == {f \in [Places -> Results] : \A at \in Places : at[3] \subseteq f[at].visited}
           T == [f \in F |-> [at \in Places |-> Look(s, blocked, f, at)]]
<1>1. F # {}
  <2> DEFINE f == [at \in Places |-> [path |-> None, visited |-> V]]
  <2>1. \A at \in Places : at[3] \in SUBSET V
    BY DEF Places
  <2>2. None \in Seq(V)
    BY DEF None
  <2>3. f \in F
    BY <2>1, <2>2 DEF Results
  <2>4. QED
    BY <2>3
<1>2. \A f \in F : f = [at \in Places |-> f[at]]
  OBVIOUS
<1>3. T \in [F -> F]
  <2>1. ASSUME NEW f \in F
        PROVE  [at \in Places |-> Look(s, blocked, f, at)] \in F
    BY LookTyped
  <2>2. QED
    BY <2>1
<1>4. ASSUME NEW f \in F, NEW g \in F, NEW at \in Places,
             \A on \in Places : Rank[on] < Rank[at] => f[on] = g[on]
      PROVE  T[f][at] = T[g][at]
  BY <1>4, LookAgrees
<1>5. \E f \in F : f = T[f]
  <2>1. N * (N + 1) + N \in Nat /\ Rank \in [Places -> 0..(N * (N + 1) + N)]
    <3>1. N \in Nat /\ N + 1 \in Nat
      OBVIOUS
    <3>2. N * (N + 1) \in Nat
      BY <3>1
    <3>3. QED
      BY <3>1, <3>2, RankFalls
  <2> DEFINE n == N * (N + 1) + N
  <2>2. n \in Nat /\ Rank \in [Places -> 0..n]
    BY <2>1
  <2>3. \A f, g \in F, at \in Places :
          (\A on \in Places : Rank[on] < Rank[at] => f[on] = g[on]) => T[f][at] = T[g][at]
    BY <1>4
  <2> HIDE DEF F, T, n
  <2>4. WellFounded(Places, F, T, n, Rank)
    BY <1>1, <1>2, <1>3, <2>2, <2>3 DEF WellFounded
  <2>5. QED
    BY <2>4, FixpointExists
<1>6. \E f : f = [at \in Places |-> Look(s, blocked, f, at)]
  BY <1>5
<1>7. Dfs(s, blocked) = [at \in Places |-> Look(s, blocked, Dfs(s, blocked), at)]
  BY <1>6, DfsIsChoice
<1>8. QED
  <2> DEFINE d == Dfs(s, blocked)
  <2>1. d = [at \in Places |-> Look(s, blocked, d, at)]
    BY <1>7
  <2> HIDE DEF d
  <2>2. \A at \in Places : d[at] = Look(s, blocked, d, at)
    BY <2>1
  <2>3. QED
    BY <2>2 DEF d

\* What a call that fails has visited, and what it has looked at, leads nowhere else.
Fails(s, blocked, at, got) ==
  /\ \A u \in got.visited \ at[3] :
       u \in s.inner /\ u \notin blocked /\ Dead(s, got.visited \cup blocked, u)
  /\ \A j \in at[2]..Len(s.onward[at[1]]) :
       /\ s.onward[at[1]][j] # s.root
       /\ s.onward[at[1]][j] \in s.inner => s.onward[at[1]][j] \in got.visited \cup blocked

\* The path a call has found, up to its vertex, whose edges to the root it prefers.
Finds(s, blocked, at, path) ==
  /\ Len(path) >= 2 /\ path[1] = s.root /\ path[Len(path)] = at[1]
  /\ \A k \in 2..Len(path) : path[k - 1] \in Neighbours(s.onward, path[k])
  /\ \A k \in 2..(Len(path) - 1) : path[k] \in s.inner /\ path[k] \notin at[3] \cup blocked
  /\ \A k, m \in 2..Len(path) : k # m => path[k] # path[m]
  /\ \A k \in 3..(Len(path) - 1) : s.root \notin Neighbours(s.onward, path[k])
  /\ Len(path) >= 3 =>
       \A j \in at[2]..Len(s.onward[at[1]]) : s.onward[at[1]][j] # s.root

Explored(s, blocked, at, got) ==
  /\ got \in Results /\ at[3] \subseteq got.visited
  /\ got.path = None => Fails(s, blocked, at, got)
  /\ got.path # None => Finds(s, blocked, at, got.path)

\* The vertex of a call is one that the search may pass, and is visited.
Enters(s, at) == at[1] \in s.inner /\ at[1] \in at[3]

\* A call that goes on with its next edge, after the calls for the edge before.
LEMMA GoesOn ==
  ASSUME NEW s, Settled(s), NEW blocked, NEW at \in Places, Enters(s, at),
         at[2] <= Len(s.onward[at[1]]),
         NextOf(s, at) # s.root,
         NEW S \in SUBSET V, at[3] \subseteq S,
         NextOf(s, at) \in s.inner => NextOf(s, at) \in S \cup blocked,
         \A u \in S \ at[3] : u \in s.inner /\ u \notin blocked /\ Dead(s, S \cup blocked, u),
         NEW got, Explored(s, blocked, Onward(at, S), got)
  PROVE  Explored(s, blocked, at, got)
<1> DEFINE on == Onward(at, S)
<1>1. on[1] = at[1] /\ on[2] = at[2] + 1 /\ on[3] = S
  BY CallsBelow
<1>2. at[2] \in Nat \ {0} /\ Len(s.onward[at[1]]) \in Nat /\ at[1] \in V
  BY SettledShape DEF Places
<1>3. \A j \in at[2]..Len(s.onward[at[1]]) : j = at[2] \/ j \in on[2]..Len(s.onward[on[1]])
  BY <1>1, <1>2
<1>4. NextOf(s, at) = s.onward[at[1]][at[2]]
  BY DEF NextOf
<1>5. got \in Results /\ S \subseteq got.visited
  BY <1>1 DEF Explored
<1>6. ASSUME got.path = None
      PROVE  Fails(s, blocked, at, got)
  <2>1. Fails(s, blocked, on, got)
    BY <1>6 DEF Explored
  <2> HIDE DEF on
  <2>2. ASSUME NEW u \in got.visited \ at[3]
        PROVE  u \in s.inner /\ u \notin blocked /\ Dead(s, got.visited \cup blocked, u)
    <3>1. CASE u \in S
      <4>1. u \in s.inner /\ u \notin blocked /\ Dead(s, S \cup blocked, u)
        BY <2>2, <3>1
      <4>2. QED
        BY <4>1, <1>5 DEF Dead
    <3>2. CASE u \notin S
      BY <2>1, <2>2, <3>2, <1>1 DEF Fails
    <3>3. QED
      BY <3>1, <3>2
  <2>3. ASSUME NEW j \in at[2]..Len(s.onward[at[1]])
        PROVE  /\ s.onward[at[1]][j] # s.root
               /\ s.onward[at[1]][j] \in s.inner => s.onward[at[1]][j] \in got.visited \cup blocked
    <3>1. CASE j = at[2]
      BY <3>1, <1>4, <1>5
    <3>2. CASE j \in on[2]..Len(s.onward[on[1]])
      BY <3>2, <2>1, <1>1 DEF Fails
    <3>3. QED
      BY <1>3, <2>3, <3>1, <3>2
  <2>4. QED
    BY <2>2, <2>3 DEF Fails
<1>7. ASSUME got.path # None
      PROVE  Finds(s, blocked, at, got.path)
  <2>1. Finds(s, blocked, on, got.path)
    BY <1>7 DEF Explored
  <2> HIDE DEF on
  <2> DEFINE path == got.path
  <2>2. /\ Len(path) >= 2 /\ path[1] = s.root /\ path[Len(path)] = at[1]
        /\ \A k \in 2..Len(path) : path[k - 1] \in Neighbours(s.onward, path[k])
        /\ \A k, m \in 2..Len(path) : k # m => path[k] # path[m]
        /\ \A k \in 3..(Len(path) - 1) : s.root \notin Neighbours(s.onward, path[k])
    BY <2>1, <1>1 DEF Finds
  <2>3. \A k \in 2..(Len(path) - 1) : path[k] \in s.inner /\ path[k] \notin at[3] \cup blocked
    BY <2>1, <1>1 DEF Finds
  <2>4. ASSUME Len(path) >= 3, NEW j \in at[2]..Len(s.onward[at[1]])
        PROVE  s.onward[at[1]][j] # s.root
    <3>1. CASE j = at[2]
      BY <3>1, <1>4
    <3>2. CASE j \in on[2]..Len(s.onward[on[1]])
      BY <3>2, <2>1, <2>4, <1>1 DEF Finds
    <3>3. QED
      BY <1>3, <2>4, <3>1, <3>2
  <2> HIDE DEF path
  <2>5. QED
    BY <2>2, <2>3, <2>4 DEF Finds, path
<1>8. QED
  BY <1>5, <1>6, <1>7 DEF Explored

\* The vertices ahead in a list are above the root when the next one is.
LEMMA NoRootAhead ==
  ASSUME NEW s, Settled(s), NEW v \in V, NEW i \in 1..Len(s.onward[v]), s.onward[v][i] \in s.inner
  PROVE  \A j \in i..Len(s.onward[v]) : s.onward[v][j] # s.root
<1> TAKE j \in i..Len(s.onward[v])
<1>1. Len(s.onward[v]) \in Nat /\ j \in 1..Len(s.onward[v]) /\ j \in Int /\ i \in Int
  BY SettledShape
<1>2. s.onward[v][i] \in V /\ s.onward[v][j] \in V /\ s.root \in V /\ s.onward[v][i] > s.root
  BY <1>1, SettledShape DEF Settled
<1>3. j = i \/ s.onward[v][i] < s.onward[v][j]
  BY <1>1, SettledShape
<1>4. /\ s.onward[v][i] \in Int /\ s.onward[v][j] \in Int /\ s.root \in Int
      /\ s.onward[v][i] > s.root
  BY <1>2, VertexType
<1>5. QED
  BY <1>3, <1>4

\* A call below has found a path, which the vertex of this one joins.
LEMMA JoinsPath ==
  ASSUME NEW s, Settled(s), NEW blocked, NEW at \in Places, Enters(s, at),
         at[2] <= Len(s.onward[at[1]]),
         NextOf(s, at) # s.root, NextOf(s, at) \in s.inner,
         NextOf(s, at) \notin at[3] \cup blocked,
         NEW below, below.path # None, Explored(s, blocked, Below(s, at), below)
  PROVE  Explored(s, blocked, at, [below EXCEPT !.path = Append(below.path, at[1])])
<1> DEFINE p == below.path
           on == Below(s, at)
           path == Append(p, at[1])
           v == at[1]
           next == NextOf(s, at)
<1>1. on[1] = next /\ on[2] = 1 /\ on[3] = at[3] \cup {next} /\ next \in Neighbours(s.onward, v)
  BY CallsBelow
<1>2. at[2] \in Nat \ {0} /\ Len(s.onward[v]) \in Nat /\ v \in V /\ next \in V
  BY SettledShape, CallsBelow DEF Places
<1>3. below \in Results /\ p \in Seq(V) /\ on[3] \subseteq below.visited /\ Finds(s, blocked, on, p)
  BY DEF Explored, Results
<1>4. /\ path \in Seq(V) /\ Len(path) = Len(p) + 1 /\ Len(p) \in Nat
      /\ \A k \in 1..Len(p) : path[k] = p[k]
      /\ path[Len(p) + 1] = v
  BY <1>2, <1>3, AppendProperties, LenProperties
<1> HIDE DEF p, on, path, v, next
<1>5. /\ Len(p) >= 2 /\ p[1] = s.root /\ p[Len(p)] = next
      /\ \A k \in 2..Len(p) : p[k - 1] \in Neighbours(s.onward, p[k])
      /\ \A k \in 2..(Len(p) - 1) : p[k] \in s.inner /\ p[k] \notin on[3] \cup blocked
      /\ \A k, m \in 2..Len(p) : k # m => p[k] # p[m]
      /\ \A k \in 3..(Len(p) - 1) : s.root \notin Neighbours(s.onward, p[k])
      /\ Len(p) >= 3 => \A j \in on[2]..Len(s.onward[on[1]]) : s.onward[on[1]][j] # s.root
  BY <1>3, <1>1 DEF Finds
<1>6. next \in s.inner /\ next # s.root /\ next \notin at[3] \cup blocked
      /\ v \in s.inner /\ v \in at[3]
  BY DEF next, v, Enters
<1>7. \A k \in 2..Len(p) : p[k] \in s.inner /\ p[k] \notin at[3] \cup blocked
  <2> TAKE k \in 2..Len(p)
  <2>1. k = Len(p) \/ k \in 2..(Len(p) - 1)
    BY <1>4
  <2>2. QED
    BY <2>1, <1>1, <1>5, <1>6
<1>8. ASSUME NEW k \in 2..Len(path)
      PROVE  path[k - 1] \in Neighbours(s.onward, path[k])
  <2>1. CASE k = Len(p) + 1
    <3>1. path[k] = v /\ path[k - 1] = p[Len(p)]
      BY <2>1, <1>4, <1>5
    <3>2. QED
      BY <3>1, <1>1, <1>5
  <2>2. CASE k # Len(p) + 1
    <3>1. k \in 2..Len(p) /\ k - 1 \in 1..Len(p) /\ k \in 1..Len(p)
      BY <1>4, <2>2
    <3>2. QED
      BY <3>1, <1>4, <1>5
  <2>3. QED
    BY <2>1, <2>2
<1>9. ASSUME NEW k \in 2..(Len(path) - 1)
      PROVE  path[k] \in s.inner /\ path[k] \notin at[3] \cup blocked
  <2>1. k \in 2..Len(p) /\ k \in 1..Len(p)
    BY <1>4
  <2>2. QED
    BY <2>1, <1>4, <1>7
<1>10. ASSUME NEW k \in 2..Len(path), NEW m \in 2..Len(path), k # m
       PROVE  path[k] # path[m]
  <2>1. \A x \in 2..Len(path) :
          \/ x = Len(p) + 1 /\ path[x] = v
          \/ x \in 2..Len(p) /\ path[x] = p[x]
    BY <1>4
  <2>2. \A x \in 2..Len(p) : p[x] # v
    BY <1>6, <1>7
  <2>3. QED
    BY <2>1, <2>2, <1>5, <1>10
<1>11. ASSUME NEW k \in 3..(Len(path) - 1)
       PROVE  s.root \notin Neighbours(s.onward, path[k])
  <2>1. k \in 3..Len(p) /\ k \in 1..Len(p) /\ path[k] = p[k]
    BY <1>4
  <2>2. CASE k = Len(p)
    <3>1. Len(p) >= 3 /\ path[k] = next
      BY <2>1, <2>2, <1>5
    <3>2. \A j \in 1..Len(s.onward[next]) : s.onward[next][j] # s.root
      BY <3>1, <1>1, <1>5
    <3>3. QED
      BY <3>1, <3>2 DEF Neighbours
  <2>3. CASE k # Len(p)
    <3>1. k \in 3..(Len(p) - 1)
      BY <2>1, <2>3, <1>4
    <3>2. QED
      BY <3>1, <2>1, <1>5
  <2>4. QED
    BY <2>2, <2>3
<1>12. \A j \in at[2]..Len(s.onward[v]) : s.onward[v][j] # s.root
  <2>1. at[2] \in 1..Len(s.onward[v]) /\ s.onward[v][at[2]] \in s.inner
    BY <1>2, <1>6 DEF next, v, NextOf
  <2>2. QED
    BY <2>1, <1>2, NoRootAhead
<1>13. Finds(s, blocked, at, path)
  <2>1. Len(path) >= 2 /\ path[1] = s.root /\ path[Len(path)] = v
    BY <1>4, <1>5
  <2>2. QED
    BY <2>1, <1>8, <1>9, <1>10, <1>11, <1>12 DEF Finds, v
<1>14. path # None
  BY <1>4, <1>5 DEF None
<1> DEFINE got == [below EXCEPT !.path = path]
<1>15. got \in Results /\ got.path = path /\ got.visited = below.visited
  BY <1>3, <1>4 DEF Results
<1>16. Explored(s, blocked, at, got)
  <2> HIDE DEF got
  <2>1. at[3] \subseteq got.visited
    BY <1>1, <1>3, <1>15
  <2>2. QED
    BY <2>1, <1>13, <1>14, <1>15 DEF Explored
<1>17. QED
  BY <1>16 DEF path, p, v

LEMMA DfsStep ==
  ASSUME NEW s, Settled(s), NEW blocked, NEW f, NEW at \in Places, Enters(s, at),
         \A on \in Places :
           Rank[on] < Rank[at] /\ Enters(s, on) => Explored(s, blocked, on, f[on])
  PROVE  Explored(s, blocked, at, Look(s, blocked, f, at))
<1> DEFINE v == at[1]
           next == NextOf(s, at)
           below == f[Below(s, at)]
<1>1. /\ v \in V /\ at[2] \in Nat \ {0} /\ at[3] \in SUBSET V
      /\ Len(s.onward[v]) \in Nat /\ s.root \in V /\ v \in s.inner /\ v \in at[3]
  BY SettledShape DEF Places, Enters
<1>2. CASE at[2] > Len(s.onward[v])
  <2>1. Look(s, blocked, f, at) = [path |-> None, visited |-> at[3]]
    BY <1>1, <1>2, LookCases
  <2> DEFINE got == [path |-> None, visited |-> at[3]]
  <2>2. None \in Seq(V)
    BY DEF None
  <2>3. got \in Results /\ at[3] \subseteq got.visited
    BY <1>1, <2>2 DEF Results
  <2>4. Fails(s, blocked, at, got)
    BY <1>1, <1>2 DEF Fails
  <2>5. QED
    BY <2>1, <2>3, <2>4 DEF Explored
<1>3. CASE at[2] <= Len(s.onward[v])
  <2>1. /\ next \in V /\ next \in Neighbours(s.onward, v)
        /\ \A S \in SUBSET V : at[3] \subseteq S =>
             Onward(at, S) \in Places /\ Rank[Onward(at, S)] < Rank[at] /\ Enters(s, Onward(at, S))
    BY <1>1, <1>3, CallsBelow DEF Enters
  <2>2. CASE next = s.root
    <3> DEFINE path == <<s.root, v>>
               got == [path |-> path, visited |-> at[3]]
    <3>1. Look(s, blocked, f, at) = got
      BY <1>1, <1>3, <2>2, LookCases
    <3>2. path \in Seq(V) /\ Len(path) = 2 /\ path[1] = s.root /\ path[2] = v
      BY <1>1
    <3> HIDE DEF path
    <3>3. got \in Results /\ got.path = path /\ got.visited = at[3] /\ path # None
      <4>1. path # None
        <5>1. Len(path) = 2 /\ Len(None) = 0
          BY <3>2 DEF None
        <5>2. QED
          BY <5>1
      <4>2. QED
        BY <1>1, <3>2, <4>1 DEF Results
    <3>4. Finds(s, blocked, at, path)
      BY <3>2, <2>1, <2>2 DEF Finds
    <3> HIDE DEF got
    <3>5. QED
      BY <3>1, <3>3, <3>4 DEF Explored
  <2>3. CASE next # s.root /\ (next \notin s.inner \/ next \in at[3] \cup blocked)
    <3>1. Look(s, blocked, f, at) = f[Onward(at, at[3])]
      BY <1>1, <1>3, <2>3, LookCases
    <3>2. Explored(s, blocked, Onward(at, at[3]), f[Onward(at, at[3])])
      BY <1>1, <2>1
    <3>3. Explored(s, blocked, at, f[Onward(at, at[3])])
      BY <1>1, <1>3, <2>3, <3>2, GoesOn
    <3>4. QED
      BY <3>1, <3>3
  <2>4. CASE next # s.root /\ next \in s.inner /\ next \notin at[3] \cup blocked
    <3>1. /\ Below(s, at) \in Places /\ Rank[Below(s, at)] < Rank[at]
          /\ Below(s, at)[1] = next /\ Below(s, at)[2] = 1 /\ Below(s, at)[3] = at[3] \cup {next}
      BY <1>1, <1>3, <2>4, CallsBelow
    <3>2. Explored(s, blocked, Below(s, at), below)
      BY <2>4, <3>1 DEF Enters
    <3>3. below.visited \in SUBSET V /\ at[3] \cup {next} \subseteq below.visited
      BY <3>1, <3>2 DEF Explored, Results
    <3>4. CASE below.path = None
      <4>1. Look(s, blocked, f, at) = f[Onward(at, below.visited)]
        BY <1>1, <1>3, <2>4, <3>4, LookCases
      <4>2. Explored(s, blocked, Onward(at, below.visited), f[Onward(at, below.visited)])
        BY <2>1, <3>3
      <4>3. Fails(s, blocked, Below(s, at), below)
        BY <3>2, <3>4 DEF Explored
      <4>4. \A u \in below.visited \ at[3] :
              u \in s.inner /\ u \notin blocked /\ Dead(s, below.visited \cup blocked, u)
        <5> TAKE u \in below.visited \ at[3]
        <5>1. CASE u = next
          <6>1. \A j \in 1..Len(s.onward[next]) :
                  /\ s.onward[next][j] # s.root
                  /\ s.onward[next][j] \in s.inner => s.onward[next][j] \in below.visited \cup blocked
            BY <4>3, <3>1 DEF Fails
          <6>2. Dead(s, below.visited \cup blocked, next)
            BY <6>1 DEF Dead, Neighbours
          <6>3. QED
            BY <5>1, <6>2, <2>4
        <5>2. CASE u # next
          BY <4>3, <3>1, <5>2 DEF Fails
        <5>3. QED
          BY <5>1, <5>2
      <4>5. Explored(s, blocked, at, f[Onward(at, below.visited)])
        <5> HIDE DEF below
        <5> QED BY <1>1, <1>3, <2>4, <3>3, <4>2, <4>4, GoesOn
      <4>6. QED
        BY <4>1, <4>5
    <3>5. CASE below.path # None
      <4>1. Look(s, blocked, f, at) = [below EXCEPT !.path = Append(below.path, v)]
        BY <1>1, <1>3, <2>4, <3>5, LookCases
      <4>2. Explored(s, blocked, at, [below EXCEPT !.path = Append(below.path, v)])
        BY <1>3, <2>4, <3>2, <3>5, JoinsPath
      <4>3. QED
        BY <4>1, <4>2
    <3>6. QED
      BY <3>4, <3>5
  <2>5. QED
    BY <2>2, <2>3, <2>4
<1>4. QED
  BY <1>1, <1>2, <1>3

LEMMA DfsExplores ==
  ASSUME NEW s, Settled(s), NEW blocked
  PROVE  \A at \in Places : Enters(s, at) => Explored(s, blocked, at, Dfs(s, blocked)[at])
<1> DEFINE d == Dfs(s, blocked)
           P == {at \in Places : Enters(s, at) => Explored(s, blocked, at, d[at])}
           n == N * (N + 1) + N
<1>1. n \in Nat /\ Rank \in [Places -> 0..n]
  <2>1. N \in Nat /\ N + 1 \in Nat
    OBVIOUS
  <2>2. N * (N + 1) \in Nat
    BY <2>1
  <2>3. QED
    BY <2>1, <2>2, RankFalls
<1>2. ASSUME NEW at \in Places, \A on \in Places : Rank[on] < Rank[at] => on \in P
      PROVE  at \in P
  <2>1. SUFFICES ASSUME Enters(s, at)
                 PROVE  Explored(s, blocked, at, d[at])
    OBVIOUS
  <2>2. \A on \in Places :
          Rank[on] < Rank[at] /\ Enters(s, on) => Explored(s, blocked, on, d[on])
    BY <1>2
  <2>3. d[at] = Look(s, blocked, d, at)
    BY DfsLooks
  <2> HIDE DEF d
  <2>4. QED
    BY <2>1, <2>2, <2>3, DfsStep
<1> HIDE DEF n, P
<1>3. \A at \in Places : at \in P
  BY <1>1, <1>2, RankInduction
<1>4. QED
  BY <1>3 DEF P

\* find_path: a path found is a way back, and what a failing search blocks is dead.
Gives(s, v, blocked, f) ==
  /\ f.path # None => /\ Way(s, f.path, blocked) /\ Len(f.path) >= 2
                      /\ Last(f.path) = v /\ f.blocked = blocked
  /\ f.path = None => /\ Grown(s, blocked, f.blocked) /\ v \in f.blocked
                      /\ f.blocked \in SUBSET s.inner

LEMMA FindPathFacts ==
  ASSUME NEW s, Settled(s), NEW blocked \in SUBSET s.inner, NEW v \in s.inner, v \notin blocked
  PROVE  Gives(s, v, blocked, FindPath(s, v, blocked))
<1> DEFINE at == <<v, 1, {v}>>
           d == Dfs(s, blocked)[at]
           got == FindPath(s, v, blocked)
<1>1. s.inner \in SUBSET V /\ v \in V /\ Len(s.onward[v]) \in Nat
  BY SettledShape
<1>2. at \in Places /\ Enters(s, at) /\ at[1] = v /\ at[2] = 1 /\ at[3] = {v}
  BY <1>1 DEF Places, Enters
<1>3. Explored(s, blocked, at, d)
  BY <1>2, DfsExplores
<1>4. got = [path |-> d.path, blocked |-> IF d.path = None THEN blocked \cup d.visited ELSE blocked]
  BY DEF FindPath
<1> HIDE DEF at, d, got
<1>5. got.path = d.path /\ got.blocked = IF d.path = None THEN blocked \cup d.visited ELSE blocked
  BY <1>4
<1>6. d.path \in Seq(V) /\ d.visited \in SUBSET V /\ v \in d.visited
  BY <1>2, <1>3 DEF Explored, Results
<1>7. ASSUME d.path # None
      PROVE  Gives(s, v, blocked, got)
  <2> DEFINE path == d.path
  <2>1. Finds(s, blocked, at, path)
    BY <1>3, <1>7 DEF Explored
  <2>2. Len(path) \in Nat
    BY <1>6
  <2> HIDE DEF path
  <2>3. /\ Len(path) >= 2 /\ path[1] = s.root /\ path[Len(path)] = v
        /\ \A k \in 2..Len(path) : path[k - 1] \in Neighbours(s.onward, path[k])
        /\ \A k \in 2..(Len(path) - 1) : path[k] \in s.inner /\ path[k] \notin blocked
        /\ \A k, m \in 2..Len(path) : k # m => path[k] # path[m]
        /\ \A k \in 3..(Len(path) - 1) : s.root \notin Neighbours(s.onward, path[k])
        /\ Len(path) >= 3 => \A j \in 1..Len(s.onward[v]) : s.onward[v][j] # s.root
    BY <1>2, <2>1 DEF Finds
  <2>4. \A k \in 2..Len(path) : k = Len(path) \/ k \in 2..(Len(path) - 1)
    BY <2>2
  <2>5. \A k \in 2..Len(path) : path[k] \in s.inner /\ path[k] \notin blocked
    BY <2>3, <2>4
  <2>6. ASSUME NEW k \in 3..Len(path)
        PROVE  s.root \notin Neighbours(s.onward, path[k])
    <3>1. CASE k = Len(path)
      BY <2>3, <3>1, <2>2 DEF Neighbours
    <3>2. CASE k # Len(path)
      <4>1. k \in 3..(Len(path) - 1)
        BY <2>2, <2>6, <3>2
      <4>2. QED
        BY <4>1, <2>3
    <3>3. QED
      BY <3>1, <3>2
  <2>7. path \in Seq(V) /\ path = d.path
    BY <1>6 DEF path
  <2>8. Way(s, path, blocked)
    <3>1. Len(path) >= 1
      BY <2>2, <2>3
    <3>2. QED
      BY <2>3, <2>5, <2>6, <2>7, <3>1 DEF Way
  <2>9. Last(path) = v
    BY <2>3 DEF Last
  <2>10. QED
    BY <1>5, <1>7, <2>3, <2>7, <2>8, <2>9 DEF Gives
<1>8. ASSUME d.path = None
      PROVE  Gives(s, v, blocked, got)
  <2>1. Fails(s, blocked, at, d)
    BY <1>3, <1>8 DEF Explored
  <2> DEFINE b == blocked \cup d.visited
  <2>2. b = d.visited \cup blocked
    OBVIOUS
  <2>3. Dead(s, b, v)
    <3>1. \A j \in 1..Len(s.onward[v]) :
            s.onward[v][j] # s.root /\ (s.onward[v][j] \in s.inner => s.onward[v][j] \in b)
      BY <1>2, <2>1 DEF Fails
    <3> HIDE DEF b
    <3>2. QED
      BY <3>1 DEF Dead, Neighbours
  <2>4. \A u \in d.visited : u # v => u \in s.inner /\ u \notin blocked /\ Dead(s, b, u)
    BY <1>2, <2>1, <2>2 DEF Fails
  <2>5. \A u \in b \ blocked : u \in s.inner /\ Dead(s, b, u)
    <3> HIDE DEF b
    <3>1. \A u \in b \ blocked : u \in d.visited
      BY DEF b
    <3>2. QED
      BY <2>3, <2>4, <3>1
  <2>6. blocked \subseteq b /\ b \in SUBSET V /\ v \in b
    BY <1>1, <1>6
  <2>7. b \in SUBSET s.inner
    <3> HIDE DEF b
    <3> QED BY <2>5, <2>6
  <2>8. got.path = None /\ got.blocked = b
    BY <1>5, <1>8
  <2> HIDE DEF b
  <2>9. QED
    BY <2>5, <2>6, <2>7, <2>8 DEF Grown, Gives
<1>9. QED
  BY <1>7, <1>8 DEF got

LEMMA PrefixShape ==
  ASSUME NEW S, NEW q \in Seq(S), NEW n \in 0..Len(q)
  PROVE  /\ SubSeq(q, 1, n) \in Seq(S) /\ Len(SubSeq(q, 1, n)) = n
         /\ \A i \in 1..n : SubSeq(q, 1, n)[i] = q[i]
<1>1. Len(q) \in Nat /\ n \in Int /\ 1 \in Int /\ \A i \in 1..n : q[i] \in S
  BY LenProperties, ElementOfSeq
<1>2. /\ SubSeq(q, 1, n) \in Seq(S)
      /\ Len(SubSeq(q, 1, n)) = IF 1 <= n THEN n - 1 + 1 ELSE 0
      /\ \A i \in 1..(n - 1 + 1) : SubSeq(q, 1, n)[i] = q[1 + i - 1]
  BY <1>1, SubSeqProperties
<1>3. n - 1 + 1 = n /\ \A i \in 1..n : 1 + i - 1 = i
  BY <1>1
<1>4. QED
  BY <1>1, <1>2, <1>3

LEMMA FrontShape ==
  ASSUME NEW S, NEW q \in Seq(S), Len(q) >= 1
  PROVE  /\ Front(q) \in Seq(S) /\ Len(Front(q)) = Len(q) - 1
         /\ \A i \in 1..(Len(q) - 1) : Front(q)[i] = q[i]
<1>1. Len(q) \in Nat /\ Len(q) - 1 \in 0..Len(q)
  BY LenProperties
<1>2. QED
  BY <1>1, PrefixShape DEF Front

LEMMA DeadGrows ==
  ASSUME NEW s, NEW b, NEW c, b \subseteq c, NEW u, Dead(s, b, u)
  PROVE  Dead(s, c, u)
BY DEF Dead

LEMMA GrownTwice ==
  ASSUME NEW s, NEW a, NEW b, NEW c, Grown(s, a, b), Grown(s, b, c)
  PROVE  Grown(s, a, c)
<1>1. a \subseteq c /\ b \subseteq c /\ c \in SUBSET V
  BY DEF Grown
<1>2. ASSUME NEW u \in c \ a
      PROVE  u \in s.inner /\ Dead(s, c, u)
  <2>1. CASE u \in b
    <3>1. u \in s.inner /\ Dead(s, b, u)
      BY <1>2, <2>1 DEF Grown
    <3>2. QED
      BY <1>1, <3>1, DeadGrows
  <2>2. CASE u \notin b
    BY <1>2, <2>2 DEF Grown
  <2>3. QED
    BY <2>1, <2>2
<1>3. QED
  BY <1>1, <1>2 DEF Grown

\* A search that fails blocks no vertex of a way back: each has an edge to the next.
LEMMA WaySurvives ==
  ASSUME NEW s, NEW path, NEW a, NEW b, Way(s, path, a), Grown(s, a, b)
  PROVE  Way(s, path, b)
<1> DEFINE Free == {k \in Nat : k + 2 <= Len(path) => path[k + 2] \notin b}
<1>1. /\ Len(path) \in Nat /\ path[1] = s.root
      /\ \A i \in 2..Len(path) : /\ path[i] \in s.inner /\ path[i] \notin a
                                 /\ path[i - 1] \in Neighbours(s.onward, path[i])
  BY DEF Way
<1>2. \A i \in 2..Len(path) : path[i] \in b => Dead(s, b, path[i])
  BY <1>1 DEF Grown
<1>3. 0 \in Free
  <2>1. SUFFICES ASSUME 2 <= Len(path), path[2] \in b
                 PROVE  FALSE
    OBVIOUS
  <2>2. 2 \in 2..Len(path) /\ 2 - 1 = 1
    BY <1>1, <2>1
  <2>3. s.root \in Neighbours(s.onward, path[2])
    BY <1>1, <2>2
  <2>4. QED
    BY <1>2, <2>1, <2>2, <2>3 DEF Dead
<1>4. ASSUME NEW k \in Nat, k \in Free
      PROVE  k + 1 \in Free
  <2>1. SUFFICES ASSUME k + 3 <= Len(path), path[k + 3] \in b
                 PROVE  FALSE
    <3>1. (k + 1) + 2 = k + 3
      OBVIOUS
    <3>2. QED
      BY <2>1, <3>1
  <2>2. k + 3 \in 2..Len(path) /\ (k + 3) - 1 = k + 2 /\ k + 2 \in 2..Len(path) /\ k + 2 <= Len(path)
    BY <1>1, <2>1
  <2>3. path[k + 2] \in Neighbours(s.onward, path[k + 3]) /\ path[k + 2] \in s.inner
    BY <1>1, <2>2
  <2>4. path[k + 2] \notin b
    BY <1>4, <2>2
  <2>5. QED
    BY <1>2, <2>1, <2>2, <2>3, <2>4 DEF Dead
<1>5. \A k \in Nat : k \in Free
  <2> HIDE DEF Free
  <2> QED BY <1>3, <1>4, NatSetInduction
<1>6. ASSUME NEW i \in 2..Len(path)
      PROVE  path[i] \notin b
  <2>1. i - 2 \in Nat /\ (i - 2) + 2 = i /\ i <= Len(path)
    BY <1>1
  <2>2. i - 2 \in Free
    <3> HIDE DEF Free
    <3> QED BY <1>5, <2>1
  <2>3. QED
    BY <2>1, <2>2
<1>7. QED
  BY <1>6 DEF Way

\* The path in front of a way's last vertex, which is blocked when it is passed.
LEMMA WayShortens ==
  ASSUME NEW s, NEW path, NEW b, Way(s, path, b), Len(path) >= 2
  PROVE  /\ Way(s, Front(path), b \cup {Last(path)}) /\ Len(Front(path)) = Len(path) - 1
         /\ Last(Front(path)) = path[Len(path) - 1]
         /\ Last(Front(path)) \in Neighbours(s.onward, Last(path))
         /\ Last(path) \in s.inner /\ Last(path) \notin b
         /\ s.root \in Neighbours(s.onward, Last(path)) => Front(path) = <<s.root>>
<1> DEFINE n == Len(path)
           short == Front(path)
<1>1. /\ path \in Seq(V) /\ n \in Nat /\ n >= 2 /\ path[1] = s.root
      /\ \A i \in 2..n : /\ path[i] \in s.inner /\ path[i] \notin b
                         /\ path[i - 1] \in Neighbours(s.onward, path[i])
      /\ \A i, j \in 2..n : i # j => path[i] # path[j]
      /\ \A i \in 3..n : s.root \notin Neighbours(s.onward, path[i])
  BY DEF Way
<1>2. /\ short \in Seq(V) /\ Len(short) = n - 1
      /\ \A i \in 1..(n - 1) : short[i] = path[i]
  <2>1. n >= 1
    BY <1>1
  <2>2. QED
    BY <1>1, <2>1, FrontShape
<1>3. Last(path) = path[n]
  BY DEF Last
<1> HIDE DEF n, short
<1>4. n \in 2..n /\ n - 1 \in 1..(n - 1) /\ 1 \in 1..(n - 1)
  BY <1>1
<1>5. \A i \in 2..(n - 1) : i \in 2..n /\ i \in 1..(n - 1) /\ i - 1 \in 1..(n - 1) /\ i # n
  BY <1>1
<1>6. Last(short) = path[n - 1]
  BY <1>2, <1>4 DEF Last
<1>7. Way(s, short, b \cup {path[n]})
  <2>1. Len(short) >= 1 /\ short[1] = s.root
    BY <1>1, <1>2, <1>4
  <2>2. ASSUME NEW i \in 2..(n - 1)
        PROVE  /\ short[i] \in s.inner /\ short[i] \notin b \cup {path[n]}
               /\ short[i - 1] \in Neighbours(s.onward, short[i])
    BY <1>1, <1>2, <1>4, <1>5
  <2>3. \A i, j \in 2..(n - 1) : i # j => short[i] # short[j]
    BY <1>1, <1>2, <1>5
  <2>4. ASSUME NEW i \in 3..(n - 1)
        PROVE  s.root \notin Neighbours(s.onward, short[i])
    <3>1. i \in 3..n /\ i \in 1..(n - 1)
      BY <1>1
    <3>2. QED
      BY <3>1, <1>1, <1>2
  <2>5. QED
    BY <1>2, <2>1, <2>2, <2>3, <2>4 DEF Way
<1>8. s.root \in Neighbours(s.onward, path[n]) => short = <<s.root>>
  <2>1. SUFFICES ASSUME s.root \in Neighbours(s.onward, path[n])
                 PROVE  short = <<s.root>>
    OBVIOUS
  <2>2. n = 2
    <3>1. n \notin 3..n
      BY <1>1, <2>1
    <3>2. QED
      BY <1>1, <3>1
  <2>3. Len(short) = 1 /\ short[1] = s.root
    BY <1>1, <1>2, <2>2
  <2>4. s.root \in V
    BY <1>2, <2>3, ElementOfSeq
  <2>5. <<s.root>> \in Seq(V) /\ Len(<<s.root>>) = 1 /\ <<s.root>>[1] = s.root
    BY <2>4
  <2> DEFINE one == <<s.root>>
  <2>6. \A i \in 1..Len(short) : short[i] = one[i]
    <3> TAKE i \in 1..Len(short)
    <3>1. i = 1
      BY <2>3
    <3>2. QED
      BY <2>3, <2>5, <3>1
  <2>7. short \in Seq(V) /\ one \in Seq(V) /\ Len(short) = Len(one)
    BY <1>2, <2>3, <2>5
  <2> HIDE DEF one
  <2>8. short = one
    BY <2>6, <2>7, SeqEqual
  <2>9. QED
    BY <2>8 DEF one
<1>9. QED
  BY <1>1, <1>2, <1>3, <1>4, <1>6, <1>7, <1>8 DEF n, short

-----------------------------------------------------------------------------
\* What the loop over the edges of v has when it is past the i-th one.
Options == [path : Seq(V), blocked : SUBSET V]

Tried(s, v, onward, blocked, i, got) ==
  /\ got \in Options /\ got.blocked \in SUBSET s.inner /\ Grown(s, blocked, got.blocked)
  /\ got.path = None =>
       \A j \in 1..i : LET w == s.onward[v][j]
                       IN  w = onward \/ w \notin s.inner \/ w \in got.blocked
  /\ got.path # None =>
       /\ Way(s, got.path, got.blocked) /\ Len(got.path) >= 2
       /\ Last(got.path) \in Neighbours(s.onward, v) /\ Last(got.path) # onward

\* One iteration.
Try(s, v, onward, i, got) ==
  LET candidate == s.onward[v][i]
  IN  IF \/ got.path # None
         \/ candidate = onward \/ candidate \notin s.inner
         \/ candidate \in got.blocked
      THEN got
      ELSE FindPath(s, candidate, got.blocked)

LEMMA TryStep ==
  ASSUME NEW s, Settled(s), NEW v \in V, NEW onward, NEW blocked,
         NEW i \in 1..Len(s.onward[v]), NEW got, Tried(s, v, onward, blocked, i - 1, got)
  PROVE  Tried(s, v, onward, blocked, i, Try(s, v, onward, i, got))
<1> DEFINE w == s.onward[v][i]
           new == FindPath(s, w, got.blocked)
           tried == Try(s, v, onward, i, got)
<1>1. i \in Nat /\ w \in V /\ w \in Neighbours(s.onward, v) /\ Len(s.onward[v]) \in Nat
  BY SettledShape
<1>2. \A j \in 1..i : j = i \/ j \in 1..(i - 1)
  BY <1>1
<1>3. /\ got \in Options /\ got.blocked \in SUBSET s.inner /\ Grown(s, blocked, got.blocked)
      /\ got.path = None =>
           \A j \in 1..(i - 1) : LET x == s.onward[v][j]
                                 IN  x = onward \/ x \notin s.inner \/ x \in got.blocked
      /\ got.path # None =>
           /\ Way(s, got.path, got.blocked) /\ Len(got.path) >= 2
           /\ Last(got.path) \in Neighbours(s.onward, v) /\ Last(got.path) # onward
  BY DEF Tried
<1> HIDE DEF w
<1>4. CASE got.path # None
  <2>1. tried = got
    BY <1>4 DEF Try
  <2>2. QED
    BY <2>1, <1>3, <1>4 DEF Tried
<1>5. CASE got.path = None /\ (w = onward \/ w \notin s.inner \/ w \in got.blocked)
  <2>1. tried = got
    BY <1>5 DEF Try, w
  <2>2. \A j \in 1..i : LET x == s.onward[v][j]
                        IN  x = onward \/ x \notin s.inner \/ x \in got.blocked
    BY <1>2, <1>3, <1>5 DEF w
  <2>3. QED
    BY <2>1, <2>2, <1>3, <1>5 DEF Tried
<1>6. CASE got.path = None /\ w # onward /\ w \in s.inner /\ w \notin got.blocked
  <2>1. tried = new
    BY <1>6 DEF Try, w
  <2>2. /\ new.path # None => /\ Way(s, new.path, got.blocked) /\ Len(new.path) >= 2
                              /\ Last(new.path) = w /\ new.blocked = got.blocked
        /\ new.path = None => /\ Grown(s, got.blocked, new.blocked) /\ w \in new.blocked
                              /\ new.blocked \in SUBSET s.inner
    BY <1>3, <1>6, FindPathFacts DEF Gives
  <2>3. new = [path |-> new.path, blocked |-> new.blocked]
    BY DEF FindPath
  <2> HIDE DEF new
  <2>4. CASE new.path # None
    <3>1. new.path \in Seq(V) /\ new.blocked \in SUBSET V
      BY <2>2, <2>4, <1>3 DEF Way, Options
    <3>2. new \in Options
      BY <2>3, <3>1 DEF Options
    <3>3. QED
      BY <2>1, <2>2, <2>4, <3>2, <1>1, <1>3, <1>6 DEF Tried
  <2>5. CASE new.path = None
    <3>1. new.path \in Seq(V) /\ new.blocked \in SUBSET V
      <4>1. s.inner \in SUBSET V
        BY SettledShape
      <4>2. QED
        BY <2>2, <2>5, <4>1 DEF None
    <3>2. new \in Options
      BY <2>3, <3>1 DEF Options
    <3>3. Grown(s, blocked, new.blocked) /\ got.blocked \subseteq new.blocked
      <4>1. Grown(s, got.blocked, new.blocked)
        BY <2>2, <2>5
      <4>2. Grown(s, blocked, new.blocked)
        BY <4>1, <1>3, GrownTwice
      <4>3. got.blocked \subseteq new.blocked
        BY <4>1 DEF Grown
      <4>4. QED
        BY <4>2, <4>3
    <3>4. \A j \in 1..i : LET x == s.onward[v][j]
                          IN  x = onward \/ x \notin s.inner \/ x \in new.blocked
      BY <1>2, <1>3, <1>6, <2>2, <2>5, <3>3 DEF w
    <3>5. QED
      BY <2>1, <2>2, <2>5, <3>2, <3>3, <3>4 DEF Tried
  <2>6. QED
    BY <2>4, <2>5
<1>7. QED
  BY <1>4, <1>5, <1>6

\* The loop has a value after every edge.
LEMMA AlternateLoops ==
  ASSUME NEW s, Settled(s), NEW v \in V, NEW onward, NEW blocked \in SUBSET s.inner
  PROVE  \E after : /\ Alternate(s, v, onward, blocked) = after[Len(s.onward[v])]
                    /\ after[0] = [path |-> None, blocked |-> blocked]
                    /\ \A i \in 1..Len(s.onward[v]) : after[i] = Try(s, v, onward, i, after[i - 1])
<1> DEFINE n == Len(s.onward[v])
           base == [path |-> None, blocked |-> blocked]
           D == {x \in (0..n) \X Options : Tried(s, v, onward, blocked, x[1], x[2])}
           step == [x \in D |-> IF x[1] < n THEN <<x[1] + 1, Try(s, v, onward, x[1] + 1, x[2])>>
                                ELSE x]
           IsAfter(f) ==
             f = [i \in 0..n |-> IF i = 0 THEN base ELSE Try(s, v, onward, i, f[i - 1])]
<1>1. n \in Nat /\ s.inner \in SUBSET V
  BY SettledShape
<1>2. <<0, base>> \in D
  <2>1. base \in Options
    BY <1>1 DEF Options, None
  <2>2. Grown(s, blocked, blocked)
    BY <1>1 DEF Grown
  <2>3. Tried(s, v, onward, blocked, 0, base)
    BY <2>1, <2>2 DEF Tried
  <2> HIDE DEF base
  <2>4. QED
    BY <1>1, <2>1, <2>3
<1> HIDE DEF base, n
<1>3. step \in [D -> D]
  <2>1. ASSUME NEW x \in D, x[1] < n
        PROVE  <<x[1] + 1, Try(s, v, onward, x[1] + 1, x[2])>> \in D
    <3> DEFINE i == x[1] + 1
               new == Try(s, v, onward, i, x[2])
    <3>1. x[1] \in 0..n /\ Tried(s, v, onward, blocked, x[1], x[2])
      OBVIOUS
    <3>2. i \in 1..n /\ i \in 0..n /\ i - 1 = x[1]
      BY <1>1, <2>1, <3>1
    <3>3. Tried(s, v, onward, blocked, i, new)
      <4> HIDE DEF i
      <4> QED BY <3>1, <3>2, TryStep DEF n
    <3>4. new \in Options
      BY <3>3 DEF Tried
    <3> HIDE DEF i, new
    <3>5. <<i, new>> \in D
      BY <3>2, <3>3, <3>4
    <3>6. QED
      BY <3>5 DEF i, new
  <2> HIDE DEF D
  <2>2. QED
    BY <2>1
<1>4. \E w : AreIterates(w, D, <<0, base>>, step, n)
  <2> HIDE DEF D, step
  <2> QED BY <1>1, <1>2, <1>3, IteratesExist
<1>5. PICK w : AreIterates(w, D, <<0, base>>, step, n)
  BY <1>4
<1>6. w \in [0..n -> D] /\ w[0] = <<0, base>> /\ \A k \in 1..n : w[k] = step[w[k - 1]]
  BY <1>5 DEF AreIterates
<1>7. \A k \in Nat : k \in {i \in Nat : i <= n => w[i][1] = i}
  <2> DEFINE S == {i \in Nat : i <= n => w[i][1] = i}
  <2>1. 0 \in S
    BY <1>6
  <2>2. ASSUME NEW k \in Nat, k \in S
        PROVE  k + 1 \in S
    <3>1. SUFFICES ASSUME k + 1 <= n
                   PROVE  w[k + 1][1] = k + 1
      OBVIOUS
    <3>2. k + 1 \in 1..n /\ (k + 1) - 1 = k /\ k \in 0..n /\ k <= n /\ k < n
      BY <1>1, <3>1
    <3>3. w[k + 1] = step[w[k]] /\ w[k] \in D /\ w[k][1] = k
      BY <1>6, <2>2, <3>2
    <3>4. QED
      BY <3>2, <3>3
  <2> HIDE DEF S
  <2>3. \A k \in Nat : k \in S
    BY <2>1, <2>2, NatSetInduction
  <2>4. QED
    BY <2>3 DEF S
<1> DEFINE h == [i \in 0..n |-> w[i][2]]
<1>8. IsAfter(h)
  <2>1. ASSUME NEW i \in 0..n
        PROVE  h[i] = IF i = 0 THEN base ELSE Try(s, v, onward, i, h[i - 1])
    <3>1. CASE i = 0
      BY <3>1, <1>1, <1>6
    <3>2. CASE i # 0
      <4>1. i \in 1..n /\ i - 1 \in 0..n /\ i - 1 < n /\ i - 1 \in Nat /\ (i - 1) + 1 = i
        BY <1>1, <3>2
      <4>2. w[i] = step[w[i - 1]] /\ w[i - 1] \in D /\ w[i - 1][1] = i - 1
        <5> HIDE DEF step, D
        <5>1. w[i] = step[w[i - 1]] /\ w[i - 1] \in D
          BY <1>6, <4>1
        <5>2. w[i - 1][1] = i - 1
          BY <1>7, <4>1
        <5>3. QED
          BY <5>1, <5>2
      <4>3. w[i] = <<i, Try(s, v, onward, i, w[i - 1][2])>>
        BY <4>1, <4>2
      <4>4. QED
        BY <3>2, <4>1, <4>3
    <3>3. QED
      BY <3>1, <3>2
  <2> HIDE DEF h
  <2>2. h = [i \in 0..n |-> h[i]]
    BY DEF h
  <2>3. QED
    BY <2>1, <2>2
<1> DEFINE after == CHOOSE f : IsAfter(f)
<1>9. Alternate(s, v, onward, blocked) = after[n]
  BY DEF Alternate, Try, n, base
<1>10. IsAfter(after)
  <2> HIDE DEF IsAfter, h
  <2> QED BY <1>8
<1>11. after = [i \in 0..n |-> IF i = 0 THEN base ELSE Try(s, v, onward, i, after[i - 1])]
  BY <1>10
<1> HIDE DEF after, IsAfter, h, step, D
<1>12. after[0] = base
  BY <1>1, <1>11
<1>13. ASSUME NEW i \in 1..n
       PROVE  after[i] = Try(s, v, onward, i, after[i - 1])
  <2>1. i \in 0..n /\ i # 0
    BY <1>1
  <2>2. QED
    BY <1>11, <2>1
<1>14. QED
  BY <1>9, <1>12, <1>13 DEF n, base

\* follow_path's inner loop: a path it finds leaves v for another vertex, and when
\* it finds none every other neighbour that the search may pass is blocked.
LEMMA AlternateFacts ==
  ASSUME NEW s, Settled(s), NEW v \in V, NEW onward, NEW blocked \in SUBSET s.inner
  PROVE  Tried(s, v, onward, blocked, Len(s.onward[v]), Alternate(s, v, onward, blocked))
<1> DEFINE n == Len(s.onward[v])
<1>1. PICK after : /\ Alternate(s, v, onward, blocked) = after[n]
                   /\ after[0] = [path |-> None, blocked |-> blocked]
                   /\ \A i \in 1..n : after[i] = Try(s, v, onward, i, after[i - 1])
  BY AlternateLoops
<1>2. n \in Nat /\ s.inner \in SUBSET V
  BY SettledShape
<1> DEFINE S == {i \in Nat : i <= n => Tried(s, v, onward, blocked, i, after[i])}
<1>3. 0 \in S
  <2>1. [path |-> None, blocked |-> blocked] \in Options
    BY <1>2 DEF Options, None
  <2>2. Grown(s, blocked, blocked)
    BY <1>2 DEF Grown
  <2>3. QED
    BY <1>1, <2>1, <2>2 DEF Tried
<1>4. ASSUME NEW i \in Nat, i \in S
      PROVE  i + 1 \in S
  <2>1. SUFFICES ASSUME i + 1 <= n
                 PROVE  Tried(s, v, onward, blocked, i + 1, after[i + 1])
    OBVIOUS
  <2>2. i + 1 \in 1..n /\ (i + 1) - 1 = i /\ i <= n
    BY <1>2, <2>1
  <2>3. Tried(s, v, onward, blocked, i, after[i])
    BY <1>4, <2>2
  <2>4. after[i + 1] = Try(s, v, onward, i + 1, after[i])
    BY <1>1, <2>2
  <2>5. QED
    BY <2>2, <2>3, <2>4, TryStep
<1>5. \A i \in Nat : i \in S
  <2> HIDE DEF S
  <2> QED BY <1>3, <1>4, NatSetInduction
<1>6. n \in S
  BY <1>2, <1>5
<1>7. QED
  BY <1>1, <1>2, <1>6

\* A cycle that the search of the root is to count.
Closes(s, c) == c \in Seq(V) /\ Len(c) >= 2 /\ IsSimpleCycle(s.onward, c) /\ c[1] = s.root

LEMMA ClosesShape ==
  ASSUME NEW s, Settled(s), NEW c, Closes(s, c)
  PROVE  /\ Len(c) \in Nat /\ c[Len(c)] \in V /\ c[1] = s.root
         /\ \A i \in 2..Len(c) : c[i] \in s.inner
         /\ \A k \in 1..(Len(c) - 1) : c[k + 1] \in Neighbours(s.onward, c[k])
         /\ s.root \in Neighbours(s.onward, c[Len(c)])
         /\ \A i, j \in 1..Len(c) : i # j => c[i] # c[j]
<1>1. /\ c \in Seq(V) /\ Len(c) >= 2 /\ c[1] = s.root /\ Len(c) \in Nat
      /\ \A i, j \in 1..Len(c) : i # j => c[i] # c[j]
      /\ \A i \in 2..Len(c) : c[1] < c[i]
      /\ \A k \in 1..Len(c) : Successor(c, k) \in Neighbours(s.onward, c[k])
  BY LenProperties DEF Closes, IsSimpleCycle
<1>2. ASSUME NEW i \in 2..Len(c)
      PROVE  c[i] \in s.inner
  <2>1. c[i] \in V
    BY <1>1, ElementOfSeq
  <2>2. s.inner = {v \in V : v > s.root} /\ c[1] < c[i] /\ c[1] = s.root
    BY <1>1 DEF Settled
  <2>3. c[i] \in Int /\ s.root \in Int
    BY <2>1, VertexType, SettledShape
  <2>4. QED
    BY <2>1, <2>2, <2>3
<1>3. ASSUME NEW k \in 1..(Len(c) - 1)
      PROVE  c[k + 1] \in Neighbours(s.onward, c[k])
  <2>1. k \in 1..Len(c) /\ k # Len(c)
    BY <1>1
  <2>2. QED
    BY <1>1, <2>1 DEF Successor
<1>4. s.root \in Neighbours(s.onward, c[Len(c)])
  <2>1. Len(c) \in 1..Len(c)
    BY <1>1
  <2>2. QED
    BY <1>1, <2>1 DEF Successor
<1>5. c[Len(c)] \in V
  <2>1. Len(c) \in 1..Len(c)
    BY <1>1
  <2>2. QED
    BY <1>1, <2>1, ElementOfSeq
<1>6. QED
  BY <1>1, <1>2, <1>3, <1>4, <1>5

\* No cycle goes on from the path to a blocked vertex: it could not come back.
LEMMA NoCycleThroughBlocked ==
  ASSUME NEW s, Settled(s), NEW p, NEW m, NEW blocked, m <= Len(p), OnPath(s, p, m, blocked),
         NEW c, Closes(s, c), Begins(p, m, c)
  PROVE  Successor(c, m) \notin blocked
<1>1. /\ m \in Nat /\ m >= 1 /\ blocked \in SUBSET s.inner
      /\ \A u \in blocked : (\A i \in 1..m : p[i] # u) => Dead(s, blocked, u)
  BY DEF OnPath
<1>2. /\ m <= Len(c) /\ \A i \in 1..m : c[i] = p[i]
  BY DEF Begins
<1>3. /\ Len(c) \in Nat /\ c[1] = s.root /\ \A i \in 2..Len(c) : c[i] \in s.inner
      /\ \A k \in 1..(Len(c) - 1) : c[k + 1] \in Neighbours(s.onward, c[k])
      /\ s.root \in Neighbours(s.onward, c[Len(c)])
      /\ \A i, j \in 1..Len(c) : i # j => c[i] # c[j]
  BY ClosesShape
<1>4. ASSUME NEW k \in (m + 1)..Len(c), c[k] \in blocked
      PROVE  Dead(s, blocked, c[k])
  <2>1. \A i \in 1..m : i \in 1..Len(c) /\ k \in 1..Len(c) /\ i # k
    BY <1>1, <1>2, <1>3
  <2>2. \A i \in 1..m : p[i] # c[k]
    BY <1>2, <1>3, <2>1
  <2>3. QED
    BY <1>1, <1>4, <2>2
<1>5. SUFFICES ASSUME Successor(c, m) \in blocked
               PROVE  FALSE
  OBVIOUS
<1>6. s.root \notin s.inner
  BY SettledShape
<1>7. m < Len(c) /\ c[m + 1] \in blocked
  <2>1. m # Len(c)
    BY <1>1, <1>3, <1>5, <1>6 DEF Successor
  <2>2. QED
    BY <1>1, <1>2, <1>3, <1>5, <2>1 DEF Successor
<1> DEFINE S == {k \in Nat : m + 1 + k <= Len(c) => c[m + 1 + k] \in blocked}
<1>8. 0 \in S
  <2>1. m + 1 + 0 = m + 1
    BY <1>1
  <2>2. QED
    BY <1>7, <2>1
<1>9. ASSUME NEW k \in Nat, k \in S
      PROVE  k + 1 \in S
  <2> DEFINE x == m + 1 + k
  <2>1. x \in Nat /\ m + 1 + (k + 1) = x + 1 /\ x >= m + 1
    BY <1>1
  <2> HIDE DEF x
  <2>2. SUFFICES ASSUME x + 1 <= Len(c)
                 PROVE  c[x + 1] \in blocked
    BY <2>1
  <2>3. x <= Len(c) /\ x \in 1..(Len(c) - 1) /\ x \in (m + 1)..Len(c) /\ x + 1 \in 2..Len(c)
    BY <1>1, <1>3, <2>1, <2>2
  <2>4. c[x] \in blocked
    BY <1>9, <2>3 DEF x
  <2>5. Dead(s, blocked, c[x])
    BY <1>4, <2>3, <2>4
  <2>6. c[x + 1] \in Neighbours(s.onward, c[x]) /\ c[x + 1] \in s.inner
    BY <1>3, <2>3
  <2>7. QED
    BY <2>5, <2>6 DEF Dead
<1>10. \A k \in Nat : k \in S
  <2> HIDE DEF S
  <2> QED BY <1>8, <1>9, NatSetInduction
<1>11. c[Len(c)] \in blocked
  <2>1. Len(c) - (m + 1) \in Nat /\ m + 1 + (Len(c) - (m + 1)) = Len(c)
    BY <1>1, <1>3, <1>7
  <2>2. QED
    BY <1>3, <1>10, <2>1
<1>12. Len(c) \in (m + 1)..Len(c)
  BY <1>1, <1>3, <1>7
<1>13. Dead(s, blocked, c[Len(c)])
  BY <1>4, <1>11, <1>12
<1>14. QED
  BY <1>3, <1>13 DEF Dead

\* A vertex that joins the path, and what is blocked then.
LEMMA PathGrows ==
  ASSUME NEW s, Settled(s), NEW p \in Seq(V), NEW b, OnPath(s, p, Len(p), b),
         NEW v \in s.inner, v \notin b, v \in Neighbours(s.onward, p[Len(p)]),
         NEW after \in SUBSET s.inner, Grown(s, b \cup {v}, after)
  PROVE  OnPath(s, Append(p, v), Len(p) + 1, after)
<1> DEFINE m == Len(p)
           q == Append(p, v)
<1>1. v \in V /\ s.root \notin s.inner
  BY SettledShape
<1>2. q \in Seq(V) /\ Len(q) = m + 1 /\ m \in Nat /\ (\A i \in 1..m : q[i] = p[i]) /\ q[m + 1] = v
  BY <1>1, AppendProperties, LenProperties
<1>3. /\ m \in 1..m /\ p[1] = s.root
      /\ \A i \in 2..m : /\ p[i] \in s.inner /\ p[i] \in b
                         /\ p[i] \in Neighbours(s.onward, p[i - 1])
      /\ \A i, j \in 1..m : i # j => p[i] # p[j]
      /\ b \in SUBSET s.inner
      /\ \A u \in b : (\A i \in 1..m : p[i] # u) => Dead(s, b, u)
  BY DEF OnPath
<1>4. b \subseteq after /\ v \in after
  BY DEF Grown
<1> HIDE DEF m, q
<1>5. \A i \in 1..(m + 1) : i = m + 1 \/ i \in 1..m
  BY <1>2
<1>6. \A i \in 1..m : p[i] # v
  <2> TAKE i \in 1..m
  <2>1. i = 1 \/ i \in 2..m
    BY <1>2
  <2>2. QED
    BY <2>1, <1>1, <1>3
<1>7. ASSUME NEW i \in 2..(m + 1)
      PROVE  q[i] \in s.inner /\ q[i] \in after /\ q[i] \in Neighbours(s.onward, q[i - 1])
  <2>1. CASE i = m + 1
    <3>1. q[i] = v /\ i - 1 = m /\ q[i - 1] = p[m]
      BY <2>1, <1>2, <1>3
    <3>2. QED
      BY <3>1, <1>4 DEF m
  <2>2. CASE i # m + 1
    <3>1. i \in 2..m /\ i \in 1..m /\ i - 1 \in 1..m
      BY <2>2, <1>2
    <3>2. QED
      BY <3>1, <1>2, <1>3, <1>4
  <2>3. QED
    BY <2>1, <2>2
<1>8. ASSUME NEW i \in 1..(m + 1), NEW j \in 1..(m + 1), i # j
      PROVE  q[i] # q[j]
  BY <1>2, <1>3, <1>5, <1>6, <1>8
<1>9. ASSUME NEW u \in after, \A i \in 1..(m + 1) : q[i] # u
      PROVE  Dead(s, after, u)
  <2>1. \A i \in 1..m : p[i] # u
    <3> TAKE i \in 1..m
    <3>1. i \in 1..(m + 1)
      BY <1>2
    <3>2. QED
      BY <3>1, <1>2, <1>9
  <2>2. u # v
    <3>1. m + 1 \in 1..(m + 1)
      BY <1>2
    <3>2. QED
      BY <3>1, <1>2, <1>9
  <2>3. CASE u \in b
    BY <2>1, <2>3, <1>3, <1>4, DeadGrows
  <2>4. CASE u \notin b
    BY <2>2, <2>4 DEF Grown
  <2>5. QED
    BY <2>3, <2>4
<1>10. m + 1 \in 1..Len(q) /\ q[1] = s.root
  BY <1>2, <1>3
<1>11. QED
  BY <1>7, <1>8, <1>9, <1>10 DEF OnPath, q, m

\* More may be blocked for good.
LEMMA PathKept ==
  ASSUME NEW s, NEW p, NEW m, NEW b, OnPath(s, p, m, b),
         NEW after \in SUBSET s.inner, Grown(s, b, after)
  PROVE  OnPath(s, p, m, after)
<1>1. b \subseteq after
  BY DEF Grown
<1>2. ASSUME NEW u \in after, \A i \in 1..m : p[i] # u
      PROVE  Dead(s, after, u)
  <2>1. CASE u \in b
    BY <1>1, <1>2, <2>1, DeadGrows DEF OnPath
  <2>2. CASE u \notin b
    BY <2>2 DEF Grown
  <2>3. QED
    BY <2>1, <2>2
<1>3. QED
  BY <1>1, <1>2 DEF OnPath

\* To begin with a path and go on to a vertex is to begin with the longer path.
LEMMA TakesIsBegins ==
  ASSUME NEW s, Settled(s), NEW p \in Seq(V), NEW v \in s.inner, NEW c, Closes(s, c)
  PROVE  Takes(p, Len(p), v, c) <=> Begins(Append(p, v), Len(p) + 1, c)
<1> DEFINE m == Len(p)
           q == Append(p, v)
<1>1. v \in V /\ s.root \notin s.inner /\ c[1] = s.root /\ Len(c) \in Nat
  BY SettledShape, ClosesShape
<1>2. m \in Nat /\ (\A i \in 1..m : q[i] = p[i]) /\ q[m + 1] = v
  BY <1>1, AppendProperties, LenProperties
<1> HIDE DEF m, q
<1>3. ASSUME Takes(p, m, v, c)
      PROVE  Begins(q, m + 1, c)
  <2>1. m <= Len(c) /\ (\A i \in 1..m : c[i] = p[i]) /\ Successor(c, m) = v
    BY <1>3 DEF Takes, Begins
  <2>2. m # Len(c)
    BY <1>1, <2>1 DEF Successor
  <2>3. c[m + 1] = v /\ m + 1 <= Len(c)
    BY <1>1, <1>2, <2>1, <2>2 DEF Successor
  <2>4. \A i \in 1..(m + 1) : i = m + 1 \/ i \in 1..m
    BY <1>2
  <2>5. QED
    BY <1>2, <2>1, <2>3, <2>4 DEF Begins
<1>4. ASSUME Begins(q, m + 1, c)
      PROVE  Takes(p, m, v, c)
  <2>1. m + 1 <= Len(c) /\ \A i \in 1..(m + 1) : c[i] = q[i]
    BY <1>4 DEF Begins
  <2>2. m <= Len(c) /\ m # Len(c) /\ m + 1 \in 1..(m + 1) /\ \A i \in 1..m : i \in 1..(m + 1)
    BY <1>1, <1>2, <2>1
  <2>3. QED
    BY <1>2, <2>1, <2>2 DEF Takes, Begins, Successor
<1>5. QED
  BY <1>3, <1>4 DEF m, q

-----------------------------------------------------------------------------
FollowStates ==
  [path : Seq(V), alternate : Seq(V), blocked : SUBSET V, current : Seq(V), vertex : V]

\* A way back that begins with an edge of the vertex.
Leaves(s, g, path) ==
  Way(s, path, g.blocked) /\ Last(path) \in Neighbours(s.onward, g.vertex)

\* The current path of g, and what it is about to be continued with.
Walking(s, g) ==
  /\ g \in FollowStates /\ g.blocked \in SUBSET s.inner
  /\ OnPath(s, g.current, Len(g.current), g.blocked)
  /\ g.current[Len(g.current)] = g.vertex
  /\ Leaves(s, g, g.path)

\* Which cycles go the way of g.
Goes(g, c) ==
  IF g.alternate = None THEN Takes(g.current, Len(g.current), Last(g.path), c)
  ELSE Begins(g.current, Len(g.current), c)

\* f, followed some way.
Following(s, f, g) ==
  /\ Walking(s, g)
  /\ g.alternate # None =>
       Leaves(s, g, g.alternate) /\ Last(g.alternate) # Last(g.path)
  /\ Len(g.current) >= Len(f.current)
  /\ \A i \in 1..Len(f.current) : g.current[i] = f.current[i]
  /\ IF Len(g.current) = Len(f.current)
     THEN g.alternate = None /\ Last(g.path) = Last(f.path)
     ELSE /\ g.current[Len(f.current) + 1] = Last(f.path)
          /\ s.root \in Neighbours(s.onward, g.vertex) => g.path = <<s.root>>
  /\ \A c : Closes(s, c) =>
       (Takes(f.current, Len(f.current), Last(f.path), c) <=> Goes(g, c))

Stopped(s, g) == Last(g.path) = s.root \/ g.alternate # None

LEMMA AdvanceStep ==
  ASSUME NEW s, Settled(s), NEW f, f.current \in Seq(V),
         NEW g, Following(s, f, g), ~Stopped(s, g)
  PROVE  Following(s, f, Advance(s, g)) /\ Len(Advance(s, g).path) = Len(g.path) - 1
<1> DEFINE p == g.current
           m == Len(p)
           v == Last(g.path)
           short == Front(g.path)
           onward == Last(short)
           b == g.blocked \cup {v}
           got == Alternate(s, v, onward, b)
           q == Append(p, v)
           h == Advance(s, g)
<1>1. /\ Walking(s, g) /\ g.alternate = None /\ v # s.root
      /\ Way(s, g.path, g.blocked) /\ v \in Neighbours(s.onward, g.vertex)
  BY DEF Following, Stopped, Walking, Leaves
<1>2. /\ g.path \in Seq(V) /\ g.blocked \in SUBSET s.inner /\ p \in Seq(V) /\ m \in Nat
      /\ OnPath(s, p, m, g.blocked) /\ p[m] = g.vertex
  BY <1>1, LenProperties DEF Walking, FollowStates
<1>3. Len(g.path) >= 2
  <2>1. Len(g.path) \in Nat /\ Len(g.path) >= 1 /\ g.path[1] = s.root /\ v = g.path[Len(g.path)]
    BY <1>1, LenProperties DEF Way, Last
  <2>2. QED
    BY <1>1, <2>1
<1>4. /\ Way(s, short, b) /\ Len(short) = Len(g.path) - 1
      /\ onward \in Neighbours(s.onward, v) /\ v \in s.inner /\ v \notin g.blocked
      /\ s.root \in Neighbours(s.onward, v) => short = <<s.root>>
  BY <1>1, <1>3, WayShortens
<1>5. v \in V /\ b \in SUBSET s.inner
  BY <1>2, <1>4, SettledShape
<1>6. Tried(s, v, onward, b, Len(s.onward[v]), got)
  BY <1>5, AlternateFacts
<1>7. h = [path |-> short, alternate |-> got.path, blocked |-> got.blocked,
           current |-> q, vertex |-> v]
  BY DEF Advance
<1> HIDE DEF h, got
<1>8. /\ got.path \in Seq(V) /\ got.blocked \in SUBSET V /\ got.blocked \in SUBSET s.inner
      /\ Grown(s, b, got.blocked)
      /\ got.path = None =>
           \A j \in 1..Len(s.onward[v]) :
             LET w == s.onward[v][j] IN w = onward \/ w \notin s.inner \/ w \in got.blocked
      /\ got.path # None =>
           /\ Way(s, got.path, got.blocked)
           /\ Last(got.path) \in Neighbours(s.onward, v) /\ Last(got.path) # onward
  BY <1>6 DEF Tried, Options
<1>9. Way(s, short, got.blocked)
  BY <1>4, <1>8, WaySurvives
<1>10. q \in Seq(V) /\ Len(q) = m + 1 /\ (\A i \in 1..m : q[i] = p[i]) /\ q[m + 1] = v
  BY <1>2, <1>5, AppendProperties
<1>11. OnPath(s, q, m + 1, got.blocked)
  BY <1>1, <1>2, <1>4, <1>8, PathGrows
<1>12. /\ h.path = short /\ h.alternate = got.path /\ h.blocked = got.blocked
       /\ h.current = q /\ h.vertex = v /\ h \in FollowStates
  <2>1. short \in Seq(V)
    BY <1>4 DEF Way
  <2> HIDE DEF q, short, v
  <2>2. QED
    BY <1>5, <1>7, <1>8, <1>10, <2>1 DEF FollowStates
<1> HIDE DEF q, short, v, b, p, m, onward
<1>13. Walking(s, h)
  <2>1. Last(h.path) \in Neighbours(s.onward, h.vertex)
    BY <1>4, <1>12 DEF onward
  <2>2. Leaves(s, h, h.path)
    BY <1>9, <1>12, <2>1 DEF Leaves
  <2>3. OnPath(s, h.current, Len(h.current), h.blocked) /\ h.current[Len(h.current)] = h.vertex
    BY <1>10, <1>11, <1>12
  <2>4. QED
    BY <1>8, <1>12, <2>2, <2>3 DEF Walking
<1>14. h.alternate # None => Leaves(s, h, h.alternate) /\ Last(h.alternate) # Last(h.path)
  BY <1>8, <1>12 DEF Leaves, onward
<1>15. /\ Len(f.current) \in Nat /\ Len(h.current) > Len(f.current)
       /\ \A i \in 1..Len(f.current) : h.current[i] = f.current[i]
       /\ h.current[Len(f.current) + 1] = Last(f.path)
  <2>1. /\ m >= Len(f.current) /\ \A i \in 1..Len(f.current) : p[i] = f.current[i]
        /\ m = Len(f.current) => v = Last(f.path)
        /\ m # Len(f.current) => p[Len(f.current) + 1] = Last(f.path)
    BY DEF Following, m, p, v
  <2>2. Len(f.current) \in Nat
    BY LenProperties
  <2>3. Len(h.current) > Len(f.current)
    BY <2>1, <2>2, <1>2, <1>10, <1>12
  <2>4. \A i \in 1..Len(f.current) : h.current[i] = f.current[i]
    <3> TAKE i \in 1..Len(f.current)
    <3>1. i \in 1..m
      BY <2>1, <2>2, <1>2
    <3>2. QED
      BY <3>1, <2>1, <1>10, <1>12
  <2>5. h.current[Len(f.current) + 1] = Last(f.path)
    <3>1. CASE m = Len(f.current)
      BY <3>1, <2>1, <1>10, <1>12
    <3>2. CASE m # Len(f.current)
      <4>1. Len(f.current) + 1 \in 1..m
        BY <3>2, <2>1, <2>2, <1>2
      <4>2. QED
        BY <4>1, <3>2, <2>1, <1>10, <1>12
    <3>3. QED
      BY <3>1, <3>2
  <2>6. QED
    BY <2>2, <2>3, <2>4, <2>5
<1>16. ASSUME NEW c, Closes(s, c)
       PROVE  Takes(f.current, Len(f.current), Last(f.path), c) <=> Goes(h, c)
  <2>1. Takes(f.current, Len(f.current), Last(f.path), c) <=> Takes(p, m, v, c)
    BY <1>1, <1>16 DEF Following, Goes, p, m, v
  <2>2. Takes(p, m, v, c) <=> Begins(q, m + 1, c)
    BY <1>2, <1>4, <1>16, TakesIsBegins DEF q, m
  <2>3. CASE got.path # None
    BY <2>1, <2>2, <2>3, <1>10, <1>12 DEF Goes
  <2>4. CASE got.path = None
    <3>1. Goes(h, c) <=> Takes(q, m + 1, onward, c)
      BY <2>4, <1>10, <1>12 DEF Goes, onward
    <3>2. ASSUME Begins(q, m + 1, c)
          PROVE  Successor(c, m + 1) = onward
      <4> DEFINE w == Successor(c, m + 1)
      <4>1. w \notin got.blocked
        <5>1. m + 1 <= Len(q)
          BY <1>2, <1>10
        <5>2. QED
          BY <5>1, <1>11, <1>16, <3>2, NoCycleThroughBlocked
      <4>2. /\ m + 1 \in 1..Len(c) /\ c[m + 1] = v /\ Len(c) \in Nat
            /\ w = IF m + 1 = Len(c) THEN s.root ELSE c[m + 2]
        <5>1. m + 1 <= Len(c) /\ \A i \in 1..(m + 1) : c[i] = q[i]
          BY <3>2 DEF Begins
        <5>2. m + 1 \in 1..(m + 1) /\ (m + 1) + 1 = m + 2
          BY <1>2
        <5>3. Len(c) \in Nat /\ c[1] = s.root
          BY <1>16, ClosesShape
        <5>4. QED
          BY <5>1, <5>2, <5>3, <1>2, <1>10 DEF Successor
      <4> HIDE DEF w
      <4>3. CASE m + 1 = Len(c)
        <5>1. w = s.root /\ s.root \in Neighbours(s.onward, v)
          BY <4>2, <4>3, <1>16, ClosesShape
        <5>2. short = <<s.root>>
          BY <5>1, <1>4
        <5>3. onward = s.root
          BY <5>2 DEF onward, Last
        <5>4. QED
          BY <5>1, <5>3 DEF w
      <4>4. CASE m + 1 # Len(c)
        <5>1. m + 1 \in 1..(Len(c) - 1) /\ m + 2 \in 2..Len(c) /\ (m + 1) + 1 = m + 2
          BY <4>2, <4>4, <1>2
        <5>2. w \in Neighbours(s.onward, v) /\ w \in s.inner
          BY <4>2, <4>4, <5>1, <1>16, ClosesShape
        <5>3. PICK j \in 1..Len(s.onward[v]) : w = s.onward[v][j]
          BY <5>2 DEF Neighbours
        <5>4. QED
          BY <4>1, <5>2, <5>3, <2>4, <1>8 DEF w
      <4>5. QED
        BY <4>3, <4>4
    <3>3. QED
      BY <2>1, <2>2, <3>1, <3>2 DEF Takes
  <2>5. QED
    BY <2>3, <2>4
<1>17. QED
  <2>1. s.root \in Neighbours(s.onward, h.vertex) => h.path = <<s.root>>
    BY <1>4, <1>12
  <2>2. Len(h.current) >= Len(f.current) /\ Len(h.current) # Len(f.current)
    <3>1. Len(h.current) \in Nat
      BY <1>2, <1>10, <1>12
    <3>2. QED
      BY <1>15, <3>1
  <2>3. Following(s, f, h)
    BY <1>13, <1>14, <1>15, <1>16, <2>1, <2>2, Zenon DEF Following
  <2>4. QED
    BY <1>4, <1>12, <2>3 DEF h, short

Walk(s, g) == IF Stopped(s, g) THEN g ELSE Advance(s, g)

LEMMA WalkStep ==
  ASSUME NEW s, Settled(s), NEW f, f.current \in Seq(V), NEW g, Following(s, f, g)
  PROVE  /\ Following(s, f, Walk(s, g)) /\ Walk(s, g) \in FollowStates
         /\ ~Stopped(s, g) => Len(Walk(s, g).path) = Len(g.path) - 1
<1>1. CASE Stopped(s, g)
  <2>1. Walk(s, g) = g
    BY <1>1 DEF Walk
  <2>2. QED
    BY <1>1, <2>1 DEF Following, Walking
<1>2. CASE ~Stopped(s, g)
  <2>1. Walk(s, g) = Advance(s, g)
    BY <1>2 DEF Walk
  <2>2. Following(s, f, Advance(s, g)) /\ Len(Advance(s, g).path) = Len(g.path) - 1
    BY <1>2, AdvanceStep
  <2>3. QED
    BY <2>1, <2>2 DEF Following, Walking
<1>3. QED
  BY <1>1, <1>2

\* The loop has a value after every vertex of the path.
LEMMA FollowLoops ==
  ASSUME NEW s, Settled(s), NEW f \in FollowStates, Following(s, f, f)
  PROVE  \E after : /\ Follow(s, f) = after[Len(f.path)] /\ after[0] = f
                    /\ \A i \in 1..Len(f.path) : after[i] = Walk(s, after[i - 1])
<1> DEFINE n == Len(f.path)
           D == {g \in FollowStates : Following(s, f, g)}
           step == [g \in D |-> Walk(s, g)]
           IsAfter(w) == w = [i \in 0..n |-> IF i = 0 THEN f ELSE Walk(s, w[i - 1])]
<1>1. f.path \in Seq(V) /\ f.current \in Seq(V) /\ n \in Nat
  BY LenProperties DEF FollowStates
<1> HIDE DEF n
<1>2. f \in D
  OBVIOUS
<1>3. step \in [D -> D]
  <2>1. \A g \in D : Walk(s, g) \in D
    BY <1>1, WalkStep
  <2>2. QED
    BY <2>1
<1>4. \E w : AreIterates(w, D, f, step, n)
  <2> HIDE DEF D, step
  <2> QED BY <1>1, <1>2, <1>3, IteratesExist
<1>5. PICK w : AreIterates(w, D, f, step, n)
  BY <1>4
<1>6. w \in [0..n -> D] /\ w[0] = f /\ \A k \in 1..n : w[k] = step[w[k - 1]]
  BY <1>5 DEF AreIterates
<1>7. IsAfter(w)
  <2>1. ASSUME NEW i \in 0..n
        PROVE  w[i] = IF i = 0 THEN f ELSE Walk(s, w[i - 1])
    <3>1. CASE i = 0
      BY <3>1, <1>6
    <3>2. CASE i # 0
      <4>1. i \in 1..n /\ i - 1 \in 0..n
        BY <1>1, <3>2
      <4>2. w[i] = step[w[i - 1]] /\ w[i - 1] \in D
        BY <1>6, <4>1
      <4>3. QED
        BY <3>2, <4>2
    <3>3. QED
      BY <3>1, <3>2
  <2>2. w = [i \in 0..n |-> w[i]]
    BY <1>6
  <2>3. QED
    BY <2>1, <2>2
<1> DEFINE after == CHOOSE h : IsAfter(h)
<1>8. Follow(s, f) = after[n]
  BY DEF Follow, Walk, Stopped, n
<1>9. IsAfter(after)
  <2> HIDE DEF IsAfter
  <2> QED BY <1>7
<1>10. after = [i \in 0..n |-> IF i = 0 THEN f ELSE Walk(s, after[i - 1])]
  BY <1>9
<1> HIDE DEF after, IsAfter, step, D
<1>11. after[0] = f
  BY <1>1, <1>10
<1>12. ASSUME NEW i \in 1..n
       PROVE  after[i] = Walk(s, after[i - 1])
  <2>1. i \in 0..n /\ i # 0
    BY <1>1
  <2>2. QED
    BY <1>10, <2>1
<1>13. QED
  BY <1>8, <1>11, <1>12 DEF n

\* follow_path's outer loop stops at the root, or where an alternate path leaves.
LEMMA FollowFacts ==
  ASSUME NEW s, Settled(s), NEW f \in FollowStates, Following(s, f, f)
  PROVE  Following(s, f, Follow(s, f)) /\ Stopped(s, Follow(s, f))
<1> DEFINE n == Len(f.path)
<1>1. PICK after : /\ Follow(s, f) = after[n] /\ after[0] = f
                   /\ \A i \in 1..n : after[i] = Walk(s, after[i - 1])
  BY FollowLoops
<1>2. f.path \in Seq(V) /\ f.current \in Seq(V) /\ n \in Nat
  BY LenProperties DEF FollowStates
<1> HIDE DEF n
<1> DEFINE S == {i \in Nat : i <= n =>
                   /\ Following(s, f, after[i])
                   /\ Stopped(s, after[i]) \/ Len(after[i].path) = n - i}
<1>3. 0 \in S
  BY <1>1, <1>2 DEF n
<1>4. ASSUME NEW i \in Nat, i \in S
      PROVE  i + 1 \in S
  <2>1. SUFFICES ASSUME i + 1 <= n
                 PROVE  /\ Following(s, f, after[i + 1])
                        /\ Stopped(s, after[i + 1]) \/ Len(after[i + 1].path) = n - (i + 1)
    OBVIOUS
  <2>2. i + 1 \in 1..n /\ (i + 1) - 1 = i /\ i <= n
    BY <1>2, <2>1
  <2> DEFINE g == after[i]
             h == after[i + 1]
  <2>3. Following(s, f, g) /\ (Stopped(s, g) \/ Len(g.path) = n - i)
    BY <1>4, <2>2
  <2>4. h = Walk(s, g)
    BY <1>1, <2>2
  <2> HIDE DEF g, h
  <2>5. Following(s, f, h) /\ (~Stopped(s, g) => Len(h.path) = Len(g.path) - 1)
    BY <1>2, <2>3, <2>4, WalkStep
  <2>6. CASE Stopped(s, g)
    <3>1. h = g
      BY <2>4, <2>6 DEF Walk
    <3>2. QED
      BY <2>5, <2>6, <3>1 DEF h
  <2>7. CASE ~Stopped(s, g)
    <3>1. Len(h.path) = (n - i) - 1
      BY <2>3, <2>5, <2>7
    <3>2. Len(h.path) = n - (i + 1)
      BY <3>1, <1>2
    <3>3. QED
      BY <2>5, <3>2 DEF h
  <2>8. QED
    BY <2>6, <2>7
<1>5. \A i \in Nat : i \in S
  <2> HIDE DEF S
  <2> QED BY <1>3, <1>4, NatSetInduction
<1>6. Following(s, f, after[n]) /\ (Stopped(s, after[n]) \/ Len(after[n].path) = n - n)
  BY <1>2, <1>5
<1>7. Len(after[n].path) >= 1
  BY <1>6 DEF Following, Walking, Leaves, Way
<1>8. QED
  BY <1>1, <1>2, <1>6, <1>7

-----------------------------------------------------------------------------
\* The path is closed: the current path is a cycle, and the only one that goes on so.
LEMMA FollowedToRoot ==
  ASSUME NEW s, Settled(s), NEW g, Walking(s, g), Last(g.path) = s.root
  PROVE  /\ Closes(s, g.current)
         /\ \A c : Closes(s, c) => (Takes(g.current, Len(g.current), s.root, c) <=> c = g.current)
<1> DEFINE p == g.current
           m == Len(p)
<1>1. /\ p \in Seq(V) /\ m \in Nat /\ OnPath(s, p, m, g.blocked) /\ p[m] = g.vertex
      /\ s.root \in Neighbours(s.onward, p[m])
  BY LenProperties DEF Walking, FollowStates, Leaves
<1>2. /\ m >= 1 /\ p[1] = s.root
      /\ \A i \in 2..m : p[i] \in s.inner /\ p[i] \in Neighbours(s.onward, p[i - 1])
      /\ \A i, j \in 1..m : i # j => p[i] # p[j]
  BY <1>1 DEF OnPath
<1> HIDE DEF p, m
<1>3. m >= 2
  <2>1. SUFFICES ASSUME m = 1
                 PROVE  FALSE
    BY <1>1, <1>2
  <2>2. s.root \in Neighbours(s.onward, s.root)
    BY <1>1, <1>2, <2>1
  <2>3. QED
    BY <2>2, SettledShape
<1>4. \A i \in 2..m : p[1] < p[i]
  <2> TAKE i \in 2..m
  <2>1. p[i] \in s.inner /\ s.inner = {v \in V : v > s.root}
    BY <1>2 DEF Settled
  <2>2. p[i] > s.root /\ p[i] \in Int /\ s.root \in Int
    BY <2>1, VertexType, SettledShape
  <2>3. QED
    BY <1>2, <2>2
<1>5. \A k \in 1..m : Successor(p, k) \in Neighbours(s.onward, p[k])
  <2> TAKE k \in 1..m
  <2>1. CASE k = m
    BY <2>1, <1>1, <1>2 DEF Successor, m
  <2>2. CASE k # m
    <3>1. k + 1 \in 2..m /\ (k + 1) - 1 = k
      BY <2>2, <1>1
    <3>2. p[k + 1] \in Neighbours(s.onward, p[k])
      BY <1>2, <3>1
    <3>3. QED
      BY <2>2, <3>2 DEF Successor, m
  <2>3. QED
    BY <2>1, <2>2
<1>6. Closes(s, p)
  <2>1. Len(p) = m
    BY DEF m
  <2>2. QED
    BY <2>1, <1>1, <1>2, <1>3, <1>4, <1>5 DEF Closes, IsSimpleCycle
<1>7. ASSUME NEW c, Closes(s, c)
      PROVE  Takes(p, m, s.root, c) <=> c = p
  <2>1. c \in Seq(V) /\ Len(c) \in Nat /\ c[1] = s.root /\ \A i \in 2..Len(c) : c[i] \in s.inner
    BY <1>7, ClosesShape DEF Closes
  <2>2. ASSUME Takes(p, m, s.root, c)
        PROVE  c = p
    <3>1. m <= Len(c) /\ (\A i \in 1..m : c[i] = p[i]) /\ Successor(c, m) = s.root
      BY <2>2 DEF Takes, Begins
    <3>2. m = Len(c)
      <4>1. SUFFICES ASSUME m # Len(c)
                     PROVE  FALSE
        OBVIOUS
      <4>2. c[m + 1] = s.root /\ m + 1 \in 2..Len(c)
        BY <4>1, <3>1, <2>1, <1>1, <1>2 DEF Successor
      <4>3. QED
        BY <4>2, <2>1, SettledShape
    <3>3. Len(p) = m
      BY DEF m
    <3>4. QED
      BY <3>1, <3>2, <3>3, <2>1, <1>1, SeqEqual
  <2>3. ASSUME c = p
        PROVE  Takes(p, m, s.root, c)
    BY <2>3, <1>1, <1>2 DEF Takes, Begins, Successor, m
  <2>4. QED
    BY <2>2, <2>3
<1>8. QED
  BY <1>6, <1>7 DEF p, m

LEMMA CallFitsPrefix ==
  ASSUME NEW s, NEW call, NEW p, NEW m, CallFits(s, call, p, m),
         NEW q, m <= Len(q), Len(q) \in Nat, \A i \in 1..m : q[i] = p[i]
  PROVE  CallFits(s, call, q, m)
<1>1. OnPath(s, p, m, call.blocked) /\ p[m] = call.vertex
  BY DEF CallFits
<1>2. m \in Nat /\ m >= 1 /\ m \in 1..Len(q) /\ m \in 1..m /\ 1 \in 1..m
  BY <1>1 DEF OnPath
<1>3. \A i \in 2..m : i \in 1..m /\ i - 1 \in 1..m
  BY <1>2
<1>4. OnPath(s, q, m, call.blocked)
  BY <1>1, <1>2, <1>3 DEF OnPath
<1>5. q[m] = call.vertex
  BY <1>1, <1>2
<1>6. QED
  BY <1>4, <1>5 DEF CallFits

LEMMA SizeFacts ==
  ASSUME NEW s, NEW stack, NEW p, Stacked(s, stack, p), NEW i \in 1..Len(stack)
  PROVE  /\ Size(stack, p, i) \in 1..Len(p)
         /\ OnPath(s, p, Size(stack, p, i), stack[i].blocked)
         /\ p[Size(stack, p, i)] = stack[i].vertex
BY DEF Stacked, CallFits, OnPath

\* Where the paths of a call and of the call that made it end.
LEMMA SizesRise ==
  ASSUME NEW s, NEW stack, NEW p, Stacked(s, stack, p), NEW i \in 1..Len(stack),
         i # Len(stack), Len(stack) \in Nat
  PROVE  /\ Size(stack, p, i) < Size(stack, p, i + 1)
         /\ Led(s, stack[i], p[Size(stack, p, i) + 1])
         /\ Size(stack, p, i) + 1 \in 1..Len(p)
<1>1. i + 1 \in 2..Len(stack) /\ (i + 1) - 1 = i /\ i + 1 \in 1..Len(stack)
  OBVIOUS
<1>2. Size(stack, p, i) < Size(stack, p, i + 1) /\ Led(s, stack[i], p[Size(stack, p, i) + 1])
  BY <1>1 DEF Stacked
<1>3. Size(stack, p, i) \in 1..Len(p) /\ Size(stack, p, i + 1) \in 1..Len(p)
  BY <1>1, SizeFacts
<1>4. QED
  BY <1>2, <1>3

\* The call that runs has looked at an edge.
LEMMA StackAdvanced ==
  ASSUME NEW s, NEW stack \in Seq(Calls), NEW p, Stacked(s, stack, p), stack # <<>>,
         NEW call \in Calls, CallFits(s, call, p, Len(p)),
         call.restore = stack[Len(stack)].restore
  PROVE  Stacked(s, [stack EXCEPT ![Len(stack)] = call], p)
<1> DEFINE n == Len(stack)
           new == [stack EXCEPT ![n] = call]
<1>1. n \in Nat /\ n \in 1..n /\ n > 0
  BY LenProperties
<1>2. Len(new) = n /\ (\A i \in 1..n : i # n => new[i] = stack[i]) /\ new[n] = call
  BY <1>1
<1> HIDE DEF new, n
<1>3. \A i \in 1..n : Size(new, p, i) = Size(stack, p, i)
  <2> TAKE i \in 1..n
  <2>1. CASE i = n
    BY <2>1, <1>2 DEF Size, n
  <2>2. CASE i # n
    <3>1. i + 1 \in 1..n
      BY <1>1, <2>2
    <3>2. new[i + 1].restore = stack[i + 1].restore
      BY <1>2, <3>1 DEF n
    <3>3. QED
      BY <2>2, <1>2, <3>2 DEF Size, n
  <2>3. QED
    BY <2>1, <2>2
<1>4. ASSUME NEW i \in 1..n
      PROVE  CallFits(s, new[i], p, Size(new, p, i))
  <2>1. CASE i = n
    <3>1. Size(new, p, i) = Len(p)
      BY <2>1, <1>2 DEF Size
    <3>2. QED
      BY <2>1, <3>1, <1>2
  <2>2. CASE i # n
    BY <2>2, <1>2, <1>3 DEF Stacked, n
  <2>3. QED
    BY <2>1, <2>2
<1>5. ASSUME NEW i \in 2..n
      PROVE  /\ Size(new, p, i - 1) < Size(new, p, i)
             /\ Led(s, new[i - 1], p[Size(new, p, i - 1) + 1])
  <2>1. i \in 1..n /\ i - 1 \in 1..n /\ i - 1 # n
    BY <1>1
  <2>2. new[i - 1] = stack[i - 1]
    BY <1>2, <2>1
  <2>3. QED
    BY <2>1, <2>2, <1>3, <1>5 DEF Stacked, n
<1>6. QED
  BY <1>2, <1>4, <1>5 DEF Stacked, new, n

\* It calls, with a longer path.
LEMMA StackPushed ==
  ASSUME NEW s, NEW stack \in Seq(Calls), NEW p \in Seq(V), Stacked(s, stack, p), stack # <<>>,
         NEW q \in Seq(V), Len(q) > Len(p), \A i \in 1..Len(p) : q[i] = p[i],
         Led(s, stack[Len(stack)], q[Len(p) + 1]),
         NEW call \in Calls, CallFits(s, call, q, Len(q)), call.restore = Len(p)
  PROVE  Stacked(s, Append(stack, call), q)
<1> DEFINE n == Len(stack)
           new == Append(stack, call)
<1>1. n \in Nat /\ n \in 1..n /\ n > 0 /\ Len(p) \in Nat /\ Len(q) \in Nat
  BY LenProperties
<1>2. Len(new) = n + 1 /\ (\A i \in 1..n : new[i] = stack[i]) /\ new[n + 1] = call
  BY <1>1, AppendProperties
<1> HIDE DEF new, n
<1>3. \A i \in 1..n : Size(new, q, i) = Size(stack, p, i)
  <2> TAKE i \in 1..n
  <2>1. CASE i = n
    <3>1. i # n + 1
      BY <1>1, <2>1
    <3>2. Size(new, q, i) = new[n + 1].restore
      BY <3>1, <1>2, <2>1 DEF Size
    <3>3. QED
      BY <3>2, <1>2, <2>1 DEF Size, n
  <2>2. CASE i # n
    <3>1. i + 1 \in 1..n /\ i # n + 1
      BY <1>1, <2>2
    <3>2. Size(new, q, i) = new[i + 1].restore
      BY <3>1, <1>2 DEF Size
    <3>3. QED
      BY <3>1, <3>2, <1>2, <2>2 DEF Size, n
  <2>3. QED
    BY <2>1, <2>2
<1>4. Size(new, q, n + 1) = Len(q)
  BY <1>2 DEF Size
<1>5. \A i \in 1..(n + 1) : i = n + 1 \/ i \in 1..n
  BY <1>1
<1>6. \A i \in 1..n : Size(stack, p, i) \in 1..Len(p)
  BY SizeFacts DEF n
<1>7. ASSUME NEW i \in 1..(n + 1)
      PROVE  CallFits(s, new[i], q, Size(new, q, i))
  <2>1. CASE i = n + 1
    BY <2>1, <1>2, <1>4
  <2>2. CASE i \in 1..n
    <3> DEFINE m == Size(stack, p, i)
    <3>1. CallFits(s, stack[i], p, m) /\ m \in 1..Len(p)
      BY <2>2, <1>6 DEF Stacked, n
    <3> HIDE DEF m
    <3>2. m <= Len(q) /\ \A k \in 1..m : q[k] = p[k]
      BY <3>1, <1>1
    <3>3. CallFits(s, stack[i], q, m)
      BY <3>1, <3>2, <1>1, CallFitsPrefix
    <3>4. QED
      BY <2>2, <3>3, <1>2, <1>3 DEF m
  <2>3. QED
    BY <1>5, <2>1, <2>2
<1>8. ASSUME NEW i \in 2..(n + 1)
      PROVE  /\ Size(new, q, i - 1) < Size(new, q, i)
             /\ Led(s, new[i - 1], q[Size(new, q, i - 1) + 1])
  <2>1. CASE i = n + 1
    <3>1. i - 1 = n /\ n \in 1..n
      BY <2>1, <1>1
    <3>2. Size(stack, p, n) = Len(p)
      BY DEF Size, n
    <3>3. Size(new, q, n) = Len(p)
      BY <3>1, <3>2, <1>3
    <3>4. Led(s, new[n], q[Len(p) + 1])
      BY <3>1, <1>2 DEF n
    <3>5. QED
      BY <2>1, <3>1, <3>3, <3>4, <1>1, <1>4
  <2>2. CASE i # n + 1
    <3>1. i \in 2..n /\ i \in 1..n /\ i - 1 \in 1..n
      BY <2>2, <1>1
    <3>2. /\ Size(stack, p, i - 1) < Size(stack, p, i)
          /\ Led(s, stack[i - 1], p[Size(stack, p, i - 1) + 1])
      BY <3>1 DEF Stacked, n
    <3>3. Size(stack, p, i - 1) + 1 \in 1..Len(p)
      <4> DEFINE a == Size(stack, p, i - 1)
                 b == Size(stack, p, i)
                 top == Len(p)
      <4>1. a \in 1..top /\ b \in 1..top /\ a < b /\ top \in Nat
        BY <3>1, <3>2, <1>1, <1>6
      <4> HIDE DEF a, b, top
      <4>2. a + 1 \in 1..top
        BY <4>1
      <4>3. QED
        BY <4>2 DEF a, top
    <3>4. /\ Size(new, q, i) = Size(stack, p, i) /\ Size(new, q, i - 1) = Size(stack, p, i - 1)
          /\ new[i - 1] = stack[i - 1]
      BY <3>1, <1>2, <1>3
    <3>5. q[Size(stack, p, i - 1) + 1] = p[Size(stack, p, i - 1) + 1]
      BY <3>3
    <3>6. QED
      BY <3>2, <3>4, <3>5
  <2>3. QED
    BY <2>1, <2>2
<1>9. QED
  BY <1>2, <1>7, <1>8 DEF Stacked, new

\* What is left of the calls and of the path when the call that runs returns.
Pops(stack, p, n, r, new, q) ==
  /\ stack \in Seq(Calls) /\ p \in Seq(V) /\ n = Len(stack) /\ n >= 1
  /\ r = stack[n].restore /\ new = Front(stack) /\ q = SubSeq(p, 1, r)

LEMMA PoppedSizes ==
  ASSUME NEW s, NEW stack, NEW p, Stacked(s, stack, p), NEW n, NEW r, NEW new, NEW q,
         Pops(stack, p, n, r, new, q), n # 1
  PROVE  /\ n \in Nat /\ Len(p) \in Nat /\ Len(new) = n - 1 /\ \A i \in 1..(n - 1) : new[i] = stack[i]
         /\ r \in 1..Len(p) /\ q \in Seq(V) /\ Len(q) = r /\ \A k \in 1..r : q[k] = p[k]
         /\ \A i \in 1..(n - 1) : /\ Size(new, q, i) = Size(stack, p, i)
                                /\ Size(stack, p, i) \in 1..r
<1>0. /\ stack \in Seq(Calls) /\ p \in Seq(V) /\ n = Len(stack) /\ n >= 1
      /\ r = stack[n].restore /\ new = Front(stack) /\ q = SubSeq(p, 1, r)
  BY DEF Pops
<1>1. n \in Nat /\ n > 1 /\ Len(p) \in Nat /\ n = Len(stack)
  BY <1>0, LenProperties
<1>2. Len(new) = n - 1 /\ \A i \in 1..(n - 1) : new[i] = stack[i]
  BY <1>0, <1>1, FrontShape
<1>3. n - 1 \in 1..n /\ n - 1 # n /\ (n - 1) + 1 = n /\ n \in 1..n
  BY <1>1
<1>4. Size(stack, p, n - 1) = r
  BY <1>0, <1>3 DEF Size
<1>5. r \in 1..Len(p)
  <2>1. n - 1 \in 1..Len(stack)
    BY <1>0, <1>3
  <2>2. QED
    BY <1>4, <2>1, SizeFacts
<1>6. q \in Seq(V) /\ Len(q) = r /\ \A k \in 1..r : q[k] = p[k]
  <2>1. r \in 0..Len(p)
    BY <1>5
  <2>2. QED
    BY <1>0, <2>1, PrefixShape
<1>7. \A i \in 1..(n - 1) : Size(new, q, i) = Size(stack, p, i)
  <2> TAKE i \in 1..(n - 1)
  <2>1. CASE i = n - 1
    BY <2>1, <1>0, <1>2, <1>4, <1>6 DEF Size
  <2>2. CASE i # n - 1
    <3>1. i + 1 \in 1..(n - 1) /\ i # n
      BY <2>2, <1>1
    <3>2. QED
      BY <3>1, <2>2, <1>0, <1>2 DEF Size
  <2>3. QED
    BY <2>1, <2>2
<1>8. \A i \in 1..(n - 1) : Size(stack, p, i) \in 1..r
  <2> TAKE i \in 1..(n - 1)
  <2>1. i \in 1..n /\ i # n
    BY <1>1
  <2>2. Size(stack, p, i) \in 1..Len(p)
    BY <1>0, <2>1, SizeFacts
  <2> DEFINE S == {k \in Nat : i + k <= n - 1 => Size(stack, p, i) <= Size(stack, p, i + k)}
  <2>3. 0 \in S
    BY <2>2
  <2>4. ASSUME NEW k \in Nat, k \in S
        PROVE  k + 1 \in S
    <3>1. SUFFICES ASSUME i + (k + 1) <= n - 1
                   PROVE  Size(stack, p, i) <= Size(stack, p, i + (k + 1))
      OBVIOUS
    <3>2. i + k \in 1..n /\ i + k # n /\ (i + k) + 1 = i + (k + 1) /\ i + (k + 1) \in 1..n
          /\ i + k <= n - 1
      BY <3>1, <1>1
    <3>3. Size(stack, p, i + k) < Size(stack, p, i + (k + 1))
      BY <3>2, <1>1, SizesRise
    <3>4. Size(stack, p, i + k) \in 1..Len(p) /\ Size(stack, p, i + (k + 1)) \in 1..Len(p)
      BY <1>0, <3>2, SizeFacts
    <3>5. Size(stack, p, i) <= Size(stack, p, i + k)
      BY <2>4, <3>2
    <3>6. QED
      BY <2>2, <3>3, <3>4, <3>5
  <2>5. \A k \in Nat : k \in S
    <3> HIDE DEF S
    <3> QED BY <2>3, <2>4, NatSetInduction
  <2>6. (n - 1) - i \in Nat /\ i + ((n - 1) - i) = n - 1
    BY <1>1
  <2>7. Size(stack, p, i) <= Size(stack, p, n - 1)
    <3>1. (n - 1) - i \in S
      <4> HIDE DEF S
      <4> QED BY <2>5, <2>6
    <3>2. n - 1 <= n - 1
      BY <1>1
    <3>3. QED
      BY <2>6, <3>1, <3>2
  <2>8. QED
    BY <2>2, <2>7, <1>4, <1>5
<1>9. QED
  BY <1>1, <1>2, <1>5, <1>6, <1>7, <1>8

\* It returns, and the path is what it was.
LEMMA StackPopped ==
  ASSUME NEW s, NEW stack, NEW p, Stacked(s, stack, p), NEW n, NEW r, NEW new, NEW q,
         Pops(stack, p, n, r, new, q)
  PROVE  Stacked(s, new, q)
<1>0. stack \in Seq(Calls) /\ n = Len(stack) /\ n \in Nat /\ n >= 1 /\ new = Front(stack)
  BY LenProperties DEF Pops
<1>1. CASE n = 1
  <2>1. Len(new) = 0
    <3>1. Len(stack) >= 1 /\ Len(stack) - 1 = 0
      BY <1>0, <1>1
    <3>2. QED
      BY <1>0, <3>1, FrontShape
  <2>2. QED
    BY <2>1 DEF Stacked
<1>2. CASE n # 1
  <2>1. /\ n \in Nat /\ Len(new) = n - 1 /\ \A i \in 1..(n - 1) : new[i] = stack[i]
        /\ r \in 1..Len(p) /\ q \in Seq(V) /\ Len(q) = r /\ \A k \in 1..r : q[k] = p[k]
        /\ Len(p) \in Nat
        /\ \A i \in 1..(n - 1) : /\ Size(new, q, i) = Size(stack, p, i)
                               /\ Size(stack, p, i) \in 1..r
    BY <1>2, PoppedSizes
  <2>2. ASSUME NEW i \in 1..(n - 1)
        PROVE  CallFits(s, new[i], q, Size(new, q, i))
    <3> DEFINE m == Size(stack, p, i)
    <3>1. i \in 1..n
      BY <2>1
    <3>2. CallFits(s, stack[i], p, m) /\ m \in 1..r
      BY <3>1, <2>1, <1>0 DEF Stacked
    <3> HIDE DEF m
    <3>3. m <= Len(q) /\ Len(q) \in Nat /\ \A k \in 1..m : q[k] = p[k]
      BY <3>2, <2>1
    <3>4. CallFits(s, stack[i], q, m)
      BY <3>2, <3>3, CallFitsPrefix
    <3>5. QED
      BY <3>4, <2>1 DEF m
  <2>3. ASSUME NEW i \in 2..(n - 1)
        PROVE  /\ Size(new, q, i - 1) < Size(new, q, i)
               /\ Led(s, new[i - 1], q[Size(new, q, i - 1) + 1])
    <3>1. i \in 2..n /\ i \in 1..(n - 1) /\ i - 1 \in 1..(n - 1)
      BY <2>1
    <3>2. /\ Size(stack, p, i - 1) < Size(stack, p, i)
          /\ Led(s, stack[i - 1], p[Size(stack, p, i - 1) + 1])
      BY <3>1, <1>0 DEF Stacked
    <3>3. Size(stack, p, i - 1) + 1 \in 1..r
      BY <3>1, <3>2, <2>1
    <3>4. QED
      BY <3>1, <3>2, <3>3, <2>1
  <2>4. QED
    BY <2>1, <2>2, <2>3 DEF Stacked
<1>3. QED
  BY <1>1, <1>2

-----------------------------------------------------------------------------
(***************************************************************************)
(* The cycles a search has still ahead of it.                              *)
(***************************************************************************)
\* The call that runs has looked at an edge: the cycles that take it are behind,
\* unless a call is made for them.
LEMMA OneFewer ==
  ASSUME NEW list, NEW last \in Nat, \A i \in 1..last : list[i] \in Int,
         \A i, j \in 1..last : i < j => list[i] < list[j],
         NEW k \in 1..last, NEW u
  PROVE  (\E j \in (k + 1)..last : list[j] = u)
           <=> (\E j \in k..last : list[j] = u) /\ u # list[k]
<1>1. \A j \in (k + 1)..last : j \in k..last /\ list[j] # list[k]
  <2> TAKE j \in (k + 1)..last
  <2>1. j \in k..last /\ j \in 1..last /\ k < j
    OBVIOUS
  <2>2. list[k] < list[j] /\ list[k] \in Int /\ list[j] \in Int
    BY <2>1
  <2>3. QED
    BY <2>1, <2>2
<1>2. \A j \in k..last : j = k \/ j \in (k + 1)..last
  OBVIOUS
<1>3. QED
  BY <1>1, <1>2

LEMMA ListShape ==
  ASSUME NEW s, Settled(s), NEW v \in V
  PROVE  /\ Len(s.onward[v]) \in Nat
         /\ \A i \in 1..Len(s.onward[v]) : s.onward[v][i] \in Int
         /\ \A i, j \in 1..Len(s.onward[v]) : i < j => s.onward[v][i] < s.onward[v][j]
<1>1. /\ Len(s.onward[v]) \in 0..N
      /\ \A i \in 1..Len(s.onward[v]) : s.onward[v][i] \in V
      /\ \A i, j \in 1..Len(s.onward[v]) : i < j => s.onward[v][i] < s.onward[v][j]
  BY SettledShape
<1>2. V \in SUBSET Int
  BY VertexType
<1>3. \A i \in 1..Len(s.onward[v]) : s.onward[v][i] \in Int
  BY <1>1, <1>2
<1>4. Len(s.onward[v]) \in Nat
  BY <1>1
<1>5. QED
  BY <1>1, <1>3, <1>4

LEMMA LedPast ==
  ASSUME NEW s, Settled(s), NEW call \in Calls, NEW x, Led(s, call, x)
  PROVE  \A j \in call.offset..Len(s.onward[call.vertex]) : s.onward[call.vertex][j] # x
<1> DEFINE list == s.onward[call.vertex]
           last == Len(list)
           k == call.offset
<1>1. k \in Nat /\ k - 1 \in 1..last /\ list[k - 1] = x
  BY DEF Led, Calls
<1>2. /\ last \in Nat /\ \A i \in 1..last : list[i] \in Int
      /\ \A i, j \in 1..last : i < j => list[i] < list[j]
  BY ListShape DEF Calls
<1> HIDE DEF list, last, k
<1>3. ASSUME NEW j \in k..last
      PROVE  list[j] # x
  <2>1. j \in 1..last /\ k - 1 < j
    BY <1>1, <1>2
  <2>2. list[k - 1] < list[j] /\ list[k - 1] \in Int /\ list[j] \in Int
    BY <1>1, <1>2, <2>1
  <2>3. QED
    BY <1>1, <2>2
<1>4. QED
  BY <1>3 DEF list, last, k

Advances(s, stack, p, old, call, w, new) ==
  /\ Settled(s) /\ stack \in Seq(Calls) /\ p \in Seq(V) /\ Stacked(s, stack, p)
  /\ stack # <<>> /\ call \in Calls
  /\ old = stack[Len(stack)] /\ old.vertex \in V
  /\ old.offset \in 1..Len(s.onward[old.vertex])
  /\ call.vertex = old.vertex /\ call.offset = old.offset + 1 /\ call.restore = old.restore
  /\ w = s.onward[old.vertex][old.offset]
  /\ new = [stack EXCEPT ![Len(stack)] = call]

LEMMA LeftAdvanced ==
  ASSUME NEW s, NEW stack, NEW p, NEW old, NEW call, NEW w, NEW new,
         Advances(s, stack, p, old, call, w, new),
         NEW c, Closes(s, c)
  PROVE  /\ ~Takes(p, Len(p), w, c) => (Left(s, new, p, c) <=> Left(s, stack, p, c))
         /\ Takes(p, Len(p), w, c) => Left(s, stack, p, c) /\ ~Left(s, new, p, c)
<1> SUFFICES ASSUME Settled(s), stack \in Seq(Calls), p \in Seq(V), Stacked(s, stack, p),
                      stack # <<>>, call \in Calls,
                      old = stack[Len(stack)], old.vertex \in V,
                      old.offset \in 1..Len(s.onward[old.vertex]),
                      call.vertex = old.vertex, call.offset = old.offset + 1,
                      call.restore = old.restore,
                      w = s.onward[old.vertex][old.offset],
                      new = [stack EXCEPT ![Len(stack)] = call]
               PROVE  /\ ~Takes(p, Len(p), w, c) => (Left(s, new, p, c) <=> Left(s, stack, p, c))
                      /\ Takes(p, Len(p), w, c) => Left(s, stack, p, c) /\ ~Left(s, new, p, c)
  BY DEF Advances
<1> DEFINE n == Len(stack)
           last == Len(s.onward[old.vertex])
<1>1. n \in Nat /\ n \in 1..n /\ n > 0 /\ Len(p) \in Nat
  BY LenProperties
<1>2. Len(new) = n /\ (\A i \in 1..n : i # n => new[i] = stack[i]) /\ new[n] = call
  BY <1>1
<1>3. last \in Nat
  BY ListShape
<1> HIDE DEF n
<1>4. \A i \in 1..n : Size(new, p, i) = Size(stack, p, i)
  <2> TAKE i \in 1..n
  <2>1. CASE i = n
    BY <2>1, <1>2 DEF Size, n
  <2>2. CASE i # n
    <3>1. i + 1 \in 1..n
      BY <1>1, <2>2
    <3>2. new[i + 1].restore = stack[i + 1].restore
      BY <1>2, <3>1 DEF n
    <3>3. QED
      BY <2>2, <1>2, <3>2 DEF Size, n
  <2>3. QED
    BY <2>1, <2>2
<1>5. Size(stack, p, n) = Len(p)
  BY DEF Size, n
<1> DEFINE At(i, call2) == /\ Begins(p, Size(stack, p, i), c)
                           /\ \E j \in call2.offset..Len(s.onward[call2.vertex]) :
                                s.onward[call2.vertex][j] = Successor(c, Size(stack, p, i))
<1>6. Left(s, stack, p, c) <=> \E i \in 1..n : At(i, stack[i])
  BY DEF Left, n
<1>7. Left(s, new, p, c) <=> \E i \in 1..n : At(i, new[i])
  <2>1. Left(s, new, p, c) <=>
          \E i \in 1..n : /\ Begins(p, Size(new, p, i), c)
                          /\ \E j \in new[i].offset..Len(s.onward[new[i].vertex]) :
                               s.onward[new[i].vertex][j] = Successor(c, Size(new, p, i))
    BY <1>2 DEF Left
  <2>2. \A i \in 1..n :
          At(i, new[i]) <=> /\ Begins(p, Size(new, p, i), c)
                            /\ \E j \in new[i].offset..Len(s.onward[new[i].vertex]) :
                                 s.onward[new[i].vertex][j] = Successor(c, Size(new, p, i))
    BY <1>4
  <2>3. QED
    BY <2>1, <2>2
<1>8. At(n, call) <=> At(n, old) /\ ~Takes(p, Len(p), w, c)
  <2> DEFINE u == Successor(c, Len(p))
             list == s.onward[old.vertex]
  <2>1. (\E j \in (old.offset + 1)..last : list[j] = u)
          <=> (\E j \in old.offset..last : list[j] = u) /\ u # w
    <3>1. /\ last \in Nat /\ \A i \in 1..last : list[i] \in Int
          /\ \A i, j \in 1..last : i < j => list[i] < list[j]
      BY ListShape
    <3> DEFINE k == old.offset
    <3>2. k \in 1..last /\ w = list[k]
      OBVIOUS
    <3> HIDE DEF list, last, u, k
    <3>3. (\E j \in (k + 1)..last : list[j] = u)
            <=> (\E j \in k..last : list[j] = u) /\ u # list[k]
      BY <3>1, <3>2, OneFewer
    <3>4. QED
      BY <3>2, <3>3 DEF k
  <2>2. At(n, call) <=> Begins(p, Len(p), c) /\ \E j \in (old.offset + 1)..last : list[j] = u
    BY <1>5
  <2>3. At(n, old) <=> Begins(p, Len(p), c) /\ \E j \in old.offset..last : list[j] = u
    BY <1>5
  <2> HIDE DEF At
  <2>4. QED
    BY <2>1, <2>2, <2>3 DEF Takes
<1>9. Takes(p, Len(p), w, c) => At(n, old)
  <2>1. SUFFICES ASSUME Takes(p, Len(p), w, c)
                 PROVE  At(n, old)
    OBVIOUS
  <2>2. Begins(p, Len(p), c) /\ Successor(c, Len(p)) = w
    BY <2>1 DEF Takes
  <2>3. old.offset \in old.offset..last
    <3> DEFINE k == old.offset
    <3>1. k \in 1..last /\ last \in Nat
      BY <1>3
    <3> HIDE DEF k, last
    <3>2. k \in k..last
      BY <3>1
    <3>3. QED
      BY <3>2 DEF k
  <2>4. QED
    BY <2>2, <2>3, <1>5
<1>10. ASSUME Takes(p, Len(p), w, c), NEW i \in 1..n, i # n
       PROVE  ~At(i, stack[i])
  <2> DEFINE m == Size(stack, p, i)
             v == stack[i].vertex
             k == stack[i].offset
  <2>1. m \in 1..Len(p) /\ m + 1 \in 1..Len(p) /\ Led(s, stack[i], p[m + 1])
    BY <1>1, <1>10, SizesRise, SizeFacts DEF n
  <2>2. Successor(c, m) = p[m + 1]
    <3>1. Len(p) <= Len(c) /\ \A j \in 1..Len(p) : c[j] = p[j]
      BY <1>10 DEF Takes, Begins
    <3>2. Len(c) \in Nat
      BY ClosesShape
    <3>3. QED
      BY <2>1, <3>1, <3>2, <1>1 DEF Successor
  <2>3. stack[i] \in Calls
    BY ElementOfSeq DEF n
  <2>4. \A j \in k..Len(s.onward[v]) : s.onward[v][j] # p[m + 1]
    <3> DEFINE x == p[m + 1]
               call3 == stack[i]
    <3>1. call3 \in Calls /\ Led(s, call3, x)
      BY <2>1, <2>3
    <3> HIDE DEF x, call3
    <3>2. \A j \in call3.offset..Len(s.onward[call3.vertex]) : s.onward[call3.vertex][j] # x
      BY <3>1, LedPast
    <3>3. QED
      BY <3>2 DEF x, call3
  <2>5. QED
    BY <2>2, <2>4
<1> HIDE DEF At
<1>11. ASSUME ~Takes(p, Len(p), w, c)
       PROVE  Left(s, new, p, c) <=> Left(s, stack, p, c)
  <2>1. At(n, new[n]) <=> At(n, stack[n])
    BY <1>2, <1>8, <1>11 DEF n
  <2>2. \A i \in 1..n : At(i, new[i]) <=> At(i, stack[i])
    BY <2>1, <1>2
  <2>3. QED
    BY <2>2, <1>6, <1>7
<1>12. ASSUME Takes(p, Len(p), w, c)
       PROVE  Left(s, stack, p, c) /\ ~Left(s, new, p, c)
  <2>1. At(n, stack[n]) /\ ~At(n, new[n])
    BY <1>2, <1>8, <1>9, <1>12 DEF n
  <2>2. \A i \in 1..n : ~At(i, new[i])
    BY <2>1, <1>2, <1>10, <1>12
  <2>3. QED
    BY <2>1, <2>2, <1>1, <1>6, <1>7
<1>13. QED
  BY <1>11, <1>12

\* A new call has every cycle ahead that begins with its path.
Pushes(s, stack, p, q, call) ==
  /\ Settled(s) /\ stack \in Seq(Calls) /\ p \in Seq(V) /\ Stacked(s, stack, p) /\ stack # <<>>
  /\ q \in Seq(V) /\ Len(q) > Len(p) /\ \A i \in 1..Len(p) : q[i] = p[i]
  /\ call \in Calls /\ call.restore = Len(p) /\ call.offset = 1 /\ call.vertex = q[Len(q)]

LEMMA LeftPushed ==
  ASSUME NEW s, NEW stack, NEW p, NEW q, NEW call, Pushes(s, stack, p, q, call),
         NEW c, Closes(s, c)
  PROVE  Left(s, Append(stack, call), q, c)
           <=> Left(s, stack, p, c) \/ Begins(q, Len(q), c)
<1> SUFFICES ASSUME Settled(s), stack \in Seq(Calls), p \in Seq(V), Stacked(s, stack, p),
                      stack # <<>>, q \in Seq(V), Len(q) > Len(p),
                      \A i \in 1..Len(p) : q[i] = p[i],
                      call \in Calls, call.restore = Len(p), call.offset = 1,
                      call.vertex = q[Len(q)]
               PROVE  Left(s, Append(stack, call), q, c)
                        <=> Left(s, stack, p, c) \/ Begins(q, Len(q), c)
  BY DEF Pushes
<1> DEFINE n == Len(stack)
           new == Append(stack, call)
<1>1. n \in Nat /\ n \in 1..n /\ n > 0 /\ Len(p) \in Nat /\ Len(q) \in Nat
  BY LenProperties
<1>2. Len(new) = n + 1 /\ (\A i \in 1..n : new[i] = stack[i]) /\ new[n + 1] = call
  BY <1>1, AppendProperties
<1> HIDE DEF new, n
<1>3. \A i \in 1..n : Size(new, q, i) = Size(stack, p, i)
  <2> TAKE i \in 1..n
  <2>1. CASE i = n
    <3>1. i # n + 1
      BY <1>1, <2>1
    <3>2. Size(new, q, i) = new[n + 1].restore
      BY <3>1, <1>2, <2>1 DEF Size
    <3>3. QED
      BY <3>2, <1>2, <2>1 DEF Size, n
  <2>2. CASE i # n
    <3>1. i + 1 \in 1..n /\ i # n + 1
      BY <1>1, <2>2
    <3>2. Size(new, q, i) = new[i + 1].restore
      BY <3>1, <1>2 DEF Size
    <3>3. QED
      BY <3>1, <3>2, <1>2, <2>2 DEF Size, n
  <2>3. QED
    BY <2>1, <2>2
<1>4. Size(new, q, n + 1) = Len(q)
  BY <1>2 DEF Size
<1>5. \A i \in 1..n : Begins(q, Size(stack, p, i), c) <=> Begins(p, Size(stack, p, i), c)
  <2> TAKE i \in 1..n
  <2>1. Size(stack, p, i) \in 1..Len(p)
    BY SizeFacts DEF n
  <2>2. QED
    BY <2>1, <1>1 DEF Begins
<1> DEFINE At(m, x, path) == /\ Begins(path, m, c)
                             /\ \E j \in x.offset..Len(s.onward[x.vertex]) :
                                  s.onward[x.vertex][j] = Successor(c, m)
<1>6. Left(s, stack, p, c) <=> \E i \in 1..n : At(Size(stack, p, i), stack[i], p)
  BY DEF Left, n
<1>7. Left(s, new, q, c) <=> \E i \in 1..(n + 1) : At(Size(new, q, i), new[i], q)
  BY <1>2 DEF Left
<1>8. \A i \in 1..n : At(Size(new, q, i), new[i], q) <=> At(Size(stack, p, i), stack[i], p)
  BY <1>2, <1>3, <1>5
<1>9. At(Len(q), call, q) <=> Begins(q, Len(q), c)
  <2>1. SUFFICES ASSUME Begins(q, Len(q), c)
                 PROVE  \E j \in 1..Len(s.onward[call.vertex]) :
                          s.onward[call.vertex][j] = Successor(c, Len(q))
    OBVIOUS
  <2>2. Len(q) \in 1..Len(q) /\ Len(q) <= Len(c) /\ c[Len(q)] = call.vertex
    BY <2>1, <1>1 DEF Begins
  <2>3. Len(q) \in 1..Len(c)
    BY <2>2, ClosesShape
  <2>4. Successor(c, Len(q)) \in Neighbours(s.onward, call.vertex)
    BY <2>2, <2>3 DEF Closes, IsSimpleCycle
  <2>5. QED
    BY <2>4 DEF Neighbours
<1> HIDE DEF At
<1>10. At(Size(new, q, n + 1), new[n + 1], q) <=> Begins(q, Len(q), c)
  BY <1>2, <1>4, <1>9
<1>11. \A i \in 1..(n + 1) : i = n + 1 \/ i \in 1..n
  BY <1>1
<1>12. n + 1 \in 1..(n + 1) /\ \A i \in 1..n : i \in 1..(n + 1)
  BY <1>1
<1>13. Left(s, new, q, c) <=> Left(s, stack, p, c) \/ Begins(q, Len(q), c)
  BY <1>6, <1>7, <1>8, <1>10, <1>11, <1>12
<1>14. QED
  BY <1>13 DEF new

\* A call that returns has no edge left to look at.
LEMMA LeftPopped ==
  ASSUME NEW s, NEW stack, NEW p, Stacked(s, stack, p), NEW n, NEW r, NEW new, NEW q,
         Pops(stack, p, n, r, new, q),
         Len(s.onward[stack[n].vertex]) \in Nat,
         stack[n].offset > Len(s.onward[stack[n].vertex]),
         NEW c
  PROVE  Left(s, new, q, c) <=> Left(s, stack, p, c)
<1> DEFINE At(m, x, path) == /\ Begins(path, m, c)
                             /\ \E j \in x.offset..Len(s.onward[x.vertex]) :
                                  s.onward[x.vertex][j] = Successor(c, m)
<1>0. stack \in Seq(Calls) /\ n = Len(stack) /\ n \in Nat /\ n >= 1 /\ new = Front(stack)
  BY LenProperties DEF Pops
<1>1. n \in Nat /\ n >= 1 /\ n \in 1..n /\ Len(new) = n - 1
  BY <1>0, FrontShape
<1>2. Left(s, stack, p, c) <=> \E i \in 1..n : At(Size(stack, p, i), stack[i], p)
  BY <1>0 DEF Left
<1>3. Left(s, new, q, c) <=> \E i \in 1..(n - 1) : At(Size(new, q, i), new[i], q)
  BY <1>1 DEF Left
<1>4. ~At(Size(stack, p, n), stack[n], p)
  <2>1. stack[n] \in Calls
    BY <1>0, <1>1, ElementOfSeq
  <2>2. stack[n].offset \in Nat
    BY <2>1 DEF Calls
  <2>3. stack[n].offset..Len(s.onward[stack[n].vertex]) = {}
    BY <2>2
  <2>4. QED
    BY <2>3
<1>5. \A i \in 1..n : i = n \/ i \in 1..(n - 1)
  BY <1>1
<1>6. \A i \in 1..(n - 1) : i \in 1..n
  BY <1>1
<1>7. \A i \in 1..(n - 1) : At(Size(new, q, i), new[i], q) <=> At(Size(stack, p, i), stack[i], p)
  <2> TAKE i \in 1..(n - 1)
  <2> DEFINE m == Size(stack, p, i)
  <2>1. n # 1
    BY <1>1
  <2>2. /\ r \in 1..Len(p) /\ (\A k \in 1..r : q[k] = p[k]) /\ new[i] = stack[i]
        /\ Size(new, q, i) = m /\ m \in 1..r 
    BY <2>1, PoppedSizes
  <2> HIDE DEF m
  <2>3. \A k \in 1..m : q[k] = p[k]
    BY <2>2
  <2>4. Begins(q, m, c) <=> Begins(p, m, c)
    BY <2>3 DEF Begins
  <2>5. At(m, stack[i], q) <=> At(m, stack[i], p)
    BY <2>4
  <2> HIDE DEF At
  <2>6. QED
    BY <2>2, <2>5 DEF m
<1> HIDE DEF At
<1>8. QED
  BY <1>2, <1>3, <1>4, <1>5, <1>6, <1>7

LEMMA SettledSearch == Typed /\ root \in V => Settled(Search)
BY DEF Typed, Settled, Search

LEMMA RunningFacts ==
  ASSUME SearchInv, calls # <<>>
  PROVE  /\ Settled(Search) /\ root \in V
         /\ Search.onward = graph /\ Search.root = root /\ Search.inner = {v \in V : v > root}
         /\ calls \in Seq(Calls) /\ Len(calls) \in Nat /\ Len(calls) >= 1
         /\ Running \in Calls /\ CallFits(Search, Running, current, Len(current))
         /\ current \in Seq(V) /\ Len(current) \in Nat /\ Len(current) >= 1
         /\ Running.vertex \in V /\ Running.offset \in Nat /\ Running.offset >= 1
         /\ Edges = Search.onward[Running.vertex] /\ Len(Edges) \in Nat
         /\ Running.blocked \in SUBSET Search.inner
<1>1. Typed /\ Stacked(Search, calls, current)
  BY DEF SearchInv
<1>2. root \in V /\ calls \in Seq(Calls) /\ current \in Seq(V)
  BY <1>1 DEF Typed
<1>3. Settled(Search)
  BY <1>1, <1>2, SettledSearch
<1>4. Search.onward = graph /\ Search.root = root /\ Search.inner = {v \in V : v > root}
  BY DEF Search
<1>5. Len(calls) \in Nat /\ Len(calls) >= 1 /\ Len(current) \in Nat
  BY <1>2, LenProperties
<1>6. Len(calls) \in 1..Len(calls)
  BY <1>5
<1>7. Running \in Calls
  BY <1>2, <1>6, ElementOfSeq DEF Running
<1>8. Running.vertex \in V /\ Running.offset \in Nat /\ Running.offset >= 1
  BY <1>7 DEF Calls
<1>9. CallFits(Search, Running, current, Len(current))
  <2>1. Size(calls, current, Len(calls)) = Len(current)
    BY DEF Size
  <2>2. QED
    BY <1>1, <1>6, <2>1 DEF Stacked, Running
<1>10. Len(current) >= 1 /\ Running.blocked \in SUBSET Search.inner
  BY <1>5, <1>9 DEF CallFits, OnPath
<1>11. Edges = Search.onward[Running.vertex]
  BY <1>4 DEF Edges
<1>12. Len(Edges) \in Nat
  BY <1>3, <1>8, <1>11, SettledShape
<1>13. QED
  BY <1>2, <1>3, <1>4, <1>5, <1>7, <1>8, <1>9, <1>10, <1>11, <1>12

LEMMA EdgeFacts ==
  ASSUME SearchInv, calls # <<>>, ~Exhausted
  PROVE  /\ Running.offset \in 1..Len(Edges) /\ NextVertex \in V
         /\ NextVertex \in Neighbours(Search.onward, Running.vertex)
         /\ NextVertex = Search.onward[Running.vertex][Running.offset]
<1>1. Running.offset \in 1..Len(Edges)
  BY RunningFacts DEF Exhausted
<1>2. /\ Settled(Search) /\ Running.vertex \in V /\ Edges = Search.onward[Running.vertex]
      /\ Running.offset \in 1..Len(Search.onward[Running.vertex])
  BY <1>1, RunningFacts
<1>3. NextVertex = Search.onward[Running.vertex][Running.offset]
  BY <1>2 DEF NextVertex
<1>4. QED
  BY <1>1, <1>2, <1>3, SettledShape

\* The path that is followed from the edge; without one, its vertex is blocked.
LEMMA ChosenFacts ==
  ASSUME SearchInv, calls # <<>>, ~Exhausted, ~Blocked
  PROVE  /\ Chosen # None => /\ Way(Search, Chosen, Running.blocked) /\ Last(Chosen) = NextVertex
                             /\ Chosen \in Seq(V)
         /\ Chosen = None => \E after \in SUBSET Search.inner :
                               Grown(Search, Running.blocked, after) /\ NextVertex \in after
<1>1. CallFits(Search, Running, current, Len(current))
  BY RunningFacts
<1>2. CASE OnMain
  <2>1. Chosen = Running.main /\ Running.main # None /\ NextVertex = Last(Running.main)
    BY <1>2 DEF Chosen, OnMain
  <2>2. Way(Search, Running.main, Running.blocked)
    BY <1>1, <2>1 DEF CallFits, Kept
  <2>3. QED
    BY <2>1, <2>2 DEF Way
<1>3. CASE ~OnMain /\ OnAlternate
  <2>1. Chosen = Running.alternate /\ Running.alternate # None
        /\ NextVertex = Last(Running.alternate)
    BY <1>3 DEF Chosen, OnAlternate
  <2>2. Way(Search, Running.alternate, Running.blocked)
    BY <1>1, <2>1 DEF CallFits, Kept
  <2>3. QED
    BY <2>1, <2>2 DEF Way
<1>4. CASE ~OnMain /\ ~OnAlternate
  <2> DEFINE got == FindPath(Search, NextVertex, Running.blocked)
  <2>1. Chosen = got.path
    BY <1>4 DEF Chosen
  <2>2. NextVertex # root
    <3>1. SUFFICES ASSUME NextVertex = root
                   PROVE  OnMain
      BY <1>4
    <3>2. Running.offset \in Running.offset..Len(Search.onward[Running.vertex])
      BY EdgeFacts, RunningFacts
    <3>3. Running.main = <<root>>
      BY <1>1, <3>1, <3>2, EdgeFacts, RunningFacts DEF CallFits
    <3>4. Running.main # None /\ Last(Running.main) = root
      BY <3>3 DEF None, Last
    <3>5. QED
      BY <3>1, <3>4 DEF OnMain
  <2>3. NextVertex \in Search.inner /\ NextVertex \notin Running.blocked
    <3>1. ~(NextVertex < root) /\ NextVertex \notin Running.blocked
      BY DEF Blocked
    <3>2. NextVertex \in V /\ NextVertex \in Int /\ root \in Int
      BY EdgeFacts, RunningFacts, VertexType
    <3>3. NextVertex > root
      BY <2>2, <3>1, <3>2
    <3>4. QED
      BY <3>1, <3>2, <3>3, RunningFacts
  <2>4. Settled(Search) /\ Running.blocked \in SUBSET Search.inner
    BY RunningFacts
  <2>5. /\ got.path # None => /\ Way(Search, got.path, Running.blocked)
                              /\ Last(got.path) = NextVertex
        /\ got.path = None => /\ Grown(Search, Running.blocked, got.blocked)
                              /\ NextVertex \in got.blocked /\ got.blocked \in SUBSET Search.inner
    <3> DEFINE s == Search
               b == Running.blocked
               w == NextVertex
               f == FindPath(s, w, b)
    <3>1. Settled(s) /\ b \in SUBSET s.inner /\ w \in s.inner /\ w \notin b
      BY <2>3, <2>4
    <3> HIDE DEF s, b, w
    <3>2. /\ f.path # None => Way(s, f.path, b) /\ Last(f.path) = w
          /\ f.path = None => /\ Grown(s, b, f.blocked) /\ w \in f.blocked
                              /\ f.blocked \in SUBSET s.inner
      <4>1. Gives(s, w, b, f)
        BY <3>1, FindPathFacts
      <4> HIDE DEF f
      <4>2. QED
        BY <4>1 DEF Gives
    <3>3. QED
      BY <3>2 DEF s, b, w
  <2> HIDE DEF got
  <2>6. QED
    BY <2>1, <2>5 DEF Way
<1>5. QED
  BY <1>2, <1>3, <1>4

FollowedFrom ==
  [path |-> Chosen, alternate |-> None, blocked |-> Running.blocked,
   current |-> current, vertex |-> Running.vertex]

LEMMA FollowedFacts ==
  ASSUME SearchInv, calls # <<>>, ~Exhausted, ~Blocked, Chosen # None
  PROVE  Following(Search, FollowedFrom, Followed) /\ Stopped(Search, Followed)
<1> DEFINE f == FollowedFrom
<1>1. /\ f.path = Chosen /\ f.alternate = None /\ f.blocked = Running.blocked
      /\ f.current = current /\ f.vertex = Running.vertex
  BY DEF FollowedFrom
<1>2. Way(Search, Chosen, Running.blocked) /\ Last(Chosen) = NextVertex /\ Chosen \in Seq(V)
  BY ChosenFacts
<1>3. f \in FollowStates
  <2>1. Running.blocked \in SUBSET V /\ None \in Seq(V)
    BY RunningFacts DEF None
  <2>2. QED
    BY <1>2, <2>1, RunningFacts DEF FollowStates, FollowedFrom
<1> HIDE DEF f
<1>4. OnPath(Search, current, Len(current), Running.blocked)
      /\ current[Len(current)] = Running.vertex
  BY RunningFacts DEF CallFits
<1>5. Walking(Search, f)
  BY <1>1, <1>2, <1>3, <1>4, RunningFacts, EdgeFacts DEF Walking, Leaves
<1>6. Following(Search, f, f)
  BY <1>1, <1>5, RunningFacts DEF Following, Goes
<1>7. Followed = Follow(Search, f)
  BY DEF Followed, f, FollowedFrom
<1>8. QED
  BY <1>3, <1>6, <1>7, RunningFacts, FollowFacts DEF f

\* The call that runs, after it has looked at an edge.
LEMMA SteppedFacts ==
  ASSUME SearchInv, calls # <<>>, ~Exhausted
  PROVE  /\ Advanced = [calls EXCEPT ![Len(calls)] = Stepped]
         /\ Stepped \in Calls /\ CallFits(Search, Stepped, current, Len(current))
         /\ Stepped.vertex = Running.vertex /\ Stepped.offset = Running.offset + 1
         /\ Stepped.restore = Running.restore
<1> DEFINE main == IF OnMain THEN None ELSE Running.main
           alternate == IF OnAlternate THEN None ELSE Running.alternate
           call == Stepped
           list == Search.onward[Running.vertex]
           k == Running.offset
<1>1. Advanced = [calls EXCEPT ![Len(calls)] = Stepped]
  BY DEF Advanced
<1>2. Running \in Calls
  BY RunningFacts
<1>3. /\ call.vertex = Running.vertex /\ call.offset = k + 1
      /\ call.restore = Running.restore /\ call.blocked = Running.blocked
      /\ call.main = main /\ call.alternate = alternate
  BY <1>2 DEF Stepped, Calls
<1>4. Stepped \in Calls
  <2>1. k + 1 \in Nat \ {0}
    BY RunningFacts
  <2>2. main \in Seq(V) /\ alternate \in Seq(V)
    BY <1>2 DEF Calls, None
  <2> HIDE DEF main, alternate, k
  <2>3. Stepped = [Running EXCEPT !.offset = k + 1, !.main = main, !.alternate = alternate]
    BY DEF Stepped, main, alternate, k
  <2>4. QED
    BY <1>2, <2>1, <2>2, <2>3 DEF Calls
<1> HIDE DEF call, main, alternate, list, k
<1>5. k \in 1..Len(list) /\ Len(list) \in Nat /\ list[k] = NextVertex
  BY RunningFacts, EdgeFacts DEF k, list
<1>6. \A j \in k..Len(list) : j = k \/ (j \in (k + 1)..Len(list) /\ list[j] # NextVertex)
  <2> TAKE j \in k..Len(list)
  <2>1. SUFFICES ASSUME j # k
                 PROVE  j \in (k + 1)..Len(list) /\ list[j] # NextVertex
    OBVIOUS
  <2>2. j \in (k + 1)..Len(list) /\ k < j /\ j \in 1..Len(list)
    BY <2>1, <1>5
  <2>3. list[k] < list[j]
    BY <1>5, <2>2, RunningFacts, SettledShape DEF list
  <2>4. list[k] \in V /\ list[j] \in V
    BY <1>5, <2>2, RunningFacts, SettledShape DEF list
  <2>5. list[k] \in Int /\ list[j] \in Int
    BY <2>4, VertexType
  <2>6. QED
    BY <1>5, <2>2, <2>3, <2>5
<1>7. CallFits(Search, Running, current, Len(current))
  BY RunningFacts
<1>8. ASSUME NEW path, Kept(Search, path, Running), Last(path) # NextVertex
      PROVE  Kept(Search, path, call)
  <2>1. Way(Search, path, Running.blocked) /\ \E j \in k..Len(list) : list[j] = Last(path)
    BY <1>8 DEF Kept, k, list
  <2>2. \E j \in (k + 1)..Len(list) : list[j] = Last(path)
    BY <2>1, <1>5, <1>6, <1>8
  <2>3. QED
    BY <2>1, <2>2, <1>3 DEF Kept, list
<1>9. ASSUME NEW path, Kept(Search, path, Running), Last(path) = NextVertex
      PROVE  ~Blocked
  <2>1. Way(Search, path, Running.blocked)
    BY <1>9 DEF Kept
  <2>2. Len(path) \in Nat /\ Len(path) >= 1 /\ Last(path) = path[Len(path)] /\ path[1] = root
    BY <2>1, RunningFacts, LenProperties DEF Way, Last
  <2>3. NextVertex = root
        \/ (NextVertex \in {v \in V : v > root} /\ NextVertex \notin Running.blocked)
    <3>1. CASE Len(path) = 1
      BY <3>1, <2>2, <1>9
    <3>2. CASE Len(path) # 1
      <4>1. Len(path) \in 2..Len(path)
        <5> DEFINE m == Len(path)
        <5>1. m \in Nat /\ m >= 1 /\ m # 1
          BY <3>2, <2>2
        <5> HIDE DEF m
        <5>2. m \in 2..m
          BY <5>1
        <5>3. QED
          BY <5>2 DEF m
      <4>2. QED
        BY <4>1, <2>1, <2>2, <1>9, RunningFacts DEF Way
    <3>3. QED
      BY <3>1, <3>2
  <2>4. root \notin Running.blocked /\ root \in Int /\ NextVertex \in Int
    BY RunningFacts, EdgeFacts, SettledShape, VertexType
  <2>5. QED
    BY <2>3, <2>4 DEF Blocked
<1>10. call.main # None => Kept(Search, call.main, call)
  <2>1. SUFFICES ASSUME call.main # None
                 PROVE  Kept(Search, call.main, call)
    OBVIOUS
  <2>2. ~OnMain /\ call.main = Running.main
    BY <2>1, <1>3 DEF main
  <2>3. Kept(Search, Running.main, Running)
    BY <2>1, <2>2, <1>7 DEF CallFits
  <2>4. Last(Running.main) # NextVertex
    BY <2>1, <2>2, <2>3, <1>9 DEF OnMain
  <2>5. QED
    BY <2>2, <2>3, <2>4, <1>8
<1>11. call.alternate # None => Kept(Search, call.alternate, call)
  <2>1. SUFFICES ASSUME call.alternate # None
                 PROVE  Kept(Search, call.alternate, call)
    OBVIOUS
  <2>2. ~OnAlternate /\ call.alternate = Running.alternate
    BY <2>1, <1>3 DEF alternate
  <2>3. Kept(Search, Running.alternate, Running)
    BY <2>1, <2>2, <1>7 DEF CallFits
  <2>4. Last(Running.alternate) # NextVertex
    <3>1. SUFFICES ASSUME Last(Running.alternate) = NextVertex
                   PROVE  FALSE
      OBVIOUS
    <3>2. ~Blocked /\ OnMain
      BY <2>1, <2>2, <2>3, <3>1, <1>9 DEF OnAlternate
    <3>3. Running.main # None /\ Last(Running.main) = Last(Running.alternate)
      BY <3>1, <3>2 DEF OnMain
    <3>4. QED
      BY <2>1, <2>2, <3>3, <1>7 DEF CallFits
  <2>5. QED
    BY <2>2, <2>3, <2>4, <1>8
<1>12. call.main # None /\ call.alternate # None => Last(call.main) # Last(call.alternate)
  BY <1>3, <1>7 DEF CallFits, main, alternate
<1>13. ASSUME NEW j \in (k + 1)..Len(list), list[j] = root
       PROVE  call.main = <<root>>
  <2>1. j \in k..Len(list) /\ NextVertex # root
    <3>1. j \in k..Len(list) /\ j # k
      BY <1>5
    <3>2. QED
      BY <3>1, <1>6, <1>13
  <2>2. Running.main = <<root>>
    BY <2>1, <1>7, <1>13, RunningFacts DEF CallFits, k, list
  <2>3. Last(Running.main) = root
    BY <2>2 DEF Last
  <2>4. ~OnMain
    BY <2>1, <2>3 DEF OnMain
  <2>5. QED
    BY <2>2, <2>4, <1>3 DEF main
<1>14. CallFits(Search, call, current, Len(current))
  <2>1. OnPath(Search, current, Len(current), call.blocked) /\ current[Len(current)] = call.vertex
    BY <1>3, <1>7 DEF CallFits
  <2>2. call.offset <= Len(Search.onward[call.vertex]) + 1
    BY <1>3, <1>5 DEF list
  <2>3. \A j \in call.offset..Len(Search.onward[call.vertex]) :
          Search.onward[call.vertex][j] = Search.root => call.main = <<Search.root>>
    BY <1>3, <1>13, RunningFacts DEF list
  <2>4. QED
    BY <1>10, <1>11, <1>12, <2>1, <2>2, <2>3 DEF CallFits
<1>15. QED
  BY <1>1, <1>3, <1>4, <1>14 DEF call, k

LEMMA SearchInit == Init => SearchInv
<1> SUFFICES ASSUME Init
             PROVE  SearchInv
  OBVIOUS
<1>1. PICK request \in Requests : graph = request[1] /\ bound = request[2]
  BY DEF Init
<1>2. /\ graph \in Adjacencies(V) /\ bound \in {Unbounded} \cup (Nat \ {0, 1})
      /\ \A v \in V : v \notin Neighbours(graph, v)
  BY <1>1
<1>3. cycles = Cycles(graph, MaxLength)
  BY DEF Init, MaxLength
<1>4. calls = <<>> /\ current = <<>> /\ root = -1 /\ Len(calls) = 0
  BY DEF Init
<1>5. calls \in Seq(Calls) /\ current \in Seq(V) /\ root \in -1..(N - 1)
  BY <1>4
<1>6. histogram \in [Lengths -> Nat]
  BY DEF Init
<1>7. Typed
  BY <1>2, <1>3, <1>4, <1>5, <1>6 DEF Typed
<1>8. Stacked(Search, calls, current)
  BY <1>4 DEF Stacked
<1>9. Grounded(calls)
  BY <1>4 DEF Grounded
<1>10. QED
  BY <1>7, <1>8, <1>9 DEF SearchInv

\* What no step changes, and what a step within a search leaves.
LEMMA InputKept ==
  ASSUME [Next]_vars
  PROVE  graph' = graph /\ bound' = bound /\ cycles' = cycles
BY DEF Next, NextRoot, Report, Skip, FollowToRoot, FollowToBranch, Return, Returned, vars, input

LEMMA SameSearch ==
  ASSUME graph' = graph, root' = root
  PROVE  Search' = Search
BY DEF Search

LEMMA TypedKept ==
  ASSUME Typed, [Next]_vars, root' \in -1..(N - 1), calls' \in Seq(Calls), current' \in Seq(V),
         calls' # <<>> => root' \in V, histogram' \in [Lengths -> Nat]
  PROVE  Typed'
<1>1. graph' = graph /\ bound' = bound /\ cycles' = cycles
  BY InputKept
<1>2. MaxLength' = MaxLength
  BY <1>1 DEF MaxLength
<1>3. QED
  BY <1>1, <1>2 DEF Typed

LEMMA NextRootStep ==
  ASSUME SearchInv, NextRoot
  PROVE  SearchInv'
<1> DEFINE r == root + 1
           call == [vertex |-> r, offset |-> 1, blocked |-> {}, main |-> None,
                    alternate |-> None, restore |-> 1]
<1>1. /\ calls' = <<call>> /\ current' = <<r>> /\ root' = r /\ r < N
      /\ graph' = graph /\ histogram' = histogram
  BY DEF NextRoot, input
<1>2. r \in V
  <2>1. root \in -1..(N - 1)
    BY DEF SearchInv, Typed
  <2>2. QED
    BY <2>1, <1>1 DEF V
<1>3. call \in Calls
  BY <1>2 DEF Calls, None
<1> HIDE DEF call
<1>4. Typed'
  <2>1. r \in -1..(N - 1)
    BY <1>2 DEF V
  <2>2. calls' \in Seq(Calls) /\ current' \in Seq(V)
    BY <1>1, <1>2, <1>3
  <2>3. Typed /\ [Next]_vars
    BY DEF SearchInv, Next
  <2>4. histogram' \in [Lengths -> Nat]
    BY <1>1, <2>3 DEF Typed
  <2> HIDE DEF r
  <2>5. QED
    BY <1>1, <1>2, <2>1, <2>2, <2>3, <2>4, TypedKept
<1> DEFINE s == Search'
<1>5. Settled(s) /\ s.root = r /\ s.inner = {v \in V : v > r} /\ s.onward = graph
  <2>1. (Typed /\ root \in V => Settled(Search))'
    BY SettledSearch, PTL
  <2>2. Settled(Search')
    BY <2>1, <1>1, <1>2, <1>4 DEF Settled
  <2>3. QED
    BY <2>2, <1>1 DEF Search
<1> HIDE DEF s, r
<1>6. /\ call.vertex = r /\ call.offset = 1 /\ call.blocked = {} /\ call.main = None
      /\ call.alternate = None
  BY DEF call
<1>7. current'[1] = r /\ Len(current') = 1 /\ Len(calls') = 1 /\ calls'[1] = call
  BY <1>1
<1>8. OnPath(s, current', 1, {})
  <2>1. \A i \in 2..1 : FALSE
    OBVIOUS
  <2>2. \A i, j \in 1..1 : i = j
    OBVIOUS
  <2>3. QED
    BY <1>5, <1>7, <2>1, <2>2 DEF OnPath
<1>9. CallFits(s, call, current', 1)
  <2>1. 1 <= Len(s.onward[r]) + 1
    BY <1>2, <1>5, SettledShape
  <2>2. \A j \in 1..Len(s.onward[r]) : s.onward[r][j] # r
    BY <1>2, <1>5, SettledShape
  <2>3. QED
    BY <1>5, <1>6, <1>7, <1>8, <2>1, <2>2 DEF CallFits
<1>10. Stacked(s, calls', current')
  <2>1. Size(calls', current', 1) = 1
    BY <1>7 DEF Size
  <2>2. \A i \in 1..1 : i = 1
    OBVIOUS
  <2>3. \A i \in 2..1 : FALSE
    OBVIOUS
  <2>4. QED
    BY <1>7, <1>9, <2>1, <2>2, <2>3 DEF Stacked
<1>11. Stacked(Search, calls, current)'
  BY <1>10 DEF s, Stacked, Size
<1>12. Grounded(calls)'
  BY <1>1, <1>7 DEF Grounded, call
<1>13. QED
  BY <1>4, <1>11, <1>12 DEF SearchInv

\* The call that runs goes on with its next edge.
LEMMA AdvancedStep ==
  ASSUME SearchInv, calls # <<>>, ~Exhausted
  PROVE  /\ Advanced \in Seq(Calls) /\ Stacked(Search, Advanced, current)
         /\ Grounded(Advanced) /\ Advanced[1].restore = 1
         /\ Len(Advanced) = Len(calls) /\ Advanced # <<>> /\ Advanced[Len(calls)] = Stepped
<1>1. /\ Advanced = [calls EXCEPT ![Len(calls)] = Stepped]
      /\ Stepped \in Calls /\ CallFits(Search, Stepped, current, Len(current))
      /\ Stepped.restore = Running.restore
  BY SteppedFacts
<1>2. calls \in Seq(Calls) /\ Len(calls) \in Nat /\ Len(calls) >= 1
  BY RunningFacts
<1>3. Advanced \in Seq(Calls) /\ Len(Advanced) = Len(calls) /\ Advanced[Len(calls)] = Stepped
  BY <1>1, <1>2
<1>4. Stacked(Search, Advanced, current)
  BY <1>1, <1>2, StackAdvanced DEF SearchInv, Running
<1>5. Advanced[1].restore = 1
  <2>1. calls[1].restore = 1
    BY <1>2 DEF SearchInv, Grounded
  <2>2. 1 \in 1..Len(calls) /\ (Len(calls) # 1 => Advanced[1] = calls[1])
    BY <1>1, <1>2
  <2>3. CASE Len(calls) = 1
    BY <2>1, <2>3, <1>1, <1>3 DEF Running
  <2>4. QED
    BY <2>1, <2>2, <2>3
<1>6. QED
  BY <1>2, <1>3, <1>4, <1>5 DEF Grounded

LEMMA SkipStep ==
  ASSUME SearchInv, Skip
  PROVE  SearchInv'
<1>1. /\ calls # <<>> /\ ~Exhausted /\ calls' = Advanced /\ current' = current
      /\ root' = root /\ graph' = graph /\ histogram' = histogram
  BY DEF Skip, input
<1>2. Advanced \in Seq(Calls) /\ Stacked(Search, Advanced, current)
  BY <1>1, AdvancedStep
<1>3. Search' = Search
  BY <1>1, SameSearch
<1>4. Typed'
  <2>1. Typed /\ [Next]_vars
    BY DEF SearchInv, Next
  <2>2. QED
    BY <1>1, <1>2, <2>1, TypedKept DEF Typed
<1>5. Stacked(Search', calls', current')
  BY <1>1, <1>2, <1>3
<1>6. Grounded(calls)'
  BY <1>1, AdvancedStep DEF Grounded
<1>7. QED
  BY <1>4, <1>5, <1>6 DEF SearchInv, Stacked, Size

LEMMA FollowToRootStep ==
  ASSUME SearchInv, FollowToRoot
  PROVE  SearchInv'
<1>1. /\ calls # <<>> /\ ~Exhausted /\ calls' = Advanced /\ current' = current
      /\ root' = root /\ graph' = graph
      /\ \/ histogram' = histogram
         \/ histogram' = [histogram EXCEPT ![Len(Followed.current)] = @ + 1]
  BY DEF FollowToRoot, input
<1>2. Advanced \in Seq(Calls) /\ Stacked(Search, Advanced, current)
  BY <1>1, AdvancedStep
<1>3. Search' = Search
  BY <1>1, SameSearch
<1>4. Typed'
  <2>1. Typed /\ [Next]_vars
    BY DEF SearchInv, Next
  <2>2. histogram' \in [Lengths -> Nat]
    BY <1>1, <2>1 DEF Typed
  <2>3. QED
    BY <1>1, <1>2, <2>1, <2>2, TypedKept DEF Typed
<1>5. Stacked(Search', calls', current')
  BY <1>1, <1>2, <1>3
<1>6. Grounded(calls)'
  BY <1>1, AdvancedStep DEF Grounded
<1>7. QED
  BY <1>4, <1>5, <1>6 DEF SearchInv, Stacked, Size

\* The call that a followed path with an alternative is made for.
Branch ==
  [vertex |-> Followed.vertex, offset |-> 1, blocked |-> Followed.blocked,
   main |-> Followed.path, alternate |-> Followed.alternate, restore |-> Len(current)]

LEMMA BranchFacts ==
  ASSUME SearchInv, calls # <<>>, ~Exhausted, ~Blocked, Chosen # None,
         Followed.alternate # None
  PROVE  /\ Followed.current \in Seq(V) /\ Len(Followed.current) > Len(current)
         /\ \A i \in 1..Len(current) : Followed.current[i] = current[i]
         /\ Followed.current[Len(current) + 1] = NextVertex
         /\ Branch \in Calls /\ Branch.restore = Len(current) /\ Branch.offset = 1
         /\ Branch.vertex = Followed.current[Len(Followed.current)]
         /\ CallFits(Search, Branch, Followed.current, Len(Followed.current))
<1> DEFINE g == Followed
           p == Followed.current
           call == Branch
           s == Search
<1>1. /\ Following(s, FollowedFrom, g)
      /\ FollowedFrom.current = current /\ FollowedFrom.path = Chosen /\ Last(Chosen) = NextVertex
  BY FollowedFacts, ChosenFacts DEF FollowedFrom
<1>2. Settled(s) /\ Len(current) \in Nat /\ Len(current) >= 1
  BY RunningFacts
<1> HIDE DEF g, s
<1>3. /\ Walking(s, g) /\ Leaves(s, g, g.alternate) /\ Last(g.alternate) # Last(g.path)
      /\ Len(g.current) >= Len(current) /\ Len(g.current) # Len(current)
      /\ \A i \in 1..Len(current) : g.current[i] = current[i]
      /\ g.current[Len(current) + 1] = NextVertex
      /\ s.root \in Neighbours(s.onward, g.vertex) => g.path = <<s.root>>
  BY <1>1 DEF Following, g
<1>4. /\ g \in FollowStates /\ g.blocked \in SUBSET s.inner
      /\ OnPath(s, g.current, Len(g.current), g.blocked)
      /\ g.current[Len(g.current)] = g.vertex
      /\ Leaves(s, g, g.path)
  BY <1>3 DEF Walking
<1>5. /\ g.current \in Seq(V) /\ Len(g.current) \in Nat /\ g.vertex \in V
      /\ g.path \in Seq(V) /\ g.alternate \in Seq(V) /\ g.blocked \in SUBSET V
  BY <1>4, LenProperties DEF FollowStates
<1>6. /\ call.vertex = g.vertex /\ call.offset = 1 /\ call.blocked = g.blocked
      /\ call.main = g.path /\ call.alternate = g.alternate /\ call.restore = Len(current)
  BY DEF Branch, g
<1>7. call \in Calls
  BY <1>2, <1>5 DEF Branch, Calls, g
<1> HIDE DEF call
<1>8. \A path : Leaves(s, g, path) => Kept(s, path, call)
  <2> TAKE path
  <2> HAVE Leaves(s, g, path)
  <2>1. Way(s, path, g.blocked) /\ Last(path) \in Neighbours(s.onward, g.vertex)
    BY DEF Leaves
  <2>2. \E j \in 1..Len(s.onward[g.vertex]) : s.onward[g.vertex][j] = Last(path)
    BY <2>1 DEF Neighbours
  <2>3. QED
    BY <2>1, <2>2, <1>6 DEF Kept
<1>9. CallFits(s, call, g.current, Len(g.current))
  <2>1. 1 <= Len(s.onward[g.vertex]) + 1
    BY <1>2, <1>5, SettledShape
  <2>2. \A j \in 1..Len(s.onward[g.vertex]) : s.onward[g.vertex][j] = s.root => g.path = <<s.root>>
    BY <1>3 DEF Neighbours
  <2>3. QED
    BY <1>3, <1>4, <1>6, <1>8, <2>1, <2>2 DEF CallFits
<1>10. QED
  BY <1>2, <1>3, <1>4, <1>5, <1>6, <1>7, <1>9 DEF g, call, s

LEMMA FollowToBranchStep ==
  ASSUME SearchInv, FollowToBranch
  PROVE  SearchInv'
<1>1. /\ calls # <<>> /\ ~Exhausted /\ ~Blocked /\ Chosen # None /\ Followed.alternate # None
      /\ root' = root /\ graph' = graph /\ histogram' = histogram
  BY DEF FollowToBranch, input
<1>2. calls' = Append(Advanced, Branch) /\ current' = Followed.current
  BY DEF FollowToBranch, Branch
<1>3. /\ Advanced \in Seq(Calls) /\ Stacked(Search, Advanced, current)
      /\ Len(Advanced) = Len(calls) /\ Advanced # <<>> /\ Advanced[Len(calls)] = Stepped
  BY <1>1, AdvancedStep
<1> DEFINE q == Followed.current
<1>4. /\ q \in Seq(V) /\ Len(q) > Len(current)
      /\ \A i \in 1..Len(current) : q[i] = current[i]
      /\ q[Len(current) + 1] = NextVertex
      /\ Branch \in Calls /\ Branch.restore = Len(current)
      /\ CallFits(Search, Branch, q, Len(q))
  BY <1>1, BranchFacts
<1>5. Led(Search, Stepped, NextVertex)
  <2>1. /\ Running.offset \in 1..Len(Edges) /\ Edges = Search.onward[Running.vertex]
        /\ NextVertex = Search.onward[Running.vertex][Running.offset]
    BY <1>1, EdgeFacts, RunningFacts
  <2>2. Stepped.vertex = Running.vertex /\ Stepped.offset = Running.offset + 1
    BY <1>1, SteppedFacts
  <2>3. Stepped.offset - 1 = Running.offset
    BY <2>1, <2>2
  <2>4. QED
    BY <2>1, <2>2, <2>3 DEF Led
<1>6. current \in Seq(V)
  BY <1>1, RunningFacts
<1> HIDE DEF q
<1>7. Stacked(Search, Append(Advanced, Branch), q)
  BY <1>3, <1>4, <1>5, <1>6, StackPushed
<1>8. Search' = Search
  BY <1>1, SameSearch
<1>9. Typed'
  <2>1. Typed /\ [Next]_vars
    BY DEF SearchInv, Next
  <2>2. Append(Advanced, Branch) \in Seq(Calls)
    BY <1>3, <1>4, AppendProperties
  <2>3. root \in V
    BY <1>1, RunningFacts
  <2>4. QED
    BY <1>1, <1>2, <1>4, <2>1, <2>2, <2>3, TypedKept DEF Typed, q
<1>10. Stacked(Search', calls', current')
  BY <1>2, <1>7, <1>8 DEF q
<1>11. calls'[1].restore = 1
  <2>1. 1 \in 1..Len(Advanced)
    BY <1>1, <1>3, RunningFacts
  <2>2. calls'[1] = Advanced[1]
    BY <1>2, <1>3, <1>4, <2>1, AppendProperties
  <2>3. QED
    BY <2>2, <1>1, AdvancedStep
<1>12. Grounded(calls)'
  BY <1>11 DEF Grounded
<1>13. QED
  BY <1>9, <1>10, <1>12 DEF SearchInv, Stacked, Size

LEMMA ReturnStep ==
  ASSUME SearchInv, Return
  PROVE  /\ SearchInv'
         /\ Pops(calls, current, Len(calls), Running.restore, calls', current')
<1>1. /\ calls # <<>> /\ Exhausted /\ calls' = Front(calls)
      /\ current' = SubSeq(current, 1, Running.restore)
      /\ root' = root /\ graph' = graph /\ histogram' = histogram
  BY DEF Return, input
<1>2. Pops(calls, current, Len(calls), Running.restore, calls', current')
  BY <1>1, RunningFacts DEF Pops, Running
<1>3. Stacked(Search, calls', current')
  BY <1>2, StackPopped DEF SearchInv
<1>4. Search' = Search
  BY <1>1, SameSearch
<1>5. Typed'
  <2>1. Typed /\ [Next]_vars
    BY DEF SearchInv, Next
  <2>2. calls' \in Seq(Calls)
    BY <1>1, RunningFacts, FrontShape
  <2>3. current' \in Seq(V)
    <3>1. current \in Seq(V) /\ Len(current) \in Nat /\ Running.restore \in Nat \ {0}
      BY <1>1, RunningFacts DEF Calls
    <3>2. \A i \in 1..Running.restore : i \in 1..Len(current) => current[i] \in V
      BY <3>1, ElementOfSeq
    <3>3. CASE Len(calls) = 1
      <4>1. Running.restore = 1
        BY <3>3, <1>1 DEF SearchInv, Grounded, Running
      <4>2. Running.restore \in 0..Len(current)
        BY <4>1, <1>1, RunningFacts
      <4>3. QED
        BY <4>2, <3>1, <1>1, PrefixShape
    <3>4. CASE Len(calls) # 1
      BY <3>4, <1>2, PoppedSizes DEF SearchInv
    <3>5. QED
      BY <3>3, <3>4
  <2>4. QED
    BY <1>1, <2>1, <2>2, <2>3, TypedKept DEF Typed
<1>6. Stacked(Search', calls', current')
  BY <1>3, <1>4
<1>7. Grounded(calls)'
  <2>1. SUFFICES ASSUME calls' # <<>>
                 PROVE  calls'[1].restore = 1
    BY DEF Grounded
  <2>2. calls \in Seq(Calls) /\ Len(calls) \in Nat /\ Len(calls) >= 1
    BY <1>1, RunningFacts
  <2>3. /\ Front(calls) \in Seq(Calls) /\ Len(Front(calls)) = Len(calls) - 1
        /\ \A i \in 1..(Len(calls) - 1) : Front(calls)[i] = calls[i]
    BY <2>2, FrontShape
  <2>4. Len(calls) - 1 \in Nat /\ Len(calls) - 1 # 0
    <3>1. Front(calls) # <<>>
      BY <2>1, <1>1
    <3>2. QED
      BY <3>1, <2>2, <2>3, EmptySeq
  <2>5. 1 \in 1..(Len(calls) - 1)
    <3> DEFINE m == Len(calls) - 1
    <3>1. m \in Nat /\ m # 0
      BY <2>4
    <3> HIDE DEF m
    <3>2. 1 \in 1..m
      BY <3>1
    <3>3. QED
      BY <3>2 DEF m
  <2>6. calls'[1] = calls[1]
    BY <2>3, <2>5, <1>1
  <2>7. QED
    BY <2>6, <1>1 DEF SearchInv, Grounded
<1>8. QED
  BY <1>2, <1>5, <1>6, <1>7 DEF SearchInv, Stacked, Size

LEMMA SearchStep ==
  ASSUME SearchInv, [Next]_vars
  PROVE  SearchInv'
<1>1. CASE NextRoot
  BY <1>1, NextRootStep
<1>2. CASE Skip
  BY <1>2, SkipStep
<1>3. CASE FollowToRoot
  BY <1>3, FollowToRootStep
<1>4. CASE FollowToBranch
  BY <1>4, FollowToBranchStep
<1>5. CASE Return
  BY <1>5, ReturnStep
<1>6. CASE Report \/ Returned \/ UNCHANGED vars
  <2>1. /\ graph' = graph /\ bound' = bound /\ cycles' = cycles /\ root' = root
        /\ calls' = calls /\ current' = current /\ histogram' = histogram
    BY <1>6 DEF Report, Returned, vars, input
  <2>2. MaxLength' = MaxLength /\ Search' = Search
    BY <2>1, SameSearch DEF MaxLength
  <2>3. Typed' = Typed
    BY <2>1, <2>2 DEF Typed
  <2>4. Stacked(Search', calls', current') /\ Grounded(calls')
    BY <2>1, <2>2 DEF SearchInv
  <2>5. QED
    BY <2>3, <2>4 DEF SearchInv, Stacked, Size, Grounded
<1>7. QED
  BY <1>1, <1>2, <1>3, <1>4, <1>5, <1>6 DEF Next

LEMMA SearchAlways == Spec => []SearchInv
<1>1. SearchInv /\ [Next]_vars => SearchInv'
  BY SearchStep
<1>2. QED
  BY <1>1, SearchInit, PTL DEF Spec

\* Every step leaves the paths its calls know whole: a path a call has been given
\* still continues from its vertex, past every vertex that is blocked by then.
THEOREM ReadTarjanPathsOpen == Spec => []KnownPathsStayOpen
<1>1. SearchInv => KnownPathsStayOpen
  <2> SUFFICES ASSUME SearchInv
               PROVE  KnownPathsStayOpen
    OBVIOUS
  <2>1. ASSUME NEW i \in 1..Len(calls), NEW path, Kept(Search, path, calls[i])
        PROVE  Continues(path, calls[i].vertex, calls[i].blocked)
    <3> DEFINE v == calls[i].vertex
               b == calls[i].blocked
    <3>1. /\ Way(Search, path, b)
          /\ \E j \in calls[i].offset..Len(graph[v]) : graph[v][j] = Last(path)
      BY <2>1 DEF Kept, Search
    <3>2. calls[i].offset \in Nat \ {0} /\ v \in V
      <4>1. calls[i] \in Calls
        BY ElementOfSeq DEF SearchInv, Typed
      <4>2. QED
        BY <4>1 DEF Calls
    <3> HIDE DEF v, b
    <3>3. Last(path) \in Neighbours(graph, v)
      <4>1. PICK j \in calls[i].offset..Len(graph[v]) : graph[v][j] = Last(path)
        BY <3>1
      <4>2. Len(graph[v]) \in Nat
        BY <3>2, LenProperties DEF SearchInv, Typed, Adjacencies
      <4>3. j \in 1..Len(graph[v])
        BY <4>2, <3>2
      <4>4. QED
        BY <4>1, <4>3 DEF Neighbours
    <3>4. /\ path[1] = root
          /\ \A k \in 2..Len(path) : /\ path[k] \in {u \in V : u > root} /\ path[k] \notin b
                                     /\ path[k - 1] \in Neighbours(graph, path[k])
          /\ \A k, j \in 2..Len(path) : k # j => path[k] # path[j]
          /\ Len(path) \in Nat
      BY <3>1, LenProperties DEF Way, Search
    <3>5. \A k \in 2..Len(path) : \A j \in 2..(k - 1) : path[k] # path[j]
      <4> TAKE k \in 2..Len(path)
      <4> TAKE j \in 2..(k - 1)
      <4>1. j \in 2..Len(path) /\ j # k
        BY <3>4
      <4>2. QED
        BY <4>1, <3>4
    <3>6. QED
      BY <3>3, <3>4, <3>5 DEF Continues, v, b
  <2>2. \A i \in 1..Len(calls) :
          /\ calls[i].main # None => Kept(Search, calls[i].main, calls[i])
          /\ calls[i].alternate # None => Kept(Search, calls[i].alternate, calls[i])
    BY DEF SearchInv, Stacked, CallFits
  <2>3. QED
    BY <2>1, <2>2 DEF KnownPathsStayOpen
<1>2. QED
  BY <1>1, SearchAlways, PTL

\* When a call has no edge left it has taken both of the paths it was made for.
THEOREM ReadTarjanBranchesPay == Spec => []NoFruitlessBranch
<1>1. SearchInv => NoFruitlessBranch
  <2>1. SUFFICES ASSUME SearchInv, calls # <<>>, Exhausted
                 PROVE  Running.main = None /\ Running.alternate = None
    BY DEF NoFruitlessBranch
  <2>2. CallFits(Search, Running, current, Len(current))
    BY <2>1, RunningFacts
  <2>3. Running.offset..Len(Search.onward[Running.vertex]) = {}
    BY <2>1, RunningFacts DEF Exhausted
  <2>4. \A path : ~Kept(Search, path, Running)
    BY <2>3 DEF Kept
  <2>5. QED
    BY <2>2, <2>4 DEF CallFits
<1>2. QED
  BY <1>1, SearchAlways, PTL

\* The cycles to count that begin at the root, and those that close.
LEMMA LengthBound == Typed => MaxLength \in Nat /\ (bound # Unbounded => MaxLength = bound)
BY DEF Typed, MaxLength

LEMMA CycleOfRoot ==
  ASSUME Typed, NEW c \in cycles
  PROVE  c[1] \in V /\ (c[1] = root => Closes(Search, c))
<1>1. /\ graph \in Adjacencies(V) /\ MaxLength \in Nat /\ cycles = Cycles(graph, MaxLength)
  BY LengthBound DEF Typed
<1>2. /\ Len(c) \in 2..MaxLength /\ c \in [1..Len(c) -> V] /\ c[1] \in V
  <2>1. Len(c) \in 2..MaxLength /\ c \in [1..Len(c) -> V]
    BY <1>1, CycleShape
  <2>2. 1 \in 1..Len(c)
    BY <1>1, <2>1
  <2>3. QED
    BY <2>1, <2>2
<1>3. c \in Seq(V)
  <2>1. Len(c) \in Nat
    BY <1>1, <1>2
  <2>2. QED
    BY <1>2, <2>1, SeqDef
<1>4. IsSimpleCycle(graph, c)
  BY <1>1 DEF Cycles
<1>5. QED
  BY <1>1, <1>2, <1>3, <1>4 DEF Closes, Search

RootsClose == \A c \in cycles : c[1] \in V /\ (c[1] = root => Closes(Search, c))

LEMMA CyclesOfRoot == Typed => RootsClose
BY CycleOfRoot DEF RootsClose

LEMMA SimpleLength ==
  ASSUME NEW c \in Seq(V), \A i, j \in 1..Len(c) : i # j => c[i] # c[j]
  PROVE  Len(c) <= N
<1> DEFINE m == Len(c)
           D == 1..m
<1>1. m \in Nat /\ c \in [1..m -> V] /\ \A i, j \in 1..m : i # j => c[i] # c[j]
  BY LenProperties
<1> HIDE DEF m
<1>2. IsFiniteSet(D) /\ Cardinality(D) = m /\ IsFiniteSet(V) /\ Cardinality(V) = N
  <2>1. IsFiniteSet(1..m) /\ Cardinality(1..m) = IF 1 > m THEN 0 ELSE m - 1 + 1
    BY <1>1, FS_Interval
  <2>2. QED
    BY <1>1, <2>1, VertexType
<1>3. ~(Cardinality(V) < Cardinality(D))
  <2>1. c \in [D -> V] /\ \A x, y \in D : x # y => c[x] # c[y]
    BY <1>1
  <2> HIDE DEF D
  <2>2. Cardinality(V) < Cardinality(D) => \E x, y \in D : x # y /\ c[x] = c[y]
    BY <1>2, <2>1, FS_PigeonHole
  <2>3. QED
    BY <2>1, <2>2
<1>4. QED
  BY <1>1, <1>2, <1>3 DEF m

LEMMA ClosedIsCounted ==
  ASSUME Typed, root \in V, NEW c, Closes(Search, c)
  PROVE  /\ Len(c) \in 2..N /\ c[1] = root
         /\ c \in cycles <=> bound = Unbounded \/ Len(c) <= bound
<1>1. /\ graph \in Adjacencies(V) /\ MaxLength \in Nat /\ cycles = Cycles(graph, MaxLength)
      /\ bound # Unbounded => bound \in Nat /\ MaxLength = bound
  BY LengthBound DEF Typed
<1>2. /\ c \in Seq(V) /\ Len(c) >= 2 /\ IsSimpleCycle(graph, c) /\ c[1] = root
  BY DEF Closes, Search
<1>3. Len(c) \in Nat /\ c \in [1..Len(c) -> V]
  BY <1>2, LenProperties
<1>4. Len(c) <= N
  BY <1>2, SimpleLength DEF IsSimpleCycle
<1>5. c \in cycles <=> Len(c) <= MaxLength
  <2>1. ASSUME c \in cycles
        PROVE  Len(c) <= MaxLength
    BY <1>1, <2>1, CycleShape
  <2>2. ASSUME Len(c) <= MaxLength
        PROVE  c \in cycles
    <3>1. Len(c) \in 2..MaxLength /\ DOMAIN graph = V
      BY <1>1, <1>2, <1>3, <2>2 DEF Adjacencies
    <3>2. QED
      BY <1>1, <1>2, <1>3, <3>1 DEF Cycles
  <2>3. QED
    BY <2>1, <2>2
<1>6. Len(c) <= MaxLength <=> bound = Unbounded \/ Len(c) <= bound
  BY <1>1, <1>4 DEF MaxLength
<1>7. QED
  BY <1>2, <1>3, <1>4, <1>5, <1>6

-----------------------------------------------------------------------------
(***************************************************************************)
(* What a step does to the cycles that are still ahead.                    *)
(***************************************************************************)
LEMMA AheadNext ==
  ASSUME NEW c
  PROVE  Ahead(c)' <=> c[1] > root' \/ (c[1] = root' /\ Left(Search', calls', current', c))
BY DEF Ahead, Left, Begins, Size

\* The cycles by the edge that is looked at.
TakesEdge(c) == Takes(current, Len(current), NextVertex, c)

LEMMA EdgeLeft ==
  ASSUME SearchInv, calls # <<>>, ~Exhausted, NEW c, Closes(Search, c)
  PROVE  /\ ~TakesEdge(c) => (Left(Search, Advanced, current, c) <=> Left(Search, calls, current, c))
         /\ TakesEdge(c) => Left(Search, calls, current, c) /\ ~Left(Search, Advanced, current, c)
<1>1. /\ Settled(Search) /\ calls \in Seq(Calls) /\ current \in Seq(V)
      /\ Running.vertex \in V /\ Edges = Search.onward[Running.vertex]
  BY RunningFacts
<1>2. /\ Running.offset \in 1..Len(Search.onward[Running.vertex])
      /\ NextVertex = Search.onward[Running.vertex][Running.offset]
  BY <1>1, EdgeFacts
<1>3. /\ Advanced = [calls EXCEPT ![Len(calls)] = Stepped] /\ Stepped \in Calls
      /\ Stepped.vertex = Running.vertex /\ Stepped.offset = Running.offset + 1
      /\ Stepped.restore = Running.restore
  BY SteppedFacts
<1>4. Stacked(Search, calls, current) /\ Running = calls[Len(calls)]
  BY DEF SearchInv, Running
<1>5. Advances(Search, calls, current, Running, Stepped, NextVertex, Advanced)
  BY <1>1, <1>2, <1>3, <1>4 DEF Advances
<1>6. QED
  BY <1>5, LeftAdvanced DEF TakesEdge

\* No cycle takes an edge that is skipped.
LEMMA SkipsNone ==
  ASSUME SearchInv, Skip, NEW c, Closes(Search, c)
  PROVE  ~TakesEdge(c)
<1>1. calls # <<>> /\ ~Exhausted /\ (Blocked \/ Chosen = None)
  BY DEF Skip
<1>2. /\ Settled(Search) /\ Search.root = root /\ Search.inner = {v \in V : v > root}
      /\ OnPath(Search, current, Len(current), Running.blocked)
      /\ Len(current) \in Nat /\ Len(current) >= 1 /\ root \in V
  BY <1>1, RunningFacts DEF CallFits
<1>3. SUFFICES ASSUME Begins(current, Len(current), c), Successor(c, Len(current)) = NextVertex
               PROVE  FALSE
  BY DEF TakesEdge, Takes
<1>4. Len(current) <= Len(current)
  BY <1>2
<1>5. \A b : OnPath(Search, current, Len(current), b) => NextVertex \notin b
  BY <1>2, <1>3, <1>4, NoCycleThroughBlocked
<1>6. CASE NextVertex < root
  <2>1. /\ Len(c) \in Nat /\ c[1] = root /\ \A i \in 2..Len(c) : c[i] > root
    BY <1>2, ClosesShape
  <2>2. Len(current) <= Len(c)
    BY <1>3 DEF Begins
  <2>3. Len(current) = Len(c) \/ Len(current) + 1 \in 2..Len(c)
    BY <1>2, <2>1, <2>2
  <2>4. NextVertex = root \/ NextVertex > root
    BY <1>3, <2>1, <2>3 DEF Successor
  <2>5. NextVertex \in Int /\ root \in Int
    BY <1>1, <1>2, EdgeFacts, VertexType
  <2>6. QED
    BY <1>6, <2>4, <2>5
<1>7. CASE NextVertex \in Running.blocked
  BY <1>2, <1>5, <1>7
<1>8. CASE ~Blocked
  <2>1. PICK after \in SUBSET Search.inner :
          Grown(Search, Running.blocked, after) /\ NextVertex \in after
    BY <1>1, <1>8, ChosenFacts
  <2>2. OnPath(Search, current, Len(current), after)
    BY <1>2, <2>1, PathKept
  <2>3. QED
    BY <1>5, <2>1, <2>2
<1>9. QED
  BY <1>6, <1>7, <1>8 DEF Blocked

\* One cycle takes the edge that is followed to the root.
LEMMA FoundFacts ==
  ASSUME SearchInv, FollowToRoot
  PROVE  /\ Closes(Search, Followed.current)
         /\ \A c : Closes(Search, c) => (TakesEdge(c) <=> c = Followed.current)
<1>1. calls # <<>> /\ ~Exhausted /\ ~Blocked /\ Chosen # None /\ Followed.alternate = None
  BY DEF FollowToRoot
<1> DEFINE g == Followed
           s == Search
<1>2. /\ Following(s, FollowedFrom, g) /\ Stopped(s, g)
      /\ FollowedFrom.current = current /\ FollowedFrom.path = Chosen /\ Last(Chosen) = NextVertex
  BY <1>1, FollowedFacts, ChosenFacts DEF FollowedFrom
<1>3. Settled(s)
  BY <1>1, RunningFacts
<1>4. g.alternate = None
  BY <1>1
<1> HIDE DEF g, s
<1>5. Walking(s, g) /\ Last(g.path) = s.root
  BY <1>2, <1>4 DEF Following, Stopped
<1>6. /\ Closes(s, g.current)
      /\ \A c : Closes(s, c) => (Takes(g.current, Len(g.current), s.root, c) <=> c = g.current)
  BY <1>3, <1>5, FollowedToRoot
<1>7. \A c : Closes(s, c) =>
        (Takes(current, Len(current), NextVertex, c)
           <=> Takes(g.current, Len(g.current), s.root, c))
  BY <1>2, <1>4, <1>5 DEF Following, Goes
<1>8. QED
  BY <1>6, <1>7 DEF TakesEdge, g, s

\* The cycles that take the edge followed to a branch are ahead of its call.
LEMMA BranchTakes ==
  ASSUME SearchInv, FollowToBranch
  PROVE  \A c : Closes(Search, c) =>
           (TakesEdge(c) <=> Begins(Followed.current, Len(Followed.current), c))
<1>1. calls # <<>> /\ ~Exhausted /\ ~Blocked /\ Chosen # None /\ Followed.alternate # None
  BY DEF FollowToBranch
<1>2. /\ Following(Search, FollowedFrom, Followed)
      /\ FollowedFrom.current = current /\ FollowedFrom.path = Chosen /\ Last(Chosen) = NextVertex
  BY <1>1, FollowedFacts, ChosenFacts DEF FollowedFrom
<1>3. QED
  BY <1>1, <1>2 DEF Following, Goes, TakesEdge

-----------------------------------------------------------------------------
(***************************************************************************)
(* Every cycle is counted once.                                            *)
(***************************************************************************)
\* The step counts a cycle: the path it followed to the root.
Counts == FollowToRoot /\ (bound = Unbounded \/ Len(Followed.current) <= bound)

LEMMA AheadFound ==
  ASSUME SearchInv, FollowToRoot, NEW c \in cycles
  PROVE  Ahead(c)' <=> Ahead(c) /\ ~(Counts /\ c = Followed.current)
<1> DEFINE found == Followed.current
<1>1. /\ calls # <<>> /\ ~Exhausted /\ calls' = Advanced /\ current' = current
      /\ root' = root /\ graph' = graph
  BY DEF FollowToRoot, input
<1>2. Search' = Search /\ Typed /\ root \in V
  BY <1>1, SameSearch, RunningFacts DEF SearchInv
<1>3. Closes(Search, found) /\ \A x : Closes(Search, x) => (TakesEdge(x) <=> x = found)
  BY FoundFacts
<1>4. found[1] = root /\ (found \in cycles <=> bound = Unbounded \/ Len(found) <= bound)
  BY <1>2, <1>3, ClosedIsCounted
<1>5. c = found => Counts
  BY <1>4 DEF Counts
<1> HIDE DEF found
<1>6. CASE c[1] = root
  <2>1. Closes(Search, c)
    BY <1>2, <1>6, CycleOfRoot
  <2>2. /\ ~TakesEdge(c) => (Left(Search, Advanced, current, c) <=> Left(Search, calls, current, c))
        /\ TakesEdge(c) => Left(Search, calls, current, c) /\ ~Left(Search, Advanced, current, c)
    BY <1>1, <2>1, EdgeLeft
  <2>3. TakesEdge(c) <=> c = found
    BY <1>3, <2>1
  <2>4. ~(c[1] > root)
    BY <1>2, <1>6, VertexType
  <2>5. Ahead(c)' <=> Left(Search, Advanced, current, c)
    BY <1>1, <1>2, <1>6, <2>4, AheadNext
  <2>6. Ahead(c) <=> Left(Search, calls, current, c)
    BY <1>6, <2>4 DEF Ahead
  <2>7. QED
    BY <1>5, <2>2, <2>3, <2>5, <2>6 DEF found
<1>7. CASE c[1] # root
  <2>1. Ahead(c)' <=> Ahead(c)
    BY <1>1, <1>7, AheadNext DEF Ahead
  <2>2. c # found
    BY <1>4, <1>7
  <2>3. QED
    BY <2>1, <2>2 DEF found
<1>8. QED
  BY <1>6, <1>7

\* Within a search a step changes what is ahead of its root only.
LEMMA AheadWithin ==
  ASSUME SearchInv, calls # <<>>, root' = root, graph' = graph, NEW c \in cycles,
         Closes(Search, c) =>
           (Left(Search, calls', current', c) <=> Left(Search, calls, current, c))
  PROVE  Ahead(c)' <=> Ahead(c)
<1>1. Search' = Search /\ Typed
  BY SameSearch DEF SearchInv
<1>2. CASE c[1] = root
  <2>1. Closes(Search, c)
    BY <1>1, <1>2, CycleOfRoot
  <2>2. QED
    BY <1>1, <1>2, <2>1, AheadNext DEF Ahead
<1>3. CASE c[1] # root
  BY <1>1, <1>3, AheadNext DEF Ahead
<1>4. QED
  BY <1>2, <1>3

LEMMA AheadSkip ==
  ASSUME SearchInv, Skip, NEW c \in cycles
  PROVE  Ahead(c)' <=> Ahead(c)
<1>1. /\ calls # <<>> /\ ~Exhausted /\ calls' = Advanced /\ current' = current
      /\ root' = root /\ graph' = graph
  BY DEF Skip, input
<1>2. ASSUME Closes(Search, c)
      PROVE  Left(Search, Advanced, current, c) <=> Left(Search, calls, current, c)
  BY <1>1, <1>2, SkipsNone, EdgeLeft
<1>3. QED
  BY <1>1, <1>2, AheadWithin

LEMMA AheadBranch ==
  ASSUME SearchInv, FollowToBranch, NEW c \in cycles
  PROVE  Ahead(c)' <=> Ahead(c)
<1> DEFINE q == Followed.current
<1>1. /\ calls # <<>> /\ ~Exhausted /\ ~Blocked /\ Chosen # None /\ Followed.alternate # None
      /\ root' = root /\ graph' = graph
  BY DEF FollowToBranch, input
<1>2. calls' = Append(Advanced, Branch) /\ current' = q
  BY DEF FollowToBranch, Branch
<1>3. /\ Settled(Search) /\ current \in Seq(V)
      /\ Advanced \in Seq(Calls) /\ Stacked(Search, Advanced, current) /\ Advanced # <<>>
  BY <1>1, AdvancedStep, RunningFacts
<1>4. /\ q \in Seq(V) /\ Len(q) > Len(current) /\ \A i \in 1..Len(current) : q[i] = current[i]
      /\ Branch \in Calls /\ Branch.restore = Len(current) /\ Branch.offset = 1
      /\ Branch.vertex = q[Len(q)]
  BY <1>1, BranchFacts
<1>5. \A x : Closes(Search, x) => (TakesEdge(x) <=> Begins(q, Len(q), x))
  BY BranchTakes
<1> HIDE DEF q
<1>6. Pushes(Search, Advanced, current, q, Branch)
  BY <1>3, <1>4 DEF Pushes
<1>7. ASSUME Closes(Search, c)
      PROVE  Left(Search, calls', current', c) <=> Left(Search, calls, current, c)
  <2>1. Left(Search, Append(Advanced, Branch), q, c)
          <=> Left(Search, Advanced, current, c) \/ Begins(q, Len(q), c)
    BY <1>6, <1>7, LeftPushed
  <2>2. /\ ~TakesEdge(c) => (Left(Search, Advanced, current, c) <=> Left(Search, calls, current, c))
        /\ TakesEdge(c) => Left(Search, calls, current, c)
    BY <1>1, <1>7, EdgeLeft
  <2>3. TakesEdge(c) <=> Begins(q, Len(q), c)
    BY <1>5, <1>7
  <2>4. QED
    BY <1>2, <2>1, <2>2, <2>3 DEF q
<1>8. QED
  BY <1>1, <1>7, AheadWithin

LEMMA AheadReturn ==
  ASSUME SearchInv, Return, NEW c \in cycles
  PROVE  Ahead(c)' <=> Ahead(c)
<1>1. calls # <<>> /\ Exhausted /\ root' = root /\ graph' = graph
  BY DEF Return, input
<1>2. Pops(calls, current, Len(calls), Running.restore, calls', current')
  BY ReturnStep
<1>3. /\ Edges = Search.onward[Running.vertex] /\ Len(Edges) \in Nat
      /\ Running.offset > Len(Edges)
  BY <1>1, RunningFacts DEF Exhausted
<1>4. /\ Len(Search.onward[calls[Len(calls)].vertex]) \in Nat
      /\ calls[Len(calls)].offset > Len(Search.onward[calls[Len(calls)].vertex])
  BY <1>3 DEF Running
<1>5. Stacked(Search, calls, current)
  BY DEF SearchInv
<1>6. Left(Search, calls', current', c) <=> Left(Search, calls, current, c)
  BY <1>2, <1>4, <1>5, LeftPopped
<1>7. QED
  BY <1>1, <1>6, AheadWithin

\* The search of a root begins with all of its cycles ahead.
LEMMA AheadNextRoot ==
  ASSUME SearchInv, NextRoot, NEW c \in cycles
  PROVE  Ahead(c)' <=> Ahead(c)
<1> DEFINE r == root + 1
           call == [vertex |-> r, offset |-> 1, blocked |-> {}, main |-> None,
                    alternate |-> None, restore |-> 1]
<1>1. /\ calls = <<>> /\ root' = r /\ current' = <<r>> /\ calls' = <<call>>
  BY DEF NextRoot
<1>2. SearchInv' /\ Typed'
  BY NextRootStep DEF SearchInv
<1>3. Typed /\ cycles' = cycles
  BY DEF SearchInv, NextRoot, input
<1>4. c[1] \in V /\ (c[1] = r => Closes(Search', c))
  <2>1. (Typed => RootsClose)'
    BY CyclesOfRoot, PTL
  <2>2. \A x \in cycles : x[1] \in V /\ (x[1] = r => Closes(Search', x))
    BY <1>1, <1>2, <1>3, <2>1 DEF RootsClose, Closes
  <2>3. QED
    BY <2>2
<1>5. root \in Int
  BY <1>3 DEF Typed
<1>6. Ahead(c) <=> c[1] > root
  <2>1. ~ \E i \in 1..Len(calls) : TRUE
    BY <1>1
  <2>2. ~Left(Search, calls, current, c)
    BY <2>1 DEF Left
  <2>3. QED
    BY <2>2 DEF Ahead
<1>7. c[1] = r => Left(Search', calls', current', c)
  <2> SUFFICES ASSUME c[1] = r
               PROVE  Left(Search', calls', current', c)
    OBVIOUS
  <2> DEFINE s == Search'
  <2>1. Closes(s, c)
    BY <1>4
  <2>2. s.onward = graph' /\ IsSimpleCycle(graph', c) /\ Len(c) >= 2
    BY <2>1 DEF Closes, Search
  <2>3. call.vertex = r /\ call.offset = 1
    OBVIOUS
  <2> HIDE DEF call, s, r
  <2>4. Len(c) \in Nat
    BY <2>1, LenProperties DEF Closes
  <2>5. Successor(c, 1) \in Neighbours(graph', c[1])
    BY <2>2, <2>4 DEF IsSimpleCycle
  <2>6. \E j \in 1..Len(s.onward[r]) : s.onward[r][j] = Successor(c, 1)
    BY <2>2, <2>5 DEF Neighbours
  <2>7. Len(calls') = 1 /\ calls'[1] = call /\ Len(current') = 1 /\ current'[1] = r
    BY <1>1
  <2>8. Size(calls', current', 1) = 1
    BY <2>7 DEF Size
  <2>9. Begins(current', 1, c)
    BY <2>2, <2>4, <2>7 DEF Begins
  <2>10. QED
    BY <2>3, <2>6, <2>7, <2>8, <2>9 DEF Left, s
<1>8. Ahead(c)' <=> c[1] >= r
  <2>1. r \in Int
    BY <1>5
  <2> HIDE DEF r, call
  <2>2. c[1] \in V /\ V \in SUBSET Int
    BY <1>4, VertexType
  <2>3. c[1] \in Int
    BY <2>2
  <2>4. Ahead(c)' <=> c[1] > r \/ c[1] = r
    BY <1>1, <1>7, AheadNext
  <2>5. QED
    BY <2>1, <2>3, <2>4
<1>9. QED
  <2>1. c[1] \in Int
    BY <1>4, VertexType
  <2>2. c[1] >= r <=> c[1] > root
    BY <1>5, <2>1
  <2>3. QED
    BY <1>6, <1>8, <2>2

LEMMA AheadStep ==
  ASSUME SearchInv, [Next]_vars, NEW c \in cycles
  PROVE  Ahead(c)' <=> Ahead(c) /\ ~(Counts /\ c = Followed.current)
<1>1. Counts => FollowToRoot
  BY DEF Counts
<1>2. CASE FollowToRoot
  BY <1>2, AheadFound
<1>3. CASE ~FollowToRoot /\ (NextRoot \/ Skip \/ FollowToBranch \/ Return)
  BY <1>1, <1>3, AheadNextRoot, AheadSkip, AheadBranch, AheadReturn
<1>4. CASE ~FollowToRoot /\ (Report \/ Returned \/ UNCHANGED vars)
  <2>1. graph' = graph /\ root' = root /\ calls' = calls /\ current' = current
    BY <1>4 DEF Report, Returned, vars, input
  <2>2. Search' = Search
    BY <2>1, SameSearch
  <2>3. QED
    BY <1>1, <1>4, <2>1, <2>2, AheadNext DEF Ahead
<1>5. QED
  BY <1>2, <1>3, <1>4 DEF Next

LEMMA CountInit == Init => CountInv
<1> SUFFICES ASSUME Init
             PROVE  CountInv
  OBVIOUS
<1>1. /\ SearchInv /\ counted = {} /\ root = -1 /\ result = NoResult
      /\ histogram = [len \in Lengths |-> 0]
  BY SearchInit DEF Init
<1>2. IsFiniteSet(counted) /\ histogram = HistogramOf(counted, N)
  <2>1. \A len \in Lengths : Cardinality(OfLength({}, len)) = 0
    BY FS_EmptySet DEF OfLength
  <2>2. IsFiniteSet({})
    BY FS_EmptySet
  <2>3. QED
    BY <1>1, <2>1, <2>2 DEF HistogramOf, Lengths
<1>3. \A c \in cycles : Ahead(c)
  <2>1. \A c \in cycles : c[1] \in V
    BY <1>1, CycleOfRoot DEF SearchInv
  <2>2. \A v \in V : v > -1
    BY DEF V
  <2>3. QED
    BY <1>1, <2>1, <2>2 DEF Ahead
<1>4. QED
  BY <1>1, <1>2, <1>3 DEF CountInv

\* The step that counts a cycle counts it for the first time.
LEMMA CountFound ==
  ASSUME SearchInv, CountInv, Counts
  PROVE  /\ Followed.current \in cycles \ counted
         /\ counted' = counted \cup {Followed.current}
         /\ IsFiniteSet(counted') /\ histogram' = HistogramOf(counted', N)
<1> DEFINE found == Followed.current
<1>1. /\ FollowToRoot /\ calls # <<>> /\ ~Exhausted
      /\ bound = Unbounded \/ Len(found) <= bound
  BY DEF Counts, FollowToRoot
<1>2. counted' = counted \cup {found} /\ histogram' = [histogram EXCEPT ![Len(found)] = @ + 1]
  BY <1>1 DEF FollowToRoot
<1>3. Typed /\ root \in V
  BY <1>1, RunningFacts DEF SearchInv
<1>4. Closes(Search, found) /\ TakesEdge(found)
  BY <1>1, FoundFacts
<1>5. Len(found) \in 2..N /\ found[1] = root /\ found \in cycles
  BY <1>1, <1>3, <1>4, ClosedIsCounted
<1>6. Left(Search, calls, current, found)
  BY <1>1, <1>4, EdgeLeft
<1> HIDE DEF found
<1>7. found \notin counted
  BY <1>5, <1>6 DEF CountInv, Ahead
<1>8. IsFiniteSet(counted) /\ histogram = HistogramOf(counted, N)
  BY DEF CountInv
<1>9. IsFiniteSet(counted')
  BY <1>2, <1>8, FS_AddElement
<1>10. ASSUME NEW len \in 2..N
       PROVE  histogram'[len] = Cardinality(OfLength(counted', len))
  <2>1. histogram[len] = Cardinality(OfLength(counted, len)) /\ len \in DOMAIN histogram
    BY <1>8 DEF HistogramOf
  <2>2. histogram'[len] = IF len = Len(found) THEN histogram[len] + 1 ELSE histogram[len]
    BY <1>2, <2>1
  <2>3. Cardinality(OfLength(counted', len))
          = IF Len(found) = len THEN Cardinality(OfLength(counted, len)) + 1
                                ELSE Cardinality(OfLength(counted, len))
    BY <1>2, <1>7, <1>8, OfLengthAdd
  <2>4. QED
    BY <2>1, <2>2, <2>3
<1>11. histogram' = HistogramOf(counted', N)
  <2>1. histogram' = [len \in 2..N |-> histogram'[len]]
    BY <1>2, <1>8 DEF HistogramOf
  <2>2. QED
    BY <1>10, <2>1 DEF HistogramOf
<1>12. QED
  BY <1>2, <1>5, <1>7, <1>9, <1>11 DEF found

LEMMA CountStep == SearchInv /\ CountInv /\ [Next]_vars => CountInv'
<1> SUFFICES ASSUME SearchInv, CountInv, [Next]_vars
             PROVE  CountInv'
  OBVIOUS
<1>1. cycles' = cycles
  BY InputKept
<1>2. /\ counted' \subseteq cycles /\ IsFiniteSet(counted')
      /\ histogram' = HistogramOf(counted', N)
      /\ \A c \in cycles : c \in counted' <=> c \in counted \/ (Counts /\ c = Followed.current)
  <2>1. CASE Counts
    BY <2>1, CountFound DEF CountInv
  <2>2. CASE ~Counts
    <3>1. counted' = counted /\ histogram' = histogram
      BY <2>2 DEF Counts, Next, NextRoot, Report, Skip, FollowToRoot, FollowToBranch, Return,
                  Returned, vars
    <3>2. QED
      BY <2>2, <3>1 DEF CountInv
  <2>3. QED
    BY <2>1, <2>2
<1>3. \A c \in cycles : c \in counted' <=> ~Ahead(c)'
  <2>1. \A c \in cycles : Ahead(c)' <=> Ahead(c) /\ ~(Counts /\ c = Followed.current)
    BY AheadStep
  <2>2. \A c \in cycles : c \in counted <=> ~Ahead(c)
    BY DEF CountInv
  <2>3. QED
    BY <1>2, <2>1, <2>2
<1>4. result' # NoResult => calls' = <<>> /\ root' + 1 = N
  <2>1. result # NoResult => calls = <<>> /\ root + 1 = N
    BY DEF CountInv
  <2>2. CASE Report \/ Returned \/ UNCHANGED vars
    BY <2>1, <2>2 DEF Report, Returned, vars
  <2>3. CASE NextRoot \/ Skip \/ FollowToRoot \/ FollowToBranch \/ Return
    <3>1. result' = result /\ (calls # <<>> \/ root + 1 < N)
      BY <2>3 DEF NextRoot, Skip, FollowToRoot, FollowToBranch, Return
    <3>2. root \in Int /\ N \in Nat
      BY DEF SearchInv, Typed
    <3>3. QED
      BY <2>1, <3>1, <3>2
  <2>4. QED
    BY <2>2, <2>3 DEF Next
<1>5. QED
  BY <1>1, <1>2, <1>3, <1>4 DEF CountInv

LEMMA CountAlways == Spec => [](SearchInv /\ CountInv)
<1>1. SearchInv /\ [Next]_vars => SearchInv'
  BY SearchStep
<1>2. QED
  BY <1>1, SearchInit, CountInit, CountStep, PTL DEF Spec

\* When run() has been through the last root every cycle is counted.
LEMMA AllCountedAtTheEnd ==
  ASSUME SearchInv, CountInv, calls = <<>>, root + 1 = N
  PROVE  counted = cycles
<1>1. root = N - 1 /\ Typed
  BY DEF SearchInv, Typed
<1>2. \A c \in cycles : c[1] \in V
  BY <1>1, CycleOfRoot
<1>3. ~ \E i \in 1..Len(calls) : TRUE
  OBVIOUS
<1>4. \A c \in cycles : ~Ahead(c)
  <2> TAKE c \in cycles
  <2>1. ~(c[1] > root)
    BY <1>1, <1>2 DEF V
  <2>2. ~Left(Search, calls, current, c)
    BY <1>3 DEF Left
  <2>3. QED
    BY <2>1, <2>2 DEF Ahead
<1>5. QED
  BY <1>4 DEF CountInv

\* run() implements CycleCounting: each simple cycle within the bound is counted
\* once, and the histogram returned is theirs.
THEOREM ReadTarjanImplementsCounting == Spec => ReadTarjanCounts
<1>1. Init => Abstract!Init
  BY DEF Init, Abstract!Init
<1>2. SearchInv /\ CountInv /\ [Next]_vars => [Abstract!Next]_(Abstract!vars)
  <2> SUFFICES ASSUME SearchInv, CountInv, [Next]_vars
               PROVE  Abstract!Next \/ UNCHANGED Abstract!vars
    OBVIOUS
  <2>1. CASE Counts
    <3>1. /\ Followed.current \in cycles \ counted
          /\ counted' = counted \cup {Followed.current}
      BY <2>1, CountFound
    <3>2. result = NoResult /\ result' = result /\ cycles' = cycles
      BY <2>1, InputKept DEF Counts, FollowToRoot, CountInv
    <3>3. Abstract!Count
      BY <3>1, <3>2 DEF Abstract!Count
    <3>4. QED
      BY <3>3 DEF Abstract!Next
  <2>2. CASE Report
    <3>1. counted = cycles
      BY <2>2, AllCountedAtTheEnd DEF Report
    <3>2. /\ result = NoResult /\ result' = HistogramOf(counted, N)
          /\ counted' = counted /\ cycles' = cycles
      BY <2>2, InputKept DEF Report, CountInv
    <3>3. Abstract!Report
      BY <3>1, <3>2 DEF Abstract!Report
    <3>4. QED
      BY <3>3 DEF Abstract!Next
  <2>3. CASE ~Counts /\ ~Report
    <3>1. counted' = counted /\ result' = result /\ cycles' = cycles
      BY <2>3, InputKept DEF Counts, Next, NextRoot, Skip, FollowToRoot, FollowToBranch,
                             Return, Returned, vars
    <3>2. QED
      BY <3>1 DEF Abstract!vars
  <2>4. QED
    BY <2>1, <2>2, <2>3
<1>3. QED
  BY <1>1, <1>2, CountAlways, PTL DEF Spec, ReadTarjanCounts, Abstract!Spec
=============================================================================
