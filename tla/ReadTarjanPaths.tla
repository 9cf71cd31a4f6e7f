-------------------------- MODULE ReadTarjanPaths ---------------------------
(***************************************************************************)
(* find_path and follow_path, which the two Read-Tarjan searches share.    *)
(*                                                                         *)
(* A search s is a record: "onward" has for each vertex where the edges    *)
(* lead that it may take, in order; "root" is root_; "inner" has the       *)
(* vertices that it may pass between the two.  A path is kept as in the    *)
(* code: the root first and the next vertex last.                          *)
(***************************************************************************)
EXTENDS Integers, SequencesExt

None == <<>>    \* std::nullopt for a path

\* find_path_dfs, of a vertex, from its i-th edge on, with what is visited: a path
\* to the root, if any, that avoids the blocked and the visited vertices.
Dfs(s, blocked) ==
  LET dfs[at \in (DOMAIN s.onward) \X (Nat \ {0}) \X SUBSET DOMAIN s.onward] ==
        LET v == at[1]
            next == s.onward[v][at[2]]
            below == dfs[<<next, 1, at[3] \cup {next}>>]
            onFrom(visited) == dfs[<<v, at[2] + 1, visited>>]
        IN  IF at[2] > Len(s.onward[v]) THEN [path |-> None, visited |-> at[3]]
            ELSE IF next = s.root THEN [path |-> <<s.root, v>>, visited |-> at[3]]
            ELSE IF next \notin s.inner \/ next \in at[3] \cup blocked THEN onFrom(at[3])
            ELSE IF below.path = None THEN onFrom(below.visited)
            ELSE [below EXCEPT !.path = Append(@, v)]
  IN  dfs

\* Mutant: a search that succeeds blocks what it has visited, too.
FindPathGreedy(s, v, blocked) ==
  LET got == Dfs(s, blocked)[<<v, 1, {v}>>]
  IN  [path |-> got.path, blocked |-> blocked \cup got.visited]

\* A search that fails blocks what it has visited.
FindPath(s, v, blocked) ==
  LET got == Dfs(s, blocked)[<<v, 1, {v}>>]
  IN  [path |-> got.path,
       blocked |-> IF got.path = None THEN blocked \cup got.visited ELSE blocked]

\* follow_path's inner loop, over the edges of v: the first path that leaves v for
\* another vertex than the one the path goes on with.
Alternate(s, v, onward, blocked) ==
  LET after[i \in 0..Len(s.onward[v])] ==
        IF i = 0 THEN [path |-> None, blocked |-> blocked]
        ELSE LET got == after[i - 1]
                 candidate == s.onward[v][i]
             IN  IF \/ got.path # None
                    \/ candidate = onward \/ candidate \notin s.inner
                    \/ candidate \in got.blocked
                 THEN got
                 ELSE FindPath(s, candidate, got.blocked)
  IN  after[Len(s.onward[v])]

\* Mutant: a vertex that joins the current path is blocked after the search for
\* an alternate path, not before it.
AdvanceLate(s, f) ==
  LET v == Last(f.path)
      got == Alternate(s, v, Last(Front(f.path)), f.blocked)
  IN  [path |-> Front(f.path), alternate |-> got.path,
       blocked |-> got.blocked \cup {v}, current |-> Append(f.current, v), vertex |-> v]

\* follow_path's outer loop: the path's next vertex joins the current path.
Advance(s, f) ==
  LET v == Last(f.path)
      got == Alternate(s, v, Last(Front(f.path)), f.blocked \cup {v})
  IN  [path |-> Front(f.path), alternate |-> got.path,
       blocked |-> got.blocked, current |-> Append(f.current, v), vertex |-> v]

\* Walk along the path until an alternate one leaves it, or to the root.
Follow(s, f) ==
  LET after[n \in 0..Len(f.path)] ==
        IF n = 0 THEN f
        ELSE LET g == after[n - 1]
             IN  IF Last(g.path) = s.root \/ g.alternate # None THEN g ELSE Advance(s, g)
  IN  after[Len(f.path)]
=============================================================================
