-------------------------- MODULE CudaBranchSplit ---------------------------
(***************************************************************************)
(* split_static_search: the host walks the simple paths of each root up to *)
(* a cutoff, counts the cycles that close before it, and makes a work item *)
(* of each path of the cutoff's length that has something left to search.  *)
(***************************************************************************)
EXTENDS SimpleCycles

\* What the search of root path[1] may do with the edge from the end of path to w.
Closes(path, w) == w = path[1] /\ Len(path) >= 2
Extends(path, w, bound) ==
  /\ w > path[1] /\ \A i \in 1..Len(path) : path[i] # w
  /\ Len(path) < bound

Ends(g, path) == Neighbours(g, path[Len(path)])

\* Mutant: only paths that can be extended are made items.
PrefixExtends(g, path, bound) == \E w \in Ends(g, path) : Extends(path, w, bound)

\* prefix_has_work
PrefixHasWork(g, path, bound) ==
  \E w \in Ends(g, path) : Closes(path, w) \/ Extends(path, w, bound)

\* expand, for a path: the cycles it counts and the items it makes.
Expand(g, cutoff, bound, prefix) ==
  LET expand[path \in Seq(DOMAIN g) \ {<<>>}] ==
        IF Len(path) = cutoff
        THEN [closed |-> {}, items |-> {p \in {path} : PrefixHasWork(g, p, bound)}]
        ELSE LET below == {expand[Append(path, w)] :
                             w \in {w \in Ends(g, path) : Extends(path, w, bound)}}
             IN  [closed |-> {p \in {path} : \E w \in Ends(g, p) : Closes(p, w)}
                               \cup UNION {b.closed : b \in below},
                  items |-> UNION {b.items : b \in below}]
  IN  expand[prefix]

SplitClosed(g, cutoff, bound) ==
  UNION {Expand(g, cutoff, bound, <<root>>).closed : root \in DOMAIN g}

SplitItems(g, cutoff, bound) ==
  UNION {Expand(g, cutoff, bound, <<root>>).items : root \in DOMAIN g}

\* What a depth-first search goes on to count from an item: the cycles that begin
\* with its path.
Continuation(g, item, bound) ==
  {c \in Cycles(g, bound) : Len(c) >= Len(item) /\ SubSeq(c, 1, Len(item)) = item}
=============================================================================
