-------------------------- MODULE MCDynamicUpdate ---------------------------
(* DynamicUpdate for TLC: two threads, a ring of five vertices, one more than *)
(* the length bound, with any of four chords, and batches that delete up to   *)
(* three edges and insert up to two.                                          *)
EXTENDS CudaUpdate, TLC

Ring    == {<<0, 1>>, <<1, 2>>, <<2, 3>>, <<3, 4>>, <<4, 0>>}
Chords  == {<<1, 0>>, <<2, 0>>, <<1, 3>>, <<3, 0>>}
Changed == {<<0, 1>>, <<2, 3>>, <<1, 0>>, <<1, 3>>}

UpTo(S, k) == {T \in SUBSET S : Cardinality(T) <= k}

\* A list that is not sorted and names its first change twice.
Listed(S) ==
  LET list == SetToSortSeq(S, LAMBDA e, f : SmallerEdge(f, e))
  IN  IF list = <<>> THEN list ELSE Append(list, list[1])

RequestsOn(E) ==
  UNION {{[graph |-> GraphOf(E), deletions |-> Listed(D), insertions |-> Listed(I)] :
            I \in UpTo(Changed \ (E \ D), 2)} : D \in UpTo(Changed \cap E, 3)}

MCRequests == UNION {RequestsOn(Ring \cup C) : C \in SUBSET Chords}

Symmetry == Permutations(Threads)
=============================================================================
