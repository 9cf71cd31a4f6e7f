--------------------------- MODULE MCWindowParity ---------------------------
(* WindowParity for TLC.                                                      *)
EXTENDS WindowParity, SequencesExt, TLC

\* The graph view of a function from edges to timestamps, none for no edge.
ViewOf(f) ==
  [v \in V |->
     LET targets == SetToSortSeq({w \in V : <<v, w>> \in DOMAIN f /\ f[<<v, w>>] # <<>>},
                                 LAMBDA a, b : a < b)
     IN  [i \in 1..Len(targets) |->
            [vertex |-> targets[i], times |-> f[<<v, targets[i]>>]]]]

\* Four vertices: an entry from 0 with three timestamps, two of them equal, an exit
\* to 0, and any of the edges between the others at the opening of the first window
\* or later; without a bound and with one below the longest cycle.
Fixed == (<<0, 1>> :> <<0, 0, 1>>) @@ (<<3, 0>> :> <<1>>)
Free  == {<<1, 2>>, <<1, 3>>, <<2, 1>>, <<2, 3>>, <<3, 1>>, <<3, 2>>, <<2, 0>>}

MCRequests ==
  {<<ViewOf(Fixed @@ f), b>> : f \in [Free -> {<<>>, <<0>>, <<1>>}], b \in {Unbounded, 3}}

\* A bounded request.  Johnson's search of 0 1 4 5 3 6 meets the bound at 6, which
\* then waits in the list of 2 although 2 is not blocked.  The path that
\* Read-Tarjan finds for the edge from 6 to 4 goes on over 5, and an alternate one
\* is looked for from the root 6 itself, in vain, which blocks it.
MCBoundedRequests ==
  {<<ViewOf((<<0, 1>> :> <<0>>)
              @@ [e \in {<<1, 4>>, <<1, 6>>, <<2, 0>>, <<3, 6>>, <<4, 5>>, <<4, 6>>,
                         <<5, 2>>, <<5, 3>>, <<6, 2>>, <<6, 4>>} |-> <<1>>]), 6>>}
=============================================================================
