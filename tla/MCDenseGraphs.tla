--------------------------- MODULE MCDenseGraphs ---------------------------
(***************************************************************************)
(* TLC instances of DenseGraphs.                                           *)
(***************************************************************************)
EXTENDS DenseGraphs

SmallParts == {<<2, 2, 1>>, <<1, 2, 2>>, <<1, 1, 3>>, <<3, 2>>,
               <<3, 3>>, <<2, 2, 2>>, <<1, 1, 1, 1>>}

\* What their graphs may be equivalent to, and stay as large after a
\* contraction.
SmallSources == {<<1, 3>>, <<2, 2>>, <<1, 4>>, <<2, 3>>, <<1, 5>>, <<2, 4>>,
                 <<1, 1, 2>>, <<1, 1, 3>>, <<1, 2, 2>>, <<1, 2, 3>>,
                 <<1, 1, 1, 1>>}

=============================================================================
