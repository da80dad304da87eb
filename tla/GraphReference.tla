--------------------------- MODULE GraphReference ---------------------------
(***************************************************************************)
(* What lib/multipartite_graphs is supposed to count, for any simple graph *)
(* [node |-> V, edge |-> E] with E a set of two-element sets.  Nothing     *)
(* here is translated from the code: each definition is the textbook one,  *)
(* for comparison with what the code computes.                             *)
(***************************************************************************)
EXTENDS Integers, FiniteSets, FiniteSetsExt

Adjacent(G, u, v) == {u, v} \in G.edge

Stable(G, S) == \A u, v \in S : ~Adjacent(G, u, v)

Triangles(G) == {T \in kSubset(3, G.node) :
                    \A u, v \in T : u # v => Adjacent(G, u, v)}

\* Cycles of length four without a chord: two pairs of non-adjacent vertices
\* with all four edges between the pairs.
InducedFourCycles(G) ==
    {Q \in kSubset(4, G.node) :
        \E P \in kSubset(2, Q) :
            /\ Stable(G, P) /\ Stable(G, Q \ P)
            /\ \A u \in P, v \in Q \ P : Adjacent(G, u, v)}

\* Partitions of the nodes into k non-empty stable sets.  The set that holds
\* the first node is chosen, then the others in the same way.
StablePartitions(G, k) ==
    LET of[W \in SUBSET G.node] ==
            IF W = {} THEN {{}}
            ELSE LET v == CHOOSE x \in W : TRUE IN
                 UNION {{{S} \cup P : P \in of[W \ S]} :
                           S \in {T \in SUBSET W : v \in T /\ Stable(G, T)}}
    IN  {P \in of[G.node] : Cardinality(P) = k}

\* Acyclic orientations, as sets of arcs <<from, to>>: a node is a sink, and
\* the others are oriented in the same way.
AcyclicOrientations(G) ==
    LET of[W \in SUBSET G.node] ==
            IF W = {} THEN {{}}
            ELSE UNION {{O \cup {a \in (W \ {v}) \X {v} : Adjacent(G, a[1], v)} :
                            O \in of[W \ {v}]} : v \in W}
    IN  of[G.node]

=============================================================================
