---------------------------- MODULE GraphCounts ----------------------------
(***************************************************************************)
(* In every graph that GraphMoves reaches, I2, I3, I4 and Pt are compared  *)
(* with what they are supposed to count.                                   *)
(***************************************************************************)
EXTENDS GraphInvariants, GraphMoves, GraphReference

\* I2 and I3 count edges and triangles.
I2AndI3Count ==
    /\ I2Invariant(graph) = Cardinality(Simple(graph).edge)
    /\ I3Invariant(graph) = Cardinality(Triangles(Simple(graph)))

\* I4 counts the induced cycles of length four that meet at most three parts;
\* in a complete graph all of them meet two.
I4Counts ==
    /\ I4Invariant(graph) =
           Cardinality({Q \in InducedFourCycles(Simple(graph)) :
                           Cardinality(Parts(Q)) <= 3})
    /\ graph.deleted = {} => I4Invariant(graph) = CompleteI4(graph.parts)

\* Pt is the number of partitions into one more stable set than there are
\* parts, when the deleted edges are few enough ("relatively small" in
\* multipartite_graphs.h): no garland destroys as many parts as it replaces.
PtCounts ==
    (\A S \in SUBSET graph.deleted :
        IsGarland(S) => Cardinality(Garlands(S))
                            > Cardinality(Destroyed(graph.parts, S)))
    => PtInvariant(graph) =
           Cardinality(StablePartitions(Simple(graph), Len(graph.parts) + 1))

\* Renaming vertices within a part changes no invariant.
SwapChangesNoInvariant ==
    [][SwapVerticesInplace =>
          /\ I3Invariant(graph)' = I3Invariant(graph)
          /\ I4Invariant(graph)' = I4Invariant(graph)
          /\ PtInvariant(graph)' = PtInvariant(graph)]_graph

=============================================================================
