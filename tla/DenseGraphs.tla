---------------------------- MODULE DenseGraphs ----------------------------
(***************************************************************************)
(* In every graph that GraphMoves reaches, the numbers that the code       *)
(* computes by enumeration or recursion are compared with the textbook     *)
(* definitions.                                                            *)
(***************************************************************************)
EXTENDS MultipartiteGraphs, GraphCounts

CONSTANT Sources    \* the complete graphs to compare with

\* CountAcyclicOrientations counts the acyclic orientations.
OrientationsCount ==
    CountAcyclicOrientations[graph] =
        Cardinality(AcyclicOrientations(Simple(graph)))

ChromaticallyEqual(g, h) ==
    \A k \in 1..VerticesCount(g.parts) :
        Cardinality(StablePartitions(Simple(g), k))
            = Cardinality(StablePartitions(Simple(h), k))

\* graph_cases never says No to a graph that has the chromatic polynomial of
\* the source, if it has as many parts; and two complete graphs with the same
\* polynomial are equal to it, if both are given with their parts in order.
EquivalentGraphsAreNotRejected ==
    \A parts \in Sources :
        /\ Len(parts) = Len(graph.parts)
        /\ VerticesCount(parts) = VerticesCount(graph.parts)
        /\ CompleteI2(parts) = I2Invariant(graph)
        /\ ChromaticallyEqual([parts |-> parts, deleted |-> {}], graph)
        =>
        /\ CompareSourceAndDense(parts, graph) = "Yes"
        /\ graph.deleted = {} /\ IsSorted(parts, <=) /\ IsSorted(graph.parts, <=)
             => CompareComplete(parts, graph.parts) = "Yes: graphs are equal"

=============================================================================
