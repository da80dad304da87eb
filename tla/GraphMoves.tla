----------------------------- MODULE GraphMoves -----------------------------
(***************************************************************************)
(* The graphs that the programs make: a complete multipartite graph with   *)
(* some of its edges deleted (graph_cases.cpp, invariant_explorer), and    *)
(* what CountAcyclicOrientations, ContractEdge and SwapVerticesInplace     *)
(* turn it into.                                                           *)
(***************************************************************************)
EXTENDS GraphEdges

CONSTANTS
    StartParts,     \* the complete graphs to start from
    MaxDeleted      \* bound of the model: deleted edges at the start

\* No part of a graph is empty.
ASSUME StartAssumption == StartParts \subseteq Seq(Nat \ {0})

VARIABLE graph

Init ==
    \E parts \in StartParts :
        \E S \in SUBSET AllEdges(parts) :
            /\ Cardinality(S) <= MaxDeleted
            /\ graph = [parts |-> parts, deleted |-> S]

\* newGraph in CountAcyclicOrientations
RestoreEdge ==
    \E e \in graph.deleted : graph' = [graph EXCEPT !.deleted = @ \ {e}]

Contract ==
    \E e \in graph.deleted : \E u \in e : \E v \in e \ {u} :
        graph' = ContractEdge(graph, u, v)

SwapVerticesInplace ==
    \E c \in DOMAIN graph.parts : \E u, v \in VerticesOf(graph.parts, c) :
        /\ u # v
        /\ graph' = [graph EXCEPT !.deleted = SwapVerticesInSet(@, u, v)]

Next == RestoreEdge \/ Contract \/ SwapVerticesInplace

Spec == Init /\ [][Next]_graph

-----------------------------------------------------------------------------
(* Properties                                                              *)

\* The graph as a set of vertices and a set of edges.
Simple(g) == [node |-> Vertices(g.parts),
              edge |-> AllEdges(g.parts) \ g.deleted]

\* No part is empty, and only edges that the complete graph has are deleted.
TypeOK ==
    /\ graph.parts \in Seq(Nat \ {0})
    /\ graph.deleted \subseteq AllEdges(graph.parts)

\* G / uv: u stands for both, without loops and parallel edges.
Contraction(G, u, v) ==
    [node |-> G.node \ {v},
     edge |-> {{IF x = v THEN u ELSE x : x \in e} : e \in G.edge} \ {{u}}]

\* G with its vertices renamed by f.
Renamed(G, f) == [node |-> {f[x] : x \in G.node},
                  edge |-> {{f[x] : x \in e} : e \in G.edge}]

\* Where ContractEdge(graph, u, v) leaves the vertex x of the contraction; u
\* stands for the contracted edge.
AfterContraction(u, v, x) ==
    LET p == graph.parts
        vanished == {c \in {Part(u), Part(v)} : p[c] = 1}
        place(c) == c - Cardinality({d \in vanished : d < c})
        filled == IF x = LastInComponent(p, Part(u)) THEN u
                  ELSE IF x = LastInComponent(p, Part(v)) THEN v ELSE x
    IN  IF x = u THEN <<place(Len(p) + 1), 1>>
        ELSE <<place(Part(x)), filled[2]>>

\* ContractEdge is contraction, whichever end is called the first and also for
\* an edge that is not deleted, up to the places where it puts the vertices.
\* Its result is a graph like any other.
ContractEdgeContracts ==
    \A e \in AllEdges(graph.parts) : \A u \in e : \A v \in e \ {u} :
        LET c == Contraction(Simple(graph), u, v) IN
        Simple(ContractEdge(graph, u, v)) =
            Renamed(c, [x \in c.node |-> AfterContraction(u, v, x)])

=============================================================================
