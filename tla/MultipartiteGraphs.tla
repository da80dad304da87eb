------------------------- MODULE MultipartiteGraphs -------------------------
(***************************************************************************)
(* The acyclic orientations that TCompleteGraph and TDenseGraph count, by  *)
(* recursion, and what graph_cases makes of the numbers of a graph.        *)
(***************************************************************************)
EXTENDS GraphInvariants, Combinatorics

(* CountAcyclicOrientations                                                *)

\* ComputeUnsafeForComponent counts the orientations whose sinks are in part c.
\* Without j sinks, those of what is left are in another part; without the whole
\* part any orientation of the rest will do, as in ComputeUnsafe.
ComputeUnsafeForComponent[parts \in Seq(Nat \ {0})] ==
    [c \in DOMAIN parts |->
        LET others == DOMAIN parts \ {c}
            rest == RemoveAt(parts, c)
        IN  SumFunction([j \in 1..(parts[c] - 1) |->
                choose(parts[c], j) * SumFunctionOnSet(
                    ComputeUnsafeForComponent[[parts EXCEPT ![c] = @ - j]],
                    others)])
            + IF Len(rest) <= 1 THEN 1
              ELSE SumFunction(ComputeUnsafeForComponent[rest])]

\* TCompleteGraphAcyclicOrientationsCounter, whose cache is a memo of this.
ComputeUnsafe(parts) ==
    IF Len(parts) <= 1 THEN 1
    ELSE SumFunction(ComputeUnsafeForComponent[parts])

\* The counter sorts the parts first.
Rearranged(parts) == {[i \in DOMAIN parts |-> parts[f[i]]] :
                         f \in Bijection(DOMAIN parts, DOMAIN parts)}
Sorted(parts) == CHOOSE s \in Rearranged(parts) :
                     \A i, j \in DOMAIN s : i < j => s[i] <= s[j]
CountOfComplete(parts) == ComputeUnsafe(Sorted(parts))

\* A TDenseGraph: no part is empty, and edges are deleted.
Graphs == {g \in [parts : Seq(Nat \ {0}), deleted : SUBSET SUBSET (Nat \X Nat)] :
              g.deleted \subseteq AllEdges(g.parts)}

\* Deletion and contraction, from any deleted edge: an orientation of the
\* graph with the edge put back, or of the graph with the edge contracted.
\* The end that is called u moves and disappears first.
CountAcyclicOrientations[g \in Graphs] ==
    IF g.deleted = {} THEN CountOfComplete(g.parts)
    ELSE LET e == CHOOSE x \in g.deleted : TRUE
             u == CHOOSE x \in e : TRUE
             v == CHOOSE x \in e \ {u} : TRUE
         IN  CountAcyclicOrientations[[parts |-> g.parts, deleted |-> g.deleted \ {e}]]
             - CountAcyclicOrientations[ContractEdge(g, u, v)]

-----------------------------------------------------------------------------
(* The answers of graph_cases.cpp                                          *)

\* compare_two_graphs up to the threads: operator== compares the sizes in the
\* order in which they are given.
CompareComplete(source, target) ==
    IF VerticesCount(source) # VerticesCount(target)
      THEN "No: vertices numbers mismatch"
    ELSE IF CompleteI2(source) > CompleteI2(target)
      THEN "No: source contains more edges"
    ELSE IF CompleteI2(source) < CompleteI2(target) THEN "delete edges"
    ELSE IF source = target THEN "Yes: graphs are equal"
    ELSE "No: two different multipartite graphs"

OfComplete(parts) == [I3 |-> CompleteI3(parts), I4 |-> CompleteI4(parts),
                      PT |-> CompletePt(parts),
                      Acyclic |-> CountOfComplete(parts)]
OfDense(g) == [I3 |-> I3Invariant(g), I4 |-> I4Invariant(g),
               PT |-> PtInvariant(g),
               Acyclic |-> CountAcyclicOrientations[g]]

\* CompareSourceAndDense: Yes, or the first invariant that differs.
CompareSourceAndDense(source, g) ==
    LET checkers == <<"I3", "I4", "PT", "Acyclic">>
        differ == {i \in DOMAIN checkers : OfComplete(source)[checkers[i]]
                                              # OfDense(g)[checkers[i]]}
    IN  IF differ = {} THEN "Yes" ELSE checkers[Min(differ)]

=============================================================================
