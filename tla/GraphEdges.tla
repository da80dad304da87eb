----------------------------- MODULE GraphEdges -----------------------------
(***************************************************************************)
(* The vertices and edges of TCompleteGraph and TDenseGraph of             *)
(* lib/multipartite_graphs: a complete multipartite graph, and the graph   *)
(* that is left when some of its edges are deleted; and how the code       *)
(* renames vertices and contracts an edge.                                 *)
(*                                                                         *)
(* A graph is [parts, deleted]: the sizes of the parts (Components), and   *)
(* the set of deleted edges (EdgeSet).  A vertex is <<part, index>>, both  *)
(* counted from 1 where the code counts from 0.  An edge is the set of its *)
(* two ends: TEdge compares equal and hashes equal in both directions.     *)
(***************************************************************************)
EXTENDS Integers, Sequences, SequencesExt, FiniteSetsExt, Functions

Part(v) == v[1]
VerticesOf(parts, c) == {<<c, i>> : i \in 1..parts[c]}
Vertices(parts) == UNION {VerticesOf(parts, c) : c \in DOMAIN parts}

\* GenerateAllEdges
AllEdges(parts) ==
    {e \in kSubset(2, Vertices(parts)) :
        \A u, v \in e : u # v => Part(u) # Part(v)}

\* IsEdgeDeleted and IsAdjacent
IsAdjacent(g, u, v) == Part(u) # Part(v) /\ {u, v} \notin g.deleted

-----------------------------------------------------------------------------
(* SwapVerticesInSet, ContractEdge                                         *)

\* The exchange of u and v, as a renaming of the vertices.
Swapped(u, v) == [x \in {u, v} |-> IF x = u THEN v ELSE u]
RenameEdges(edges, f) ==
    {{IF x \in DOMAIN f THEN f[x] ELSE x : x \in e} : e \in edges}
SwapOneWay(edges, u, v) == RenameEdges(edges, u :> v)       \* for a mutant
SwapVerticesInSet(edges, u, v) == RenameEdges(edges, Swapped(u, v))

LastInComponent(parts, c) == <<c, parts[c]>>
SwapWithLast(parts, edges, v) ==
    SwapVerticesInSet(edges, v, LastInComponent(parts, Part(v)))

\* Part c has lost its last vertex.  If it was the only one, the parts behind
\* c move one place forward.
RemoveWithoutShift(size, edges, c) == edges                 \* for a mutant
RemoveLastVertex(size, edges, c) ==
    IF size > 1 THEN edges
    ELSE {{IF Part(x) >= c THEN <<Part(x) - 1, x[2]>> ELSE x : x \in e} :
             e \in edges}

\* A vertex that is adjacent to one end only stays adjacent to the new vertex.
StaysDeletedIfOnce(h, u, v, x) ==                           \* for a mutant
    {u, x} \in h.deleted \/ {v, x} \in h.deleted
StaysDeleted(h, u, v, x) ==
    \/ {u, x} \in h.deleted /\ ~IsAdjacent(h, v, x)
    \/ {v, x} \in h.deleted /\ ~IsAdjacent(h, u, x)

\* The parts c and d are erased if they are empty, the smaller index first.
EraseIfEmpty(parts, c) == IF parts[c] = 0 THEN RemoveAt(parts, c) ELSE parts
EraseBothInPlace(parts, c, d) ==                            \* for a mutant
    EraseIfEmpty(EraseIfEmpty(parts, c), d)
EraseBoth(parts, c, d) ==
    EraseIfEmpty(EraseIfEmpty(parts, c), IF parts[c] = 0 THEN d - 1 ELSE d)

\* Contracts the edge from u to v, which need not be deleted: both ends move
\* to the end of their parts, and one vertex in a new part replaces them.
ContractEdge(g, u, v) ==
    LET first == LastInComponent(g.parts, Part(u))
        second == LastInComponent(g.parts, Part(v))
        newVertex == <<Len(g.parts) + 1, 1>>
        swapped == SwapWithLast(g.parts, SwapWithLast(g.parts, g.deleted, u), v)
        h == [parts |-> g.parts, deleted |-> swapped]
        others == Vertices(g.parts) \ {first, second}
        final == {{newVertex, x} :
                     x \in {y \in others : StaysDeleted(h, first, second, y)}}
                 \cup (swapped \cap SUBSET others)
        shrunk == [g.parts EXCEPT ![Part(u)] = @ - 1, ![Part(v)] = @ - 1]
        ends == {Part(u), Part(v)}
    IN  [parts |-> EraseBoth(Append(shrunk, 1), Min(ends), Max(ends)),
         deleted |-> RemoveLastVertex(g.parts[Part(v)],
                         RemoveLastVertex(g.parts[Part(u)], final, Part(u)),
                         Part(v))]

=============================================================================
