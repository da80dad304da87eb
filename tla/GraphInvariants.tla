--------------------------- MODULE GraphInvariants ---------------------------
(***************************************************************************)
(* I2, I3, I4 and Pt of TCompleteGraph and TDenseGraph.  Numbers stay      *)
(* small here; the code's INT has 32 bits.                                 *)
(***************************************************************************)
EXTENDS GraphEdges

\* TPairGenerator(n) of math_utils/combinatorics.h
PairsBelow(n) == {p \in (1..n) \X (1..n) : p[1] < p[2]}

-----------------------------------------------------------------------------
(* Invariants of the complete graph                                        *)

VerticesCount(parts) == SumFunction(parts)

\* Sigma of math_utils/sigma.h: the sum of the products of n elements.  Here
\* from[m][i] is the call for m elements, from the i-th on.
Sigma(n, s) ==
    LET from[m \in 1..n] ==
            [i \in 1..(Len(s) + 1) |->
                IF m = 1 THEN SumFunctionOnSet(s, i..Len(s))
                ELSE SumFunction([j \in i..(Len(s) - m + 1) |->
                                     s[j] * from[m - 1][j + 1]])]
    IN  from[n][1]

CompleteI2(parts) == Sigma(2, parts)
CompleteI3(parts) == IF Len(parts) < 3 THEN 0 ELSE Sigma(3, parts)

Choose2(n) == (n * (n - 1)) \div 2
CompleteI4(parts) ==
    IF Len(parts) < 2 THEN 0
    ELSE SumFunction([p \in PairsBelow(Len(parts)) |->
                         Choose2(parts[p[1]]) * Choose2(parts[p[2]])])

CompletePt(parts) ==
    SumFunction([c \in DOMAIN parts |-> 2^(parts[c] - 1)]) - Len(parts)

-----------------------------------------------------------------------------
(* I2 and I3 of a dense graph                                              *)

I2Invariant(g) == CompleteI2(g.parts) - Cardinality(g.deleted)

Parts(e) == {Part(v) : v \in e}

\* Triangles of the complete graph through each deleted edge.
Xi1(g) ==
    SumFunction([e \in g.deleted |->
        VerticesCount(g.parts) - SumFunctionOnSet(g.parts, Parts(e))])

\* Pairs of deleted edges with a common end, in three parts.
Xi2Subgraphs(g) ==
    {p \in kSubset(2, g.deleted) :
        /\ Cardinality(UNION p) = 3
        /\ Cardinality({Part(v) : v \in UNION p}) = 3}

Closed(g, p) == kSubset(2, UNION p) \subseteq g.deleted

Xi2AndXi3WithoutTriangles(g) == Cardinality(Xi2Subgraphs(g))  \* for a mutant
Xi2AndXi3(g) ==
    LET xi3 == Cardinality({p \in Xi2Subgraphs(g) : Closed(g, p)})
        xi2 == Cardinality(Xi2Subgraphs(g)) - xi3
    IN  2 * (xi3 \div 3) + xi2

I3Invariant(g) ==
    IF Len(g.parts) < 3 THEN 0
    ELSE CompleteI3(g.parts) - Xi1(g) + Xi2AndXi3(g)

-----------------------------------------------------------------------------
(* I4 of a dense graph                                                     *)

AllPresent(g, S, T) == \A u \in S, v \in T : {u, v} \notin g.deleted

\* Two vertices of one part and two of another.
I4TwoParts(g) ==
    SumFunction([p \in PairsBelow(Len(g.parts)) |-> Cardinality(
        {q \in kSubset(2, VerticesOf(g.parts, p[1]))
                   \X kSubset(2, VerticesOf(g.parts, p[2])) :
            AllPresent(g, q[1], q[2])})])

\* The ends of a deleted edge, and two vertices of a third part.
I4ThreeParts(g) ==
    SumFunction([e \in g.deleted |->
        SumFunction([c \in DOMAIN g.parts \ Parts(e) |-> Cardinality(
            {q \in kSubset(2, VerticesOf(g.parts, c)) : AllPresent(g, e, q)})])])

I4OfTwoPartsOnly(g) == I4TwoParts(g)                        \* for a mutant
I4Invariant(g) == I4TwoParts(g) + I4ThreeParts(g)

-----------------------------------------------------------------------------
(* Pt of a dense graph: garlands                                           *)

\* No edge of S leaves the set C of vertices.
Closes(S, C) == \A e \in S : e \subseteq C \/ e \cap C = {}

\* The connected components of the graph with the edges of S, as colours are
\* given to them by the breadth-first search.
Garlands(S) ==
    {C \in SUBSET UNION S :
        /\ C # {} /\ Closes(S, C)
        /\ \A D \in SUBSET C : D # {} /\ Closes(S, D) => D = C}

\* The parts all of whose vertices are touched by S.
Destroyed(parts, S) ==
    {c \in DOMAIN parts : VerticesOf(parts, c) \subseteq UNION S}

IsAnyGarland(S) == S # {}                                   \* for a mutant
\* Each component is complete multipartite ...
IsGarland(S) ==
    /\ S # {}
    /\ \A component \in Garlands(S) : \A u, v \in component :
          Part(u) # Part(v) => {u, v} \in S
\* ... and there is one more of them than there are destroyed parts.
IsInterestingGarland(parts, S) ==
    /\ IsGarland(S)
    /\ Cardinality(Garlands(S)) = Cardinality(Destroyed(parts, S)) + 1

CountGarlands(g) ==
    Cardinality({S \in SUBSET g.deleted : IsInterestingGarland(g.parts, S)})

PtInvariant(g) == CompletePt(g.parts) + CountGarlands(g)

=============================================================================
