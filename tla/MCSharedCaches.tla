--------------------------- MODULE MCSharedCaches ---------------------------
(***************************************************************************)
(* TLC instances of SharedCaches: the graphs that the threads ask for, and *)
(* what the recursion of the counter makes of them.  The rows are written  *)
(* out, since TLC would compute them at every use; MCRowsAreRight compares *)
(* them with the translated recursion, and with the textbook number of     *)
(* acyclic orientations.                                                   *)
(***************************************************************************)
EXTENDS SharedCaches

G == INSTANCE MultipartiteGraphs
R == INSTANCE GraphReference
O == INSTANCE OrientationCalls

\* A call of the recursion, and one after which a coefficient is asked for.
X(parts, times) == [parts |-> parts, times |-> times, asks |-> <<>>]
Y(parts, times, a) == [parts |-> parts, times |-> times, asks |-> <<a>>]

Rows ==
    {[key |-> <<i>>, count |-> 1, calls |-> <<>>] : i \in 1..6} \cup
    {[key |-> <<1, 1>>, count |-> 2,
      calls |-> <<X(<<1>>, 1), X(<<1>>, 1)>>],
     [key |-> <<1, 2>>, count |-> 4,
      calls |-> <<X(<<2>>, 1), Y(<<1>>, 2, <<2, 1>>), X(<<1>>, 1)>>],
     [key |-> <<1, 6>>, count |-> 64,
      calls |-> <<X(<<6>>, 1), Y(<<5>>, 6, <<6, 1>>), Y(<<4>>, 15, <<6, 2>>),
                  Y(<<3>>, 20, <<6, 3>>), Y(<<2>>, 15, <<6, 4>>),
                  Y(<<1>>, 6, <<6, 5>>), X(<<1>>, 1)>>],
     [key |-> <<1, 1, 2>>, count |-> 18,
      calls |-> <<X(<<1, 2>>, 1), X(<<1, 2>>, 1), X(<<1, 1>>, 2),
                  Y(<<1, 1>>, 2, <<2, 1>>), X(<<1, 1>>, 1)>>],
     [key |-> <<2, 3>>, count |-> 46,
      calls |-> <<Y(<<2>>, 6, <<3, 1>>), Y(<<1>>, 6, <<3, 2>>),
                  Y(<<1>>, 2, <<2, 1>>), X(<<3>>, 1),
                  Y(<<1>>, 12, <<2, 1>>), Y(<<1>>, 6, <<2, 1>>),
                  Y(<<2>>, 3, <<3, 1>>), Y(<<1>>, 6, <<2, 1>>),
                  Y(<<1>>, 3, <<3, 2>>), X(<<2>>, 1)>>]}

ASSUME MCRowsAreRight ==
    \A r \in Rows :
        /\ r.calls = O!ComputeUnsafe(r.key)
        /\ r.count = Cardinality(R!AcyclicOrientations(
              [node |-> G!Vertices(r.key), edge |-> G!AllEdges(r.key)]))

RowOf(v) == CHOOSE r \in Rows : r.key = v
Keys == {r.key : r \in Rows}

MCPairs == {<<1, 2>>, <<2, 1>>, <<3, 1>>, <<3, 2>>, <<4, 0>>,
            <<6, 1>>, <<6, 2>>, <<6, 3>>, <<6, 4>>, <<6, 5>>,
            <<7, 2>>, <<7, 3>>, <<7, 4>>}

MCComponents == <<2, 3>>
MCPrivate == {<<3>>, <<1, 6>>, <<1, 2>>, <<1, 1, 2>>}
MCVectors == Keys
MCCalls == [v \in Keys |-> RowOf(v).calls]
MCCount == [v \in Keys |-> RowOf(v).count]
MCSums == [v \in Keys |-> O!SumsOf(MCCalls[v], MCCount)]
MCLeaves == {MCComponents}
MCValue == [I3 |-> 0, I4 |-> 3, Pt |-> 4]

ASSUME MCValueIsRight ==
    /\ MCValue.I3 = G!CompleteI3(MCComponents)
    /\ MCValue.I4 = G!CompleteI4(MCComponents)
    /\ MCValue.Pt = G!CompletePt(MCComponents)

=============================================================================
