-------------------------- MODULE OrientationCalls --------------------------
(***************************************************************************)
(* The recursion of TCompleteGraphAcyclicOrientationsCounter as data: the  *)
(* calls of ComputeUnsafe that ComputeUnsafe(components) makes through     *)
(* ComputeUnsafeForComponent, in their order, each with the product of     *)
(* binomial coefficients that its result is multiplied with, and with the  *)
(* coefficients that the code asks for once it has returned.               *)
(***************************************************************************)
EXTENDS Naturals, Sequences, SequencesExt, FiniteSetsExt, Functions,
        Combinatorics

Times(calls, x) ==
    [i \in DOMAIN calls |-> [calls[i] EXCEPT !.times = @ * x]]

\* The coefficient a is asked for when the last of these calls has returned.
Asking(calls, a) == [calls EXCEPT ![Len(calls)].asks = Append(@, a)]

\* All components of v but c, in order.
Others(v, c) == RemoveAt([i \in DOMAIN v |-> i], c)

RECURSIVE ComputeUnsafeForComponent(_, _)
ComputeUnsafeForComponent(v, c) ==
    LET Taking(j) == FlattenSeq(
            [i \in 1..(Len(v) - 1) |-> ComputeUnsafeForComponent(
                [v EXCEPT ![c] = @ - j], Others(v, c)[i])])
    IN  FlattenSeq([j \in 1..(v[c] - 1) |->
                       Asking(Times(Taking(j), choose(v[c], j)),
                              <<v[c], j>>)])
        \o <<[parts |-> RemoveAt(v, c), times |-> 1, asks |-> <<>>]>>

ComputeUnsafe(v) ==
    IF Len(v) <= 1 THEN <<>>
    ELSE FlattenSeq([c \in DOMAIN v |-> ComputeUnsafeForComponent(v, c)])

\* Every vector that ComputeUnsafe(v) is called for.
RECURSIVE Needed(_)
Needed(v) ==
    {v} \cup UNION {Needed(call.parts) : call \in Range(ComputeUnsafe(v))}

\* The sums of the first calls' results, given what each vector counts.
SumsOf(calls, count) ==
    [i \in 0..Len(calls) |->
        MapThenSumSet(LAMBDA j : calls[j].times * count[calls[j].parts], 1..i)]

=============================================================================
