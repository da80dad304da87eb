----------------------------- MODULE Generators -----------------------------
(***************************************************************************)
(* The generators of lib/math_utils: TChoiceGenerator, TPairGenerator      *)
(* (combinatorics.h) and TSubsetGenerator (subsets.h), each in the loop    *)
(*                                                                         *)
(*     for (const auto& value : generator) ...                             *)
(*                                                                         *)
(* which compares the iterator with end(), uses what it points to, and     *)
(* increments it.  Indices count from 0 as in the code; a vector is a      *)
(* sequence.  The elements that TObjectChoiceGenerator and                 *)
(* TSubsetGenerator choose from are represented by their indices.          *)
(***************************************************************************)
EXTENDS Integers, Sequences

CONSTANT MaxN   \* bound of the model: how many elements to choose from

ASSUME GeneratorsAssumption == MaxN \in Nat

VARIABLES
    gen,        \* the generator: its kind, its N and its K
    it,         \* the iterator
    seen,       \* history: what the body of the loop has seen
    twice       \* history: whether it has seen something twice

vars == <<gen, it, seen, twice>>

-----------------------------------------------------------------------------
(* TChoiceGenerator: a vector of K increasing indices below N.             *)

ChoiceBegin(n, k) == [i \in 1..k |-> i - 1]

GenerateMaxCombination(n, k) == [i \in 1..k |-> n - k + i - 1]

\* One behind the last combination, in the first index only.
GenerateEndCombination(n, k) ==
    [GenerateMaxCombination(n, k) EXCEPT ![1] = @ + 1]

\* The places whose index can grow.
CanGrow(n, k, c) == {i \in 1..k : c[i] < GenerateMaxCombination(n, k)[i]}

GrowFlat(k, c, i) ==                                        \* for a mutant
    [j \in 1..k |-> IF j < i THEN c[j] ELSE c[i] + 1]
\* The index at i grows, and those behind it follow as closely as they can.
Grow(k, c, i) ==
    [j \in 1..k |-> IF j < i THEN c[j] ELSE c[i] + 1 + (j - i)]

ChoiceNextStays(n, k, c) ==                                 \* for a mutant
    IF CanGrow(n, k, c) = {} THEN c
    ELSE Grow(k, c, CHOOSE i \in CanGrow(n, k, c) :
                        \A j \in CanGrow(n, k, c) : j <= i)
\* operator++: the last place that can grow does, or the first one when there
\* is none, which makes the end.
ChoiceNext(n, k, c) ==
    IF CanGrow(n, k, c) = {} THEN [c EXCEPT ![1] = @ + 1]
    ELSE Grow(k, c, CHOOSE i \in CanGrow(n, k, c) :
                        \A j \in CanGrow(n, k, c) : j <= i)

-----------------------------------------------------------------------------
(* TPairGenerator: First and Second.                                       *)

PairBegin == <<0, 1>>
PairEnd(n) == <<n - 1, n>>

\* AddOne
PairNext(n, p) ==
    IF p[2] + 1 = n THEN <<p[1] + 1, p[1] + 2>> ELSE <<p[1], p[2] + 1>>

-----------------------------------------------------------------------------
(* TSubsetGenerator: State is a bit mask.                                  *)

\* 1 << n
Shifted[n \in Nat] == IF n = 0 THEN 1 ELSE 2 * Shifted[n - 1]

SubsetBegin == 0
SubsetEndTooEarly(n) == Shifted[n] - 1                      \* for a mutant
SubsetEnd(n) == Shifted[n]

\* The loop of operator*: the lowest bit of state says whether iterator is one
\* of the elements.
Selected[state \in Nat] ==
    [iterator \in Nat |->
        IF state = 0 THEN <<>>
        ELSE (IF state % 2 = 1 THEN <<iterator>> ELSE <<>>)
                 \o Selected[state \div 2][iterator + 1]]

SubsetAt(state) == Selected[state][0]

-----------------------------------------------------------------------------
(* The loop                                                                *)

\* The generators that the programs make, but for one: they choose at least one
\* edge, and make pairs of the vertices of a part or of the parts, of which there
\* is at least one.  Left out is a choice of more edges than there are, which
\* invariant_explorer makes when its option -e is larger than that number.
Choices == {[kind |-> "choice", n |-> n, k |-> k] : n, k \in 1..MaxN}
Generators ==
    {g \in Choices : g.k <= g.n}
    \cup {[kind |-> "pair", n |-> n, k |-> 2] : n \in 1..MaxN}
    \cup {[kind |-> "subset", n |-> n, k |-> 0] : n \in 0..MaxN}

Begin(g) ==
    CASE g.kind = "choice" -> ChoiceBegin(g.n, g.k)
      [] g.kind = "pair" -> PairBegin
      [] g.kind = "subset" -> SubsetBegin

End(g) ==
    CASE g.kind = "choice" -> GenerateEndCombination(g.n, g.k)
      [] g.kind = "pair" -> PairEnd(g.n)
      [] g.kind = "subset" -> SubsetEnd(g.n)

At(g, i) == IF g.kind = "subset" THEN SubsetAt(i) ELSE i

Increment(g, i) ==
    CASE g.kind = "choice" -> ChoiceNext(g.n, g.k, i)
      [] g.kind = "pair" -> PairNext(g.n, i)
      [] g.kind = "subset" -> i + 1

Init ==
    /\ gen \in Generators
    /\ it = Begin(gen)
    /\ seen = {}
    /\ twice = FALSE

Body ==
    /\ it # End(gen)
    /\ seen' = seen \cup {At(gen, it)}
    /\ twice' = (twice \/ At(gen, it) \in seen)
    /\ it' = Increment(gen, it)
    /\ UNCHANGED gen

Done == it = End(gen) /\ UNCHANGED vars

Next == Body \/ Done

Spec == Init /\ [][Next]_vars /\ WF_vars(Body)

-----------------------------------------------------------------------------
(* Properties                                                              *)

\* What a generator stands for, as increasing sequences of indices.
Increasing(n, m) ==
    {s \in [1..m -> 0..(n - 1)] : \A i, j \in 1..m : i < j => s[i] < s[j]}
Expected(g) ==
    IF g.kind = "subset" THEN UNION {Increasing(g.n, m) : m \in 0..g.n}
                         ELSE Increasing(g.n, g.k)

\* The body of the loop only ever sees what it should, and nothing twice: it
\* uses the indices to look into vectors of N elements.
OnlyExpectedValues == seen \subseteq Expected(gen) /\ ~twice

\* When the loop ends, its body has seen all the values.
AllValuesAtTheEnd == it = End(gen) => Expected(gen) \subseteq seen

\* The loop ends: increments do not jump over end().
LoopEnds == <>(it = End(gen))

=============================================================================
