-------------------------- MODULE GeneratorsProofs --------------------------
(***************************************************************************)
(* Proofs about Generators: whatever the numbers of elements, the loops    *)
(* over TChoiceGenerator, TPairGenerator and TSubsetGenerator see each     *)
(* value once.                                                             *)
(*                                                                         *)
(* For combinations the argument is their lexicographic order: an iterator *)
(* stands behind exactly the combinations that the loop has seen, and      *)
(* operator++ takes it to the next one, or to end(), which stands behind   *)
(* all of them.  For subsets it is that operator* maps the states below    *)
(* 1 << n to the increasing sequences of n elements, one to one.           *)
(***************************************************************************)
EXTENDS Generators, FiniteSetTheorems, SequenceTheorems, WellFoundedInduction,
        NaturalsInduction, TLAPS

-----------------------------------------------------------------------------
(* Sets of indices.                                                        *)

\* A set of indices that is not empty has a smallest and a largest element:
\* the intervals that end, or begin, there are the smallest of their kind.
LEMMA HasMinimum ==
    ASSUME NEW k \in Nat, NEW S \in SUBSET (1..k), S # {}
    PROVE  \E m \in S : \A x \in S : m <= x
<1>. DEFINE R == StrictSubsetOrdering(1..k)
            T == {1..x : x \in S}
<1>1. IsWellFoundedOn(R, FiniteSubsetsOf(1..k))
    BY FS_StrictSubsetOrderingWellFounded
<1>2. FiniteSubsetsOf(1..k) = SUBSET (1..k)
    <2>1. IsFiniteSet(1..k)
        BY FS_Interval
    <2>. QED
        BY <2>1, FS_FiniteSubsetsOfFinite
<1>3. T \in SUBSET (SUBSET (1..k)) /\ T # {}
    <2>1. \A x \in S : 1..x \in SUBSET (1..k)
        OBVIOUS
    <2>2. PICK x \in S : TRUE
        OBVIOUS
    <2>. QED
        BY <2>1, <2>2
<1>4. PICK t \in T : \A u \in T : ~(<<u, t>> \in R)
    <2>. HIDE DEF R, T
    <2>. QED
        BY <1>1, <1>2, <1>3, WFMin, Zenon
<1>5. PICK m \in S : t = 1..m
    BY <1>4
<1>6. ASSUME NEW x \in S, x < m
      PROVE  FALSE
    <2>1. 1..x \in T /\ 1..x \subseteq 1..m /\ m \notin 1..x /\ m \in 1..m
        BY <1>6
    <2>2. 1..x # 1..m
        BY <2>1
    <2>3. <<1..x, t>> \in R
        BY <2>1, <2>2, <1>5, <1>3 DEF StrictSubsetOrdering
    <2>. QED
        BY <2>1, <2>3, <1>4
<1>. QED
    BY <1>6

LEMMA HasMaximum ==
    ASSUME NEW k \in Nat, NEW S \in SUBSET (1..k), S # {}
    PROVE  \E m \in S : \A x \in S : x <= m
<1>. DEFINE D == {k + 1 - x : x \in S}
<1>1. D \in SUBSET (1..k) /\ D # {}
    <2>1. PICK x \in S : TRUE
        OBVIOUS
    <2>2. k + 1 - x \in D
        BY <2>1
    <2>3. ASSUME NEW y \in S PROVE k + 1 - y \in 1..k
        OBVIOUS
    <2>. QED
        BY <2>2, <2>3
<1>2. PICK d \in D : \A y \in D : d <= y
    <2>. HIDE DEF D
    <2>. QED
        BY <1>1, HasMinimum
<1>3. PICK m \in S : d = k + 1 - m
    BY <1>2
<1>4. ASSUME NEW x \in S PROVE x <= m
    <2>1. d <= k + 1 - x
        BY <1>2
    <2>. QED
        BY <2>1, <1>3
<1>. QED
    BY <1>4

-----------------------------------------------------------------------------
(* The lexicographic order.                                                *)

Before(k, a, b) ==
    \E i \in 1..k : a[i] < b[i] /\ \A j \in 1..(i - 1) : a[j] = b[j]

\* A combination below another one in every place comes before it.
LEMMA BelowIsBefore ==
    ASSUME NEW k \in Nat, NEW a \in [1..k -> Int], NEW b \in [1..k -> Int],
           \A i \in 1..k : a[i] <= b[i], a # b
    PROVE  Before(k, a, b)
<1>. DEFINE D == {i \in 1..k : a[i] # b[i]}
<1>1. D # {}
    <2>1. a = [i \in 1..k |-> a[i]] /\ b = [i \in 1..k |-> b[i]]
        OBVIOUS
    <2>2. ASSUME \A i \in 1..k : a[i] = b[i] PROVE FALSE
        <3>1. [i \in 1..k |-> a[i]] = [i \in 1..k |-> b[i]]
            BY <2>2, Zenon
        <3>. QED
            BY <2>1, <3>1, Zenon
    <2>. QED
        BY <2>2
<1>2. PICK i \in D : \A j \in D : i <= j
    <2>. HIDE DEF D
    <2>. QED
        BY <1>1, HasMinimum DEF D
<1>3. a[i] < b[i] /\ \A j \in 1..(i - 1) : a[j] = b[j]
    BY <1>2
<1>. QED
    BY <1>3 DEF Before

-----------------------------------------------------------------------------
(* TChoiceGenerator                                                        *)

\* The index at place i is at most that of the last combination.
LEMMA IndicesAreBounded ==
    ASSUME NEW n \in Nat, NEW k \in Nat, NEW s \in Increasing(n, k)
    PROVE  \A i \in 1..k : s[i] <= n - k + i - 1
<1>. DEFINE B == {i \in 1..k : s[i] > n - k + i - 1}
<1>0. s \in [1..k -> Int]
    BY DEF Increasing
<1>1. SUFFICES ASSUME B # {} PROVE FALSE
    <2>1. \A i \in 1..k : s[i] \in Int /\ i \notin B
        BY <1>0, <1>1
    <2>. QED
        BY <2>1
<1>2. PICK m \in B : \A i \in B : i <= m
    <2>. HIDE DEF B
    <2>. QED
        BY <1>1, HasMaximum DEF B
<1>3. CASE m = k
    BY <1>2, <1>3 DEF Increasing
<1>4. CASE m < k
    <2>1. m + 1 \in 1..k /\ m + 1 \notin B
        BY <1>2, <1>4
    <2>2. s[m] < s[m + 1]
        BY <2>1 DEF Increasing
    <2>. QED
        BY <1>2, <2>1, <2>2 DEF Increasing
<1>. QED
    BY <1>2, <1>3, <1>4

\* No combination comes before the first one.
LEMMA ChoiceBeginIsFirst ==
    ASSUME NEW n \in Nat, NEW k \in 1..n
    PROVE  /\ ChoiceBegin(n, k) \in Increasing(n, k)
           /\ \A s \in Increasing(n, k) : ~Before(k, s, ChoiceBegin(n, k))
<1>1. ChoiceBegin(n, k) \in Increasing(n, k)
    BY DEF ChoiceBegin, Increasing
<1>2. ASSUME NEW s \in Increasing(n, k), NEW i \in 1..k,
             s[i] < i - 1, \A j \in 1..(i - 1) : s[j] = j - 1
      PROVE  FALSE
    <2>1. CASE i = 1
        BY <1>2, <2>1 DEF Increasing
    <2>2. CASE i > 1
        <3>1. i - 1 \in 1..(i - 1) /\ i - 1 \in 1..k
            BY <2>2
        <3>2. s[i - 1] = i - 2 /\ s[i - 1] < s[i]
            BY <3>1, <1>2 DEF Increasing
        <3>. QED
            BY <3>2, <1>2 DEF Increasing
    <2>. QED
        BY <2>1, <2>2
<1>3. ASSUME NEW s \in Increasing(n, k) PROVE ~Before(k, s, ChoiceBegin(n, k))
    <2>1. \A i \in 1..k : ChoiceBegin(n, k)[i] = i - 1
        BY DEF ChoiceBegin
    <2>2. ASSUME Before(k, s, ChoiceBegin(n, k)) PROVE FALSE
        <3>1. PICK i \in 1..k :
                  /\ s[i] < ChoiceBegin(n, k)[i]
                  /\ \A j \in 1..(i - 1) : s[j] = ChoiceBegin(n, k)[j]
            BY <2>2 DEF Before
        <3>2. s[i] < i - 1 /\ \A j \in 1..(i - 1) : s[j] = j - 1
            BY <2>1, <3>1
        <3>. QED
            BY <3>2, <1>2
    <2>. QED
        BY <2>2
<1>. QED
    BY <1>1, <1>3

\* Every combination comes before the end.
LEMMA ChoiceEndIsLast ==
    ASSUME NEW n \in Nat, NEW k \in 1..n, NEW s \in Increasing(n, k)
    PROVE  Before(k, s, GenerateEndCombination(n, k))
<1>1. 1 \in 1..k
    OBVIOUS
<1>2. s[1] <= n - k
    BY <1>1, IndicesAreBounded
<1>3. GenerateEndCombination(n, k)[1] = n - k + 1
    BY <1>1 DEF GenerateEndCombination, GenerateMaxCombination
<1>. QED
    BY <1>1, <1>2, <1>3 DEF Before, Increasing

\* operator++ in the middle of the loop.
LEMMA GrowIsNext ==
    ASSUME NEW n \in Nat, NEW k \in 1..n, NEW c \in Increasing(n, k),
           NEW p \in CanGrow(n, k, c), \A j \in CanGrow(n, k, c) : j <= p
    PROVE  /\ Grow(k, c, p) \in Increasing(n, k)
           /\ \A s \in Increasing(n, k) :
                 Before(k, s, Grow(k, c, p)) <=> Before(k, s, c) \/ s = c
<1>. DEFINE d == Grow(k, c, p)
<1>1. p \in 1..k /\ c[p] < n - k + p - 1
    BY DEF CanGrow, GenerateMaxCombination
<1>2. c \in [1..k -> 0..(n - 1)]
    BY DEF Increasing
<1>3. \A j \in 1..k : d[j] = IF j < p THEN c[j] ELSE c[p] + 1 + (j - p)
    BY DEF Grow
<1>. HIDE DEF d
<1>4. d \in Increasing(n, k)
    <2>1. ASSUME NEW j \in 1..k PROVE d[j] \in 0..(n - 1)
        <3>1. c[j] \in 0..(n - 1) /\ c[p] \in 0..(n - 1)
            BY <1>1, <1>2
        <3>. QED
            BY <3>1, <1>1, <1>3
    <2>2. \A i, j \in 1..k : i < j => d[i] < d[j]
        <3>1. \A i, j \in 1..k : i < j => c[i] < c[j]
            BY DEF Increasing
        <3>. TAKE i, j \in 1..k
        <3>2. CASE j < p
            BY <3>1, <3>2, <1>1, <1>2, <1>3
        <3>3. CASE i < p /\ p <= j
            <4>1. c[i] < c[p]
                BY <3>1, <3>3, <1>1
            <4>. QED
                BY <4>1, <3>3, <1>1, <1>2, <1>3
        <3>4. CASE p <= i
            BY <3>4, <1>1, <1>2, <1>3
        <3>. QED
            BY <3>2, <3>3, <3>4, <1>1
    <2>3. d = [j \in 1..k |-> d[j]]
        BY DEF Grow, d
    <2>. QED
        BY <2>1, <2>2, <2>3 DEF Increasing
<1>5. ASSUME NEW s \in Increasing(n, k), Before(k, s, c) \/ s = c
      PROVE  Before(k, s, d)
    <2>0. s \in [1..k -> 0..(n - 1)]
        BY DEF Increasing
    <2>1. CASE s = c
        <3>1. s[p] < d[p] /\ \A j \in 1..(p - 1) : s[j] = d[j]
            BY <2>1, <1>1, <1>2, <1>3
        <3>. QED
            BY <3>1, <1>1 DEF Before
    <2>2. CASE Before(k, s, c)
        <3>1. PICK i \in 1..k :
                  s[i] < c[i] /\ \A j \in 1..(i - 1) : s[j] = c[j]
            BY <2>2 DEF Before
        <3>2. CASE i <= p
            <4>1. s[i] < d[i] /\ \A j \in 1..(i - 1) : s[j] = d[j]
                <5>1. CASE i < p
                    BY <5>1, <3>1, <1>1, <1>3
                <5>2. CASE i = p
                    BY <5>2, <3>1, <2>0, <1>1, <1>2, <1>3
                <5>. QED
                    BY <5>1, <5>2, <3>2, <1>1
            <4>. QED
                BY <4>1 DEF Before
        <3>3. CASE p < i
            <4>1. s[p] < d[p] /\ \A j \in 1..(p - 1) : s[j] = d[j]
                <5>1. p \in 1..(i - 1) /\ s[p] = c[p] /\ c[p] \in Nat
                    BY <3>1, <3>3, <1>1, <1>2
                <5>2. d[p] = c[p] + 1
                    BY <5>1, <1>1, <1>3
                <5>3. \A j \in 1..(p - 1) :
                          j \in 1..(i - 1) /\ j \in 1..k /\ j < p
                    BY <3>3, <1>1
                <5>4. \A j \in 1..(p - 1) : s[j] = c[j] /\ d[j] = c[j]
                    BY <5>3, <3>1, <1>3
                <5>. QED
                    BY <5>1, <5>2, <5>4
            <4>. QED
                BY <4>1, <1>1 DEF Before
        <3>. QED
            BY <3>2, <3>3, <1>1
    <2>. QED
        BY <1>5, <2>1, <2>2
<1>6. ASSUME NEW s \in Increasing(n, k), Before(k, s, d), s # c
      PROVE  Before(k, s, c)
    <2>1. s \in [1..k -> 0..(n - 1)]
        BY DEF Increasing
    <2>2. PICK i \in 1..k :
              s[i] < d[i] /\ \A j \in 1..(i - 1) : s[j] = d[j]
        BY <1>6 DEF Before
    <2>3. CASE i < p
        <3>1. s[i] < c[i] /\ \A j \in 1..(i - 1) : s[j] = c[j]
            BY <2>2, <2>3, <1>1, <1>3
        <3>. QED
            BY <3>1 DEF Before
    <2>4. CASE i = p
        <3>1. s[p] <= c[p] /\ \A j \in 1..(p - 1) : s[j] = c[j]
            BY <2>1, <2>2, <2>4, <1>1, <1>2, <1>3
        <3>2. \A j \in 1..k : j > p => s[j] <= c[j]
            <4>. TAKE j \in 1..k
            <4>. HAVE j > p
            <4>1. j \notin CanGrow(n, k, c)
                BY <1>1
            <4>2. c[j] >= n - k + j - 1
                BY <4>1, <1>2 DEF CanGrow, GenerateMaxCombination
            <4>3. s[j] <= n - k + j - 1
                BY IndicesAreBounded
            <4>. QED
                BY <4>2, <4>3, <1>2, <2>1
        <3>3. \A j \in 1..k : s[j] <= c[j]
            <4>. TAKE j \in 1..k
            <4>1. CASE j < p
                BY <4>1, <3>1, <1>1, <1>2
            <4>2. CASE j >= p
                BY <4>2, <3>1, <3>2, <1>1
            <4>. QED
                BY <4>1, <4>2, <1>1
        <3>4. s \in [1..k -> Int] /\ c \in [1..k -> Int]
            BY <1>2, <2>1
        <3>. QED
            BY <3>3, <3>4, <1>6, BelowIsBefore
    <2>5. CASE p < i
        <3>1. i - 1 \in 1..k /\ i - 1 \in 1..(i - 1) /\ p <= i - 1
            BY <2>5, <1>1
        <3>2. s[i - 1] < s[i]
            BY <3>1 DEF Increasing
        <3>3. s[i - 1] = c[p] + 1 + (i - 1 - p) /\ s[i] < c[p] + 1 + (i - p)
            <4>1. s[i - 1] = d[i - 1] /\ s[i] < d[i]
                BY <3>1, <2>2
            <4>2. d[i - 1] = c[p] + 1 + (i - 1 - p)
                BY <3>1, <1>1, <1>3
            <4>3. d[i] = c[p] + 1 + (i - p)
                BY <2>5, <1>1, <1>3
            <4>4. s[i - 1] = c[p] + 1 + (i - 1 - p)
                BY <4>1, <4>2
            <4>. QED
                BY <4>1, <4>3, <4>4
        <3>4. c[p] \in Int /\ s[i - 1] \in Int /\ s[i] \in Int
            BY <3>1, <2>1, <1>1, <1>2
        <3>. QED
            BY <3>2, <3>3, <3>4, <1>1
    <2>. QED
        BY <2>3, <2>4, <2>5, <1>1
<1>. QED
    BY <1>4, <1>5, <1>6 DEF d

\* operator++ takes a combination to the next one, and the last one to the end.
LEMMA ChoiceNextIsNext ==
    ASSUME NEW n \in Nat, NEW k \in 1..n, NEW c \in Increasing(n, k)
    PROVE  LET d == ChoiceNext(n, k, c) IN
           /\ d \in Increasing(n, k) \/ d = GenerateEndCombination(n, k)
           /\ \A s \in Increasing(n, k) :
                 Before(k, s, d) <=> Before(k, s, c) \/ s = c
<1>0. c \in [1..k -> 0..(n - 1)]
    BY DEF Increasing
<1>1. CASE CanGrow(n, k, c) = {}
    <2>1. \A i \in 1..k : c[i] = n - k + i - 1
        <3>. TAKE i \in 1..k
        <3>1. i \notin CanGrow(n, k, c)
            BY <1>1
        <3>2. c[i] >= n - k + i - 1
            BY <3>1, <1>0 DEF CanGrow, GenerateMaxCombination
        <3>3. c[i] <= n - k + i - 1
            BY IndicesAreBounded
        <3>4. c[i] \in Int
            BY <1>0
        <3>. QED
            BY <3>2, <3>3, <3>4
    <2>2. c = GenerateMaxCombination(n, k)
        BY <2>1, <1>0 DEF GenerateMaxCombination
    <2>3. ChoiceNext(n, k, c) = GenerateEndCombination(n, k)
        BY <2>2, <1>1 DEF ChoiceNext, GenerateEndCombination
    <2>4. ASSUME NEW s \in Increasing(n, k)
          PROVE  Before(k, s, c) \/ s = c
        <3>1. s \in [1..k -> Int] /\ c \in [1..k -> Int]
            BY <1>0 DEF Increasing
        <3>2. \A i \in 1..k : s[i] <= n - k + i - 1
            BY IndicesAreBounded
        <3>3. \A i \in 1..k : s[i] <= c[i]
            <4>. TAKE i \in 1..k
            <4>1. c[i] = n - k + i - 1
                BY <2>1
            <4>2. s[i] <= n - k + i - 1
                BY <3>2
            <4>. QED
                BY <4>1, <4>2, Zenon
        <3>4. k \in Nat
            OBVIOUS
        <3>. QED
            BY <3>1, <3>3, <3>4, BelowIsBefore, Zenon
    <2>. QED
        BY <2>3, <2>4, ChoiceEndIsLast
<1>2. CASE CanGrow(n, k, c) # {}
    <2>1. CanGrow(n, k, c) \in SUBSET (1..k)
        BY DEF CanGrow
    <2>. DEFINE p == CHOOSE i \in CanGrow(n, k, c) :
                         \A j \in CanGrow(n, k, c) : j <= i
    <2>2. p \in CanGrow(n, k, c) /\ \A j \in CanGrow(n, k, c) : j <= p
        <3>1. k \in Nat
            OBVIOUS
        <3>2. \E i \in CanGrow(n, k, c) : \A j \in CanGrow(n, k, c) : j <= i
            <4>. HIDE DEF p
            <4>. QED
                BY <3>1, <1>2, <2>1, HasMaximum
        <3>. QED
            BY <3>2
    <2>3. ChoiceNext(n, k, c) = Grow(k, c, p)
        BY <1>2 DEF ChoiceNext
    <2>. HIDE DEF p
    <2>. QED
        BY <2>2, <2>3, GrowIsNext
<1>. QED
    BY <1>1, <1>2

-----------------------------------------------------------------------------
(* TPairGenerator: the same facts about combinations of two.               *)

LEMMA PairOrder ==
    ASSUME NEW a, NEW b
    PROVE  Before(2, a, b) <=> a[1] < b[1] \/ (a[1] = b[1] /\ a[2] < b[2])
<1>1. 1..2 = {1, 2} /\ 1..(1 - 1) = {} /\ 1..(2 - 1) = {1}
    OBVIOUS
<1>. QED
    BY <1>1 DEF Before

LEMMA PairsAreIncreasing ==
    ASSUME NEW n \in Nat, NEW a
    PROVE  a \in Increasing(n, 2) <=>
               \E x, y \in 0..(n - 1) : a = <<x, y>> /\ x < y
<1>1. ASSUME NEW x \in 0..(n - 1), NEW y \in 0..(n - 1), x < y
      PROVE  <<x, y>> \in Increasing(n, 2)
    BY <1>1 DEF Increasing
<1>2. ASSUME a \in Increasing(n, 2)
      PROVE  a = <<a[1], a[2]>> /\ a[1] \in 0..(n - 1) /\ a[2] \in 0..(n - 1)
             /\ a[1] < a[2]
    BY <1>2 DEF Increasing
<1>. QED
    BY <1>1, <1>2

LEMMA PairNextIsNext ==
    ASSUME NEW n \in Nat \ {0}, NEW c \in Increasing(n, 2)
    PROVE  LET d == PairNext(n, c) IN
           /\ d \in Increasing(n, 2) \/ d = PairEnd(n)
           /\ \A s \in Increasing(n, 2) :
                 Before(2, s, d) <=> Before(2, s, c) \/ s = c
<1>1. PICK x, y \in 0..(n - 1) : c = <<x, y>> /\ x < y
    BY PairsAreIncreasing
<1>2. PairNext(n, c) = IF y + 1 = n THEN <<x + 1, x + 2>> ELSE <<x, y + 1>>
    BY <1>1 DEF PairNext
<1>3. PairNext(n, c) \in Increasing(n, 2) \/ PairNext(n, c) = PairEnd(n)
    <2>1. CASE y + 1 # n
        BY <2>1, <1>1, <1>2, PairsAreIncreasing
    <2>2. CASE y + 1 = n /\ x + 2 < n
        BY <2>2, <1>1, <1>2, PairsAreIncreasing
    <2>3. CASE y + 1 = n /\ x + 2 = n
        BY <2>3, <1>1, <1>2 DEF PairEnd
    <2>. QED
        BY <2>1, <2>2, <2>3, <1>1
<1>4. ASSUME NEW s \in Increasing(n, 2)
      PROVE  Before(2, s, PairNext(n, c)) <=> Before(2, s, c) \/ s = c
    <2>1. PICK u, v \in 0..(n - 1) : s = <<u, v>> /\ u < v
        BY PairsAreIncreasing
    <2>2. Before(2, s, c) <=> u < x \/ (u = x /\ v < y)
        BY <2>1, <1>1, PairOrder
    <2>3. CASE y + 1 = n
        <3>1. Before(2, s, PairNext(n, c))
                  <=> u < x + 1 \/ (u = x + 1 /\ v < x + 2)
            BY <2>1, <2>3, <1>2, PairOrder
        <3>. QED
            BY <3>1, <2>1, <2>2, <2>3, <1>1
    <2>4. CASE y + 1 # n
        <3>1. Before(2, s, PairNext(n, c)) <=> u < x \/ (u = x /\ v < y + 1)
            BY <2>1, <2>4, <1>2, PairOrder
        <3>. QED
            BY <3>1, <2>1, <2>2, <1>1
    <2>. QED
        BY <2>3, <2>4
<1>. QED
    BY <1>3, <1>4

LEMMA PairBeginAndEnd ==
    ASSUME NEW n \in Nat \ {0}
    PROVE  /\ PairBegin \in Increasing(n, 2) \/ PairBegin = PairEnd(n)
           /\ \A s \in Increasing(n, 2) :
                 ~Before(2, s, PairBegin) /\ Before(2, s, PairEnd(n))
<1>1. PairBegin \in Increasing(n, 2) \/ PairBegin = PairEnd(n)
    BY PairsAreIncreasing DEF PairBegin, PairEnd
<1>2. ASSUME NEW s \in Increasing(n, 2)
      PROVE  ~Before(2, s, PairBegin) /\ Before(2, s, PairEnd(n))
    <2>1. PICK u, v \in 0..(n - 1) : s = <<u, v>> /\ u < v
        BY PairsAreIncreasing
    <2>. QED
        BY <2>1, PairOrder DEF PairBegin, PairEnd
<1>. QED
    BY <1>1, <1>2

-----------------------------------------------------------------------------
(* TSubsetGenerator: the numbers below 1 << n stand for the subsets of n   *)
(* elements.  The provers know no induction: an argument by induction is   *)
(* one about the smallest number that spoils the claim.                    *)

LEMMA LeastNumber ==
    ASSUME NEW S \in SUBSET Nat, S # {}
    PROVE  \E x \in S : \A y \in S : x <= y
<1>. DEFINE R == OpToRel(<, Nat)
<1>1. IsWellFoundedOn(R, Nat)
    BY NatLessThanWellFounded
<1>2. \A x, y \in Nat : <<x, y>> \in R <=> x < y
    BY DEF OpToRel
<1>3. PICK x \in S : \A y \in S : ~(<<y, x>> \in R)
    <2>. HIDE DEF R
    <2>. QED
        BY <1>1, WFMin, Zenon
<1>. HIDE DEF R
<1>4. \A y \in S : ~(y < x) /\ y \in Nat /\ x \in Nat
    BY <1>2, <1>3
<1>. QED
    BY <1>4

\* g is what the definition of Shifted says, up to x.
Doubles(g, x) ==
    /\ g \in [0..x -> Nat \ {0}]
    /\ g[0] = 1
    /\ \A y \in 1..x : g[y] = 2 * g[y - 1]

LEMMA DoublesExist == \A x \in Nat : \E g : Doubles(g, x)
<1>. DEFINE S == {x \in Nat : ~\E g : Doubles(g, x)}
<1>1. ASSUME S # {} PROVE FALSE
    <2>1. PICK x \in S : \A y \in S : x <= y
        BY <1>1, LeastNumber
    <2>2. x # 0
        <3>1. Doubles([i \in 0..0 |-> 1], 0)
            BY DEF Doubles
        <3>. QED
            BY <3>1
    <2>3. PICK g : Doubles(g, x - 1)
        BY <2>1, <2>2
    <2>. DEFINE h == [i \in 0..x |-> IF i = x THEN 2 * g[x - 1] ELSE g[i]]
    <2>4. g[x - 1] \in Nat \ {0} /\ x \in Nat \ {0}
        BY <2>2, <2>3 DEF Doubles
    <2>5. Doubles(h, x)
        <3>1. h \in [0..x -> Nat \ {0}]
            BY <2>3, <2>4 DEF Doubles
        <3>2. h[0] = 1
            BY <2>3, <2>4 DEF Doubles
        <3>3. ASSUME NEW y \in 1..x PROVE h[y] = 2 * h[y - 1]
            <4>1. h[y - 1] = g[y - 1]
                BY <2>4
            <4>2. CASE y = x
                BY <4>1, <4>2
            <4>3. CASE y # x
                <5>1. y \in 1..(x - 1) /\ h[y] = g[y]
                    BY <4>3
                <5>. QED
                    BY <4>1, <5>1, <2>3 DEF Doubles
            <4>. QED
                BY <4>2, <4>3
        <3>. HIDE DEF h
        <3>. QED
            BY <3>1, <3>2, <3>3 DEF Doubles
    <2>. QED
        BY <2>1, <2>5
<1>. QED
    BY <1>1

\* Wherever two of them are defined, they agree.
LEMMA DoublesAgree ==
    ASSUME NEW x \in Nat, NEW y \in Nat, NEW g, NEW h,
           Doubles(g, x), Doubles(h, y)
    PROVE  \A i \in 0..x : i \in 0..y => g[i] = h[i]
<1>. DEFINE S == {i \in Nat : i \in 0..x /\ i \in 0..y /\ g[i] # h[i]}
<1>1. ASSUME S # {} PROVE FALSE
    <2>1. PICK i \in S : \A j \in S : i <= j
        BY <1>1, LeastNumber
    <2>2. i # 0
        BY <2>1 DEF Doubles
    <2>3. i \in 1..x /\ i \in 1..y /\ g[i - 1] = h[i - 1]
        BY <2>1, <2>2
    <2>. QED
        BY <2>1, <2>3 DEF Doubles
<1>. QED
    BY <1>1

\* A function meets the definition of Shifted.
LEMMA ShiftedFacts ==
    /\ \A n \in Nat : Shifted[n] \in Nat \ {0}
    /\ Shifted[0] = 1
    /\ \A n \in Nat \ {0} : Shifted[n] = 2 * Shifted[n - 1]
<1>. DEFINE G(x) == CHOOSE g : Doubles(g, x)
            f == [x \in Nat |-> G(x)[x]]
<1>1. \A x \in Nat : Doubles(G(x), x)
    BY DoublesExist
<1>. HIDE DEF G
<1>2. \A x \in Nat : f[x] = G(x)[x]
    OBVIOUS
<1>3. \A x \in Nat : f[x] \in Nat \ {0}
    <2>. TAKE x \in Nat
    <2>1. x \in 0..x
        OBVIOUS
    <2>. QED
        BY <1>1, <2>1 DEF Doubles
<1>4. f[0] = 1
    BY <1>1 DEF Doubles
<1>5. ASSUME NEW n \in Nat \ {0} PROVE f[n] = 2 * f[n - 1]
    <2>1. n - 1 \in Nat /\ n \in 1..n /\ n - 1 \in 0..n /\ n - 1 \in 0..(n - 1)
        OBVIOUS
    <2>2. Doubles(G(n), n) /\ Doubles(G(n - 1), n - 1)
        BY <1>1, <2>1
    <2>3. G(n)[n] = 2 * G(n)[n - 1]
        BY <2>1, <2>2 DEF Doubles
    <2>4. G(n)[n - 1] = G(n - 1)[n - 1]
        BY <2>1, <2>2, DoublesAgree
    <2>. QED
        BY <1>2, <2>1, <2>3, <2>4
<1>. HIDE DEF f
<1>6. f = [n \in Nat |-> IF n = 0 THEN 1 ELSE 2 * f[n - 1]]
    <2>1. f = [n \in Nat |-> f[n]]
        BY DEF f
    <2>2. \A n \in Nat : f[n] = IF n = 0 THEN 1 ELSE 2 * f[n - 1]
        BY <1>4, <1>5
    <2>. QED
        BY <2>1, <2>2
<1>7. Shifted = [n \in Nat |-> IF n = 0 THEN 1 ELSE 2 * Shifted[n - 1]]
    BY <1>6 DEF Shifted
<1>. DEFINE S == {n \in Nat : Shifted[n] # f[n]}
<1>8. ASSUME S # {} PROVE FALSE
    <2>1. PICK n \in S : \A m \in S : n <= m
        BY <1>8, LeastNumber
    <2>2. CASE n = 0
        BY <1>4, <1>7, <2>1, <2>2
    <2>3. CASE n # 0
        <3>1. n - 1 \in Nat /\ n - 1 \notin S
            BY <2>1, <2>3
        <3>2. Shifted[n] = 2 * Shifted[n - 1]
            BY <1>7, <2>1, <2>3
        <3>. QED
            BY <1>5, <2>1, <2>3, <3>1, <3>2
    <2>. QED
        BY <2>2, <2>3
<1>9. \A n \in Nat : Shifted[n] = f[n]
    BY <1>8
<1>. QED
    BY <1>3, <1>4, <1>5, <1>9

-----------------------------------------------------------------------------
(* TSubsetGenerator: operator*                                             *)

LEMMA Halves ==
    ASSUME NEW s \in Nat \ {0}
    PROVE  /\ s \div 2 \in 0..(s - 1)
           /\ s % 2 \in {0, 1}
           /\ s = (2 * (s \div 2)) + (s % 2)
OBVIOUS

\* What the loop appends for state s at iterator i, with g for what follows.
Step(g, s, i) ==
    IF s = 0 THEN <<>>
    ELSE (IF s % 2 = 1 THEN <<i>> ELSE <<>>) \o g[s \div 2][i + 1]

LEMMA StepIsSeq ==
    ASSUME NEW s \in Nat, NEW i \in Nat, NEW g,
           s # 0 => g[s \div 2][i + 1] \in Seq(Nat)
    PROVE  Step(g, s, i) \in Seq(Nat)
<1>1. <<>> \in Seq(Nat) /\ <<i>> \in Seq(Nat)
    OBVIOUS
<1>2. CASE s = 0
    BY <1>1, <1>2 DEF Step
<1>3. CASE s # 0
    <2>1. (IF s % 2 = 1 THEN <<i>> ELSE <<>>) \in Seq(Nat)
        BY <1>1
    <2>. QED
        BY <2>1, <1>3, ConcatProperties DEF Step
<1>. QED
    BY <1>2, <1>3

\* g is what the definition of Selected says, up to x.
Selects(g, x) ==
    /\ g \in [0..x -> [Nat -> Seq(Nat)]]
    /\ \A s \in 0..x, i \in Nat : g[s][i] = Step(g, s, i)

LEMMA SelectsExist == \A x \in Nat : \E g : Selects(g, x)
<1>. DEFINE S == {x \in Nat : ~\E g : Selects(g, x)}
<1>1. ASSUME S # {} PROVE FALSE
    <2>1. PICK x \in S : \A y \in S : x <= y
        BY <1>1, LeastNumber
    <2>2. x # 0
        <3>. DEFINE g == [s \in 0..0 |-> [i \in Nat |-> <<>>]]
        <3>1. g \in [0..0 -> [Nat -> Seq(Nat)]]
            OBVIOUS
        <3>2. \A s \in 0..0, i \in Nat : g[s][i] = Step(g, s, i)
            BY DEF Step
        <3>. HIDE DEF g
        <3>3. Selects(g, 0)
            BY <3>1, <3>2 DEF Selects
        <3>. QED
            BY <2>1, <3>3
    <2>3. PICK g : Selects(g, x - 1)
        BY <2>1, <2>2
    <2>. DEFINE h == [s \in 0..x |-> IF s = x THEN [i \in Nat |-> Step(g, x, i)]
                                              ELSE g[s]]
    <2>4. x \in Nat \ {0} /\ x \div 2 \in 0..(x - 1)
        BY <2>1, <2>2, Halves
    <2>5. \A s \in 0..(x - 1), i \in Nat :
              g[s] \in [Nat -> Seq(Nat)] /\ g[s][i] = Step(g, s, i)
        BY <2>3 DEF Selects
    <2>6. \A i \in Nat : Step(g, x, i) \in Seq(Nat)
        <3>. TAKE i \in Nat
        <3>1. g[x \div 2][i + 1] \in Seq(Nat)
            BY <2>4, <2>5
        <3>. QED
            BY <2>4, <3>1, StepIsSeq
    <2>7. h \in [0..x -> [Nat -> Seq(Nat)]]
        BY <2>4, <2>5, <2>6
    <2>8. /\ \A s \in 0..(x - 1) : h[s] = g[s]
          /\ \A i \in Nat : h[x][i] = Step(g, x, i)
        BY <2>4
    <2>. HIDE DEF h
    <2>9. ASSUME NEW s \in 0..x, NEW i \in Nat PROVE h[s][i] = Step(h, s, i)
        <3>1. Step(h, s, i) = Step(g, s, i)
            <4>1. CASE s = 0
                BY <4>1 DEF Step
            <4>2. CASE s # 0
                <5>1. s \div 2 \in 0..(x - 1)
                    BY <4>2, <2>4, Halves
                <5>. QED
                    BY <5>1, <2>8 DEF Step
            <4>. QED
                BY <4>1, <4>2
        <3>2. CASE s = x
            BY <3>1, <3>2, <2>8
        <3>3. CASE s # x
            <4>1. s \in 0..(x - 1)
                BY <3>3, <2>4
            <4>. QED
                BY <3>1, <4>1, <2>5, <2>8
        <3>. QED
            BY <3>2, <3>3
    <2>10. Selects(h, x)
        BY <2>7, <2>9 DEF Selects
    <2>. QED
        BY <2>1, <2>10
<1>. QED
    BY <1>1

LEMMA SelectsAgree ==
    ASSUME NEW x \in Nat, NEW y \in Nat, NEW g, NEW h,
           Selects(g, x), Selects(h, y)
    PROVE  \A s \in 0..x : s \in 0..y => g[s] = h[s]
<1>. DEFINE S == {s \in Nat : s \in 0..x /\ s \in 0..y /\ g[s] # h[s]}
<1>1. ASSUME S # {} PROVE FALSE
    <2>1. PICK s \in S : \A t \in S : s <= t
        BY <1>1, LeastNumber
    <2>2. \A i \in Nat : Step(g, s, i) = Step(h, s, i)
        <3>1. CASE s = 0
            BY <3>1 DEF Step
        <3>2. CASE s # 0
            <4>1. s \div 2 \in 0..(s - 1)
                BY <2>1, <3>2, Halves
            <4>2. s \div 2 \in Nat /\ s \div 2 \notin S
                BY <2>1, <4>1
            <4>3. g[s \div 2] = h[s \div 2]
                BY <2>1, <4>1, <4>2
            <4>. QED
                BY <4>3 DEF Step
        <3>. QED
            BY <3>1, <3>2
    <2>3. \A i \in Nat : g[s][i] = h[s][i]
        BY <2>1, <2>2 DEF Selects
    <2>4. g[s] \in [Nat -> Seq(Nat)] /\ h[s] \in [Nat -> Seq(Nat)]
        BY <2>1 DEF Selects
    <2>5. g[s] = [i \in Nat |-> g[s][i]] /\ h[s] = [i \in Nat |-> h[s][i]]
        BY <2>4
    <2>6. g[s] = h[s]
        BY <2>3, <2>5
    <2>. QED
        BY <2>1, <2>6
<1>. QED
    BY <1>1

\* A function meets the definition of Selected.
LEMMA SelectedFacts ==
    \A s, i \in Nat : /\ Selected[s][i] \in Seq(Nat)
                      /\ Selected[s][i] = Step(Selected, s, i)
<1>. DEFINE G(x) == CHOOSE g : Selects(g, x)
            f == [x \in Nat |-> G(x)[x]]
<1>1. \A x \in Nat : Selects(G(x), x)
    BY SelectsExist
<1>. HIDE DEF G
<1>2. \A x \in Nat : f[x] = G(x)[x]
    OBVIOUS
<1>3. \A x \in Nat : f[x] \in [Nat -> Seq(Nat)]
    <2>. TAKE x \in Nat
    <2>1. x \in 0..x
        OBVIOUS
    <2>. QED
        BY <1>1, <2>1 DEF Selects
<1>4. f = [x \in Nat |-> f[x]]
    OBVIOUS
<1>5. ASSUME NEW s \in Nat, NEW i \in Nat PROVE f[s][i] = Step(f, s, i)
    <2>1. G(s)[s][i] = Step(G(s), s, i)
        <3>1. s \in 0..s
            OBVIOUS
        <3>. QED
            BY <1>1, <3>1 DEF Selects
    <2>2. CASE s = 0
        BY <1>2, <2>1, <2>2 DEF Step
    <2>3. CASE s # 0
        <3>1. s \div 2 \in 0..(s - 1)
            BY <2>3, Halves
        <3>2. s \div 2 \in Nat /\ s \div 2 \in 0..s /\ s \div 2 \in 0..(s \div 2)
            BY <3>1
        <3>3. G(s)[s \div 2] = G(s \div 2)[s \div 2]
            BY <1>1, <3>2, SelectsAgree
        <3>4. G(s)[s \div 2] = f[s \div 2]
            BY <1>2, <3>2, <3>3
        <3>. HIDE DEF f
        <3>. QED
            BY <1>2, <2>1, <3>4 DEF Step
    <2>. QED
        BY <2>2, <2>3
<1>. HIDE DEF f
<1>6. \A s \in Nat : f[s] = [i \in Nat |-> Step(f, s, i)]
    BY <1>3, <1>5
<1>7. f = [s \in Nat |-> [i \in Nat |-> Step(f, s, i)]]
    BY <1>4, <1>6
<1>8. Selected = [s \in Nat |-> [i \in Nat |-> Step(Selected, s, i)]]
    BY <1>7 DEF Selected, Step
<1>9. \A s, i \in Nat : Selected[s][i] = Step(Selected, s, i)
    BY <1>8
<1>. DEFINE S == {s \in Nat : \E i \in Nat : Selected[s][i] \notin Seq(Nat)}
<1>10. ASSUME S # {} PROVE FALSE
    <2>1. PICK s \in S : \A t \in S : s <= t
        BY <1>10, LeastNumber
    <2>2. \A i \in Nat : Selected[s][i] \in Seq(Nat)
        <3>. TAKE i \in Nat
        <3>1. s # 0 => Selected[s \div 2][i + 1] \in Seq(Nat)
            <4>. HAVE s # 0
            <4>1. s \div 2 \in 0..(s - 1)
                BY <2>1, Halves
            <4>2. s \div 2 \in Nat /\ s \div 2 \notin S
                BY <2>1, <4>1
            <4>. QED
                BY <4>2
        <3>2. Step(Selected, s, i) \in Seq(Nat)
            BY <2>1, <3>1, StepIsSeq
        <3>. QED
            BY <1>9, <2>1, <3>2
    <2>. QED
        BY <2>1, <2>2
<1>. QED
    BY <1>9, <1>10

-----------------------------------------------------------------------------
(* What the states below 1 << n select: each increasing sequence once.     *)

\* Increasing sequences of elements that iterator i has not passed yet.
Rising(i) ==
    {c \in Seq(Nat) : /\ \A j \in 1..Len(c) : i <= c[j]
                      /\ \A j, k \in 1..Len(c) : j < k => c[j] < c[k]}

\* A sequence behind an element.
LEMMA Behind ==
    ASSUME NEW c \in Seq(Nat), NEW i \in Nat
    PROVE  /\ <<i>> \o c \in Seq(Nat)
           /\ Len(<<i>> \o c) = Len(c) + 1
           /\ (<<i>> \o c)[1] = i
           /\ \A j \in 2..(Len(c) + 1) : (<<i>> \o c)[j] = c[j - 1]
<1>1. <<i>> \in Seq(Nat) /\ Len(<<i>>) = 1 /\ <<i>>[1] = i
    OBVIOUS
<1>. QED
    BY <1>1, ConcatProperties

LEMMA EvenState ==
    ASSUME NEW s \in Nat \ {0}, NEW i \in Nat, s % 2 = 0
    PROVE  Selected[s][i] = Selected[s \div 2][i + 1]
<1>1. s \div 2 \in Nat /\ i + 1 \in Nat
    BY Halves
<1>2. Selected[s][i] = Step(Selected, s, i)
    BY SelectedFacts
<1>3. Step(Selected, s, i) = (IF s % 2 = 1 THEN <<i>> ELSE <<>>)
                                 \o Selected[s \div 2][i + 1]
    BY Zenon DEF Step
<1>4. (IF s % 2 = 1 THEN <<i>> ELSE <<>>) = <<>>
    OBVIOUS
<1>5. Selected[s \div 2][i + 1] \in Seq(Nat)
    BY <1>1, SelectedFacts
<1>6. <<>> \o Selected[s \div 2][i + 1] = Selected[s \div 2][i + 1]
    BY <1>5, ConcatEmptySeq, Zenon
<1>. QED
    BY <1>2, <1>3, <1>4, <1>6, Zenon

LEMMA OddState ==
    ASSUME NEW s \in Nat \ {0}, NEW i \in Nat, s % 2 = 1
    PROVE  Selected[s][i] = <<i>> \o Selected[s \div 2][i + 1]
BY SelectedFacts DEF Step

LEMMA NoState ==
    ASSUME NEW i \in Nat PROVE Selected[0][i] = <<>>
BY SelectedFacts DEF Step

LEMMA BehindRises ==
    ASSUME NEW i \in Nat, NEW c \in Rising(i + 1)
    PROVE  <<i>> \o c \in Rising(i)
<1>. DEFINE d == <<i>> \o c
<1>1. c \in Seq(Nat) /\ Len(c) \in Nat
    BY DEF Rising
<1>2. /\ d \in Seq(Nat) /\ Len(d) = Len(c) + 1 /\ d[1] = i
      /\ \A j \in 2..(Len(c) + 1) : d[j] = c[j - 1]
    BY <1>1, Behind
<1>. HIDE DEF d
<1>3. \A j \in 2..(Len(c) + 1) : d[j] \in Nat /\ i < d[j]
    <2>. TAKE j \in 2..(Len(c) + 1)
    <2>1. j - 1 \in 1..Len(c)
        BY <1>1
    <2>2. c[j - 1] \in Nat /\ i + 1 <= c[j - 1]
        BY <1>1, <2>1 DEF Rising
    <2>. QED
        BY <1>2, <2>2
<1>4. ASSUME NEW j \in 1..Len(d), NEW k \in 1..Len(d), j < k
      PROVE  d[j] < d[k]
    <2>1. k \in 2..(Len(c) + 1)
        BY <1>1, <1>2, <1>4
    <2>2. CASE j = 1
        BY <1>2, <1>3, <2>1, <2>2
    <2>3. CASE j # 1
        <3>1. j \in 2..(Len(c) + 1) /\ j - 1 \in 1..Len(c) /\ k - 1 \in 1..Len(c)
              /\ j - 1 < k - 1
            BY <1>1, <1>2, <1>4, <2>3
        <3>2. c[j - 1] < c[k - 1]
            BY <3>1 DEF Rising
        <3>. QED
            BY <1>2, <2>1, <3>1, <3>2
    <2>. QED
        BY <2>2, <2>3
<1>5. \A j \in 1..Len(d) : i <= d[j]
    <2>. TAKE j \in 1..Len(d)
    <2>1. j = 1 \/ j \in 2..(Len(c) + 1)
        BY <1>1, <1>2
    <2>. QED
        BY <1>2, <1>3, <2>1
<1>6. d \in Rising(i)
    BY <1>2, <1>4, <1>5 DEF Rising
<1>. QED
    BY <1>6 DEF d

\* A smaller iterator has passed no more.
LEMMA RisesEarlier ==
    ASSUME NEW i \in Nat, NEW c \in Rising(i + 1)
    PROVE  c \in Rising(i)
<1>1. c \in Seq(Nat) /\ Len(c) \in Nat
    BY DEF Rising
<1>2. \A j \in 1..Len(c) : i <= c[j]
    <2>. TAKE j \in 1..Len(c)
    <2>1. c[j] \in Nat /\ i + 1 <= c[j]
        BY <1>1 DEF Rising
    <2>. QED
        BY <2>1
<1>. QED
    BY <1>2 DEF Rising

\* Only the state without bits selects nothing.
LEMMA SelectedRises ==
    \A s, i \in Nat : /\ Selected[s][i] \in Rising(i)
                      /\ s # 0 => Selected[s][i] # <<>>
<1>. DEFINE P(s, i) == /\ Selected[s][i] \in Rising(i)
                       /\ s # 0 => Selected[s][i] # <<>>
            S == {s \in Nat : \E i \in Nat : ~P(s, i)}
<1>1. ASSUME S # {} PROVE FALSE
    <2>1. PICK s \in S : \A t \in S : s <= t
        <3>. HIDE DEF S
        <3>1. S \in SUBSET Nat
            BY DEF S
        <3>. QED
            BY <1>1, <3>1, LeastNumber
    <2>2. ASSUME NEW i \in Nat PROVE P(s, i)
        <3>1. CASE s = 0
            <4>1. <<>> \in Rising(i)
                BY DEF Rising
            <4>. QED
                BY <3>1, <4>1, NoState
        <3>2. CASE s # 0
            <4>1. s \in Nat \ {0} /\ s \div 2 \in 0..(s - 1)
                BY <2>1, <3>2, Halves
            <4>2. s \div 2 \in Nat /\ s \div 2 \notin S /\ i + 1 \in Nat
                BY <2>1, <4>1
            <4>3. P(s \div 2, i + 1)
                BY <4>2
            <4>4. CASE s % 2 = 1
                <5>1. Selected[s][i] = <<i>> \o Selected[s \div 2][i + 1]
                    BY <4>1, <4>4, OddState
                <5>2. Selected[s][i] \in Rising(i)
                    BY <4>3, <5>1, BehindRises
                <5>3. Selected[s \div 2][i + 1] \in Seq(Nat)
                    BY <4>2, SelectedFacts
                <5>4. Len(Selected[s][i]) = Len(Selected[s \div 2][i + 1]) + 1
                    BY <5>1, <5>3, Behind
                <5>5. Selected[s][i] # <<>>
                    BY <5>3, <5>4
                <5>. QED
                    BY <5>2, <5>5
            <4>5. CASE s % 2 # 1
                <5>1. s % 2 = 0
                    BY <4>1, <4>5, Halves
                <5>2. Selected[s][i] = Selected[s \div 2][i + 1]
                    BY <4>1, <5>1, EvenState
                <5>3. s \div 2 # 0
                    BY <4>1, <5>1, Halves
                <5>. QED
                    BY <4>3, <5>2, <5>3, RisesEarlier
            <4>. QED
                BY <4>4, <4>5
        <3>. QED
            BY <3>1, <3>2
    <2>. QED
        BY <2>1, <2>2
<1>. QED
    BY <1>1

LEMMA BehindIsInjective ==
    ASSUME NEW c \in Seq(Nat), NEW d \in Seq(Nat), NEW i \in Nat,
           <<i>> \o c = <<i>> \o d
    PROVE  c = d
<1>1. Len(c) \in Nat /\ Len(d) \in Nat /\ Len(c) = Len(d)
    BY Behind
<1>2. ASSUME NEW j \in 1..Len(c) PROVE c[j] = d[j]
    <2>1. j + 1 \in 2..(Len(c) + 1) /\ j + 1 - 1 = j
        BY <1>1
    <2>2. (<<i>> \o c)[j + 1] = c[j] /\ (<<i>> \o d)[j + 1] = d[j]
        BY <1>1, <2>1, Behind
    <2>. QED
        BY <2>2
<1>. QED
    BY <1>1, <1>2, SeqEqual

\* A sequence that begins with the element of the iterator is none of the
\* elements behind it.
LEMMA HeadIsNotPassed ==
    ASSUME NEW c \in Seq(Nat), NEW d \in Seq(Nat), NEW i \in Nat,
           \A j \in 1..Len(d) : i < d[j], <<i>> \o c = d
    PROVE  FALSE
<1>1. Len(c) \in Nat /\ Len(d) = Len(c) + 1 /\ d[1] = i
    BY Behind
<1>2. 1 \in 1..Len(d)
    BY <1>1
<1>. QED
    BY <1>1, <1>2


\* Different states select different sequences.
LEMMA SelectedOnce ==
    \A s, t, i \in Nat : Selected[s][i] = Selected[t][i] => s = t
<1>. DEFINE S == {s \in Nat : \E t, i \in Nat :
                     Selected[s][i] = Selected[t][i] /\ s # t}
<1>1. ASSUME S # {} PROVE FALSE
    <2>1. PICK s \in S : \A u \in S : s <= u
        BY <1>1, LeastNumber
    <2>2. s \in Nat
        BY <2>1
    <2>3. PICK t \in Nat : \E i \in Nat :
                  Selected[s][i] = Selected[t][i] /\ s # t
        BY <2>1
    <2>4. PICK i \in Nat : Selected[s][i] = Selected[t][i] /\ s # t
        BY <2>3
    <2>0. \A u \in Nat : u < s =>
              \A v, j \in Nat : Selected[u][j] = Selected[v][j] => u = v
        BY <2>1
    <2>5. s # 0 /\ t # 0
        BY <2>2, <2>4, NoState, SelectedRises
    <2>. DEFINE hs == s \div 2
                ht == t \div 2
                c == Selected[hs][i + 1]
                d == Selected[ht][i + 1]
    <2>6. /\ hs \in 0..(s - 1) /\ s % 2 \in {0, 1} /\ s = (2 * hs) + (s % 2)
          /\ ht \in 0..(t - 1) /\ t % 2 \in {0, 1} /\ t = (2 * ht) + (t % 2)
        BY <2>2, <2>5, Halves
    <2>7. /\ s % 2 = 1 => Selected[s][i] = <<i>> \o c
          /\ s % 2 = 0 => Selected[s][i] = c
          /\ t % 2 = 1 => Selected[t][i] = <<i>> \o d
          /\ t % 2 = 0 => Selected[t][i] = d
        BY <2>2, <2>5, EvenState, OddState
    <2>8. hs \in Nat /\ hs < s /\ ht \in Nat /\ i + 1 \in Nat
        BY <2>2, <2>6
    <2>. HIDE DEF hs, ht
    <2>9. c = d => hs = ht
        BY <2>0, <2>8
    <2>10. c \in Rising(i + 1) /\ d \in Rising(i + 1)
        BY <2>6, SelectedRises
    <2>. HIDE DEF c, d
    <2>11. /\ c \in Seq(Nat) /\ \A j \in 1..Len(c) : i < c[j]
           /\ d \in Seq(Nat) /\ \A j \in 1..Len(d) : i < d[j]
        BY <2>10 DEF Rising
    <2>12. CASE s % 2 = t % 2
        <3>1. c = d
            <4>1. CASE s % 2 = 0
                BY <2>4, <2>7, <2>12, <4>1
            <4>2. CASE s % 2 = 1
                <5>1. <<i>> \o c = <<i>> \o d
                    BY <2>4, <2>7, <2>12, <4>2
                <5>. QED
                    BY <5>1, <2>11, BehindIsInjective
            <4>. QED
                BY <2>6, <4>1, <4>2
        <3>. QED
            BY <2>4, <2>6, <2>9, <2>12, <3>1
    <2>13. CASE s % 2 = 1 /\ t % 2 = 0
        BY <2>4, <2>7, <2>11, <2>13, HeadIsNotPassed
    <2>14. CASE s % 2 = 0 /\ t % 2 = 1
        BY <2>4, <2>7, <2>11, <2>14, HeadIsNotPassed
    <2>. QED
        BY <2>6, <2>12, <2>13, <2>14
<1>. QED
    BY <1>1

\* States below 1 << m select from the m elements that follow the iterator.
LEMMA SelectedBelow ==
    \A m, s, i \in Nat :
        s < Shifted[m] =>
            \A j \in 1..Len(Selected[s][i]) : Selected[s][i][j] < i + m
<1>. DEFINE P(m, s, i) ==
                \A j \in 1..Len(Selected[s][i]) : Selected[s][i][j] < i + m
            S == {m \in Nat : \E s, i \in Nat : s < Shifted[m] /\ ~P(m, s, i)}
<1>. HIDE DEF P
<1>1. ASSUME S # {} PROVE FALSE
    <2>1. PICK m \in S : \A u \in S : m <= u
        <3>. HIDE DEF S
        <3>1. S \in SUBSET Nat
            BY DEF S
        <3>. QED
            BY <1>1, <3>1, LeastNumber
    <2>2. m \in Nat
        BY <2>1
    <2>0. \A k \in Nat : k < m =>
              \A t, j \in Nat : t < Shifted[k] => P(k, t, j)
        BY <2>1
    <2>3. ASSUME NEW s \in Nat, NEW i \in Nat, s < Shifted[m]
          PROVE  P(m, s, i)
        <3>1. CASE s = 0
            <4>1. Selected[s][i] = <<>> /\ Len(<<>>) = 0
                BY <3>1, NoState
            <4>. QED
                BY <4>1 DEF P
        <3>2. CASE s # 0
            <4>1. m # 0
                BY <2>3, <3>2, ShiftedFacts
            <4>2. m - 1 \in Nat /\ m - 1 < m
                BY <2>2, <4>1
            <4>3. Shifted[m] = 2 * Shifted[m - 1] /\ Shifted[m - 1] \in Nat
                BY <2>2, <4>1, <4>2, ShiftedFacts
            <4>4. s \div 2 \in Nat /\ s \div 2 < Shifted[m - 1] /\ i + 1 \in Nat
                BY <2>3, <3>2, <4>3
            <4>5. P(m - 1, s \div 2, i + 1)
                BY <2>0, <4>2, <4>4
            <4>. DEFINE c == Selected[s \div 2][i + 1]
            <4>6. c \in Seq(Nat) /\ \A j \in 1..Len(c) : c[j] < i + m
                <5>1. i + 1 + (m - 1) = i + m
                    BY <2>2
                <5>. QED
                    BY <4>4, <4>5, <5>1, SelectedFacts DEF P
            <4>7. s % 2 = 0 => Selected[s][i] = c
                BY <3>2, EvenState
            <4>8. s % 2 = 1 => Selected[s][i] = <<i>> \o c
                BY <3>2, OddState
            <4>. HIDE DEF c
            <4>9. CASE s % 2 = 0
                BY <4>6, <4>7, <4>9 DEF P
            <4>10. CASE s % 2 = 1
                <5>. SUFFICES ASSUME NEW j \in 1..Len(<<i>> \o c)
                              PROVE  (<<i>> \o c)[j] < i + m
                    BY <4>8, <4>10 DEF P
                <5>1. Len(<<i>> \o c) = Len(c) + 1 /\ Len(c) \in Nat
                    BY <4>6, Behind
                <5>2. CASE j = 1
                    BY <2>2, <4>1, <4>6, <5>2, Behind
                <5>3. CASE j # 1
                    <6>1. j \in 2..(Len(c) + 1) /\ j - 1 \in 1..Len(c)
                        BY <5>1, <5>3
                    <6>2. (<<i>> \o c)[j] = c[j - 1]
                        BY <4>6, <6>1, Behind
                    <6>. QED
                        BY <4>6, <6>1, <6>2
                <5>. QED
                    BY <5>2, <5>3
            <4>. QED
                BY <3>2, <4>9, <4>10, Halves
        <3>. QED
            BY <3>1, <3>2
    <2>. QED
        BY <2>1, <2>3
<1>2. \A m, s, i \in Nat : s < Shifted[m] => P(m, s, i)
    BY <1>1
<1>. QED
    BY <1>2 DEF P

\* Each increasing sequence of the m elements that follow the iterator is
\* selected by a state below 1 << m.
LEMMA SelectedAll ==
    \A m, i \in Nat : \A c \in Rising(i) :
        (\A j \in 1..Len(c) : c[j] < i + m)
            => \E s \in Nat : s < Shifted[m] /\ Selected[s][i] = c
<1>. DEFINE P(m, i) == \A c \in Rising(i) :
                (\A j \in 1..Len(c) : c[j] < i + m)
                    => \E s \in Nat : s < Shifted[m] /\ Selected[s][i] = c
            S == {m \in Nat : \E i \in Nat : ~P(m, i)}
<1>. HIDE DEF P
<1>1. ASSUME S # {} PROVE FALSE
    <2>1. PICK m \in S : \A u \in S : m <= u
        BY <1>1, LeastNumber
    <2>2. m \in Nat /\ \A k \in Nat : k < m => \A i \in Nat : P(k, i)
        BY <2>1
    <2>3. ASSUME NEW i \in Nat, NEW c \in Rising(i),
                 \A j \in 1..Len(c) : c[j] < i + m
          PROVE  \E s \in Nat : s < Shifted[m] /\ Selected[s][i] = c
        <3>1. /\ c \in Seq(Nat) /\ Len(c) \in Nat
              /\ \A j \in 1..Len(c) : i <= c[j] /\ c[j] \in Nat
              /\ \A j, k \in 1..Len(c) : j < k => c[j] < c[k]
            BY DEF Rising
        <3>2. CASE c = <<>>
            <4>1. 0 < Shifted[m] /\ Selected[0][i] = c
                BY <2>2, <3>2, ShiftedFacts, NoState
            <4>. QED
                BY <4>1
        <3>3. CASE c # <<>>
            <4>1. Len(c) # 0 /\ 1 \in 1..Len(c)
                BY <3>1, <3>3, EmptySeq
            <4>2. m # 0
                BY <2>3, <3>1, <4>1
            <4>3. m - 1 \in Nat /\ m - 1 < m /\ i + 1 \in Nat
                  /\ i + 1 + (m - 1) = i + m
                BY <2>2, <4>2
            <4>4. Shifted[m] = 2 * Shifted[m - 1] /\ Shifted[m - 1] \in Nat
                BY <2>2, <4>2, <4>3, ShiftedFacts
            <4>5. ASSUME NEW d \in Rising(i + 1),
                         \A j \in 1..Len(d) : d[j] < i + m
                  PROVE  \E s \in Nat : /\ s < Shifted[m - 1]
                                        /\ Selected[s][i + 1] = d
                <5>1. P(m - 1, i + 1)
                    BY <2>2, <4>3
                <5>2. \A j \in 1..Len(d) : d[j] < i + 1 + (m - 1)
                    BY <4>3, <4>5
                <5>. QED
                    BY <5>1, <5>2 DEF P
            <4>6. CASE c[1] # i
                <5>1. \A j \in 1..Len(c) : i + 1 <= c[j]
                    <6>. TAKE j \in 1..Len(c)
                    <6>1. j = 1 \/ c[1] < c[j]
                        BY <3>1, <4>1
                    <6>. QED
                        BY <3>1, <4>1, <4>6, <6>1
                <5>2. c \in Rising(i + 1)
                    BY <3>1, <5>1 DEF Rising
                <5>3. PICK s \in Nat : s < Shifted[m - 1]
                                       /\ Selected[s][i + 1] = c
                    BY <2>3, <4>5, <5>2
                <5>4. s # 0
                    BY <3>3, <4>3, <5>3, NoState
                <5>5. /\ 2 * s \in Nat \ {0} /\ (2 * s) % 2 = 0
                      /\ (2 * s) \div 2 = s /\ 2 * s < Shifted[m]
                    BY <4>4, <5>3, <5>4
                <5>6. Selected[2 * s][i] = c
                    BY <5>3, <5>5, EvenState
                <5>. QED
                    BY <5>5, <5>6
            <4>7. CASE c[1] = i
                <5>. DEFINE d == Tail(c)
                <5>1. /\ d \in Seq(Nat) /\ Len(d) = Len(c) - 1
                      /\ \A j \in 1..Len(d) : d[j] = c[j + 1]
                    BY <3>1, <3>3, HeadTailProperties
                <5>. HIDE DEF d
                <5>2. d \in Rising(i + 1)
                    <6>1. ASSUME NEW j \in 1..Len(d) PROVE i + 1 <= d[j]
                        <7>1. j + 1 \in 1..Len(c) /\ 1 < j + 1
                            BY <3>1, <5>1
                        <7>2. c[1] < c[j + 1] /\ c[j + 1] \in Nat
                            BY <3>1, <4>1, <7>1
                        <7>. QED
                            BY <4>7, <5>1, <7>2
                    <6>2. ASSUME NEW j \in 1..Len(d), NEW k \in 1..Len(d), j < k
                          PROVE  d[j] < d[k]
                        <7>1. j + 1 \in 1..Len(c) /\ k + 1 \in 1..Len(c)
                              /\ j + 1 < k + 1
                            BY <3>1, <5>1, <6>2
                        <7>2. c[j + 1] < c[k + 1]
                            BY <3>1, <7>1
                        <7>. QED
                            BY <5>1, <7>2
                    <6>. QED
                        BY <5>1, <6>1, <6>2 DEF Rising
                <5>3. \A j \in 1..Len(d) : d[j] < i + m
                    <6>. TAKE j \in 1..Len(d)
                    <6>1. j + 1 \in 1..Len(c)
                        BY <3>1, <5>1
                    <6>. QED
                        BY <2>3, <5>1, <6>1
                <5>4. PICK s \in Nat : s < Shifted[m - 1]
                                       /\ Selected[s][i + 1] = d
                    BY <4>5, <5>2, <5>3
                <5>. DEFINE t == (2 * s) + 1
                <5>5. /\ t \in Nat \ {0} /\ t % 2 = 1
                      /\ t \div 2 = s /\ t < Shifted[m]
                    BY <4>4, <5>4
                <5>. HIDE DEF t
                <5>6. Selected[t][i] = <<i>> \o d
                    BY <5>4, <5>5, OddState
                <5>7. <<i>> \o d = c
                    <6>. DEFINE e == <<i>> \o d
                    <6>1. /\ e \in Seq(Nat) /\ Len(e) = Len(c) /\ e[1] = i
                          /\ \A j \in 2..Len(c) : e[j] = d[j - 1]
                        BY <3>1, <5>1, Behind
                    <6>. HIDE DEF e
                    <6>2. ASSUME NEW j \in 1..Len(c) PROVE e[j] = c[j]
                        <7>1. CASE j = 1
                            BY <4>7, <6>1, <7>1
                        <7>2. CASE j # 1
                            <8>1. j \in 2..Len(c) /\ j - 1 \in 1..Len(d)
                                  /\ j - 1 + 1 = j
                                BY <3>1, <5>1, <7>2
                            <8>. QED
                                BY <5>1, <6>1, <8>1
                        <7>. QED
                            BY <7>1, <7>2
                    <6>3. e = c
                        BY <3>1, <6>1, <6>2, SeqEqual
                    <6>. QED
                        BY <6>3 DEF e
                <5>. QED
                    BY <5>5, <5>6, <5>7
            <4>. QED
                BY <4>6, <4>7
        <3>. QED
            BY <3>2, <3>3
    <2>4. \A i \in Nat : P(m, i)
        BY <2>3 DEF P
    <2>. QED
        BY <2>1, <2>4
<1>2. \A m, i \in Nat : P(m, i)
    BY <1>1
<1>. QED
    BY <1>2 DEF P

\* What the generator of the subsets of n elements stands for.
Subsets(n) == UNION {Increasing(n, m) : m \in 0..n}

LEMMA SubsetsRise ==
    ASSUME NEW n \in Nat, NEW c
    PROVE  c \in Subsets(n) <=>
               c \in Rising(0) /\ \A j \in 1..Len(c) : c[j] < n
<1>1. ASSUME c \in Subsets(n)
      PROVE  c \in Rising(0) /\ \A j \in 1..Len(c) : c[j] < n
    <2>1. PICK m \in 0..n : c \in Increasing(n, m)
        BY <1>1 DEF Subsets
    <2>2. /\ c \in [1..m -> 0..(n - 1)]
          /\ \A i, j \in 1..m : i < j => c[i] < c[j]
        BY <2>1 DEF Increasing
    <2>3. c \in [1..m -> Nat]
        BY <2>2
    <2>4. c \in Seq(Nat) /\ Len(c) = m
        BY <2>3, SeqDef, LenProperties
    <2>. QED
        BY <2>2, <2>4 DEF Rising
<1>2. ASSUME c \in Rising(0), \A j \in 1..Len(c) : c[j] < n
      PROVE  c \in Subsets(n)
    <2>1. c \in Seq(Nat) /\ Len(c) \in Nat /\ c \in [1..Len(c) -> Nat]
        BY <1>2 DEF Rising
    <2>2. \A j \in 1..Len(c) : c[j] \in 0..(n - 1)
        BY <1>2, <2>1
    <2>3. c \in Increasing(n, Len(c))
        BY <1>2, <2>1, <2>2 DEF Rising, Increasing
    <2>4. Len(c) <= n
        <3>1. CASE Len(c) = 0
            BY <3>1
        <3>2. CASE Len(c) # 0
            <4>1. 1 \in 1..Len(c)
                BY <2>1, <3>2
            <4>2. c[1] <= n - Len(c) + 1 - 1
                BY <2>1, <2>3, <4>1, IndicesAreBounded
            <4>. QED
                BY <2>1, <2>2, <4>1, <4>2
        <3>. QED
            BY <3>1, <3>2
    <2>. QED
        BY <2>1, <2>3, <2>4 DEF Subsets
<1>. QED
    BY <1>1, <1>2

\* operator* maps the states before end() to the subsets, one to one.
LEMMA SubsetStates ==
    ASSUME NEW n \in Nat
    PROVE  /\ \A s \in Nat : s < SubsetEnd(n) => SubsetAt(s) \in Subsets(n)
           /\ \A s, t \in Nat : SubsetAt(s) = SubsetAt(t) => s = t
           /\ \A c \in Subsets(n) : \E s \in Nat :
                 s < SubsetEnd(n) /\ SubsetAt(s) = c
<1>1. ASSUME NEW s \in Nat, s < SubsetEnd(n) PROVE SubsetAt(s) \in Subsets(n)
    <2>1. SubsetAt(s) \in Rising(0)
        BY SelectedRises DEF SubsetAt
    <2>2. \A j \in 1..Len(SubsetAt(s)) : SubsetAt(s)[j] < 0 + n
        BY <1>1, SelectedBelow DEF SubsetAt, SubsetEnd
    <2>. QED
        BY <2>1, <2>2, SubsetsRise
<1>2. \A s, t \in Nat : SubsetAt(s) = SubsetAt(t) => s = t
    BY SelectedOnce DEF SubsetAt
<1>3. ASSUME NEW c \in Subsets(n)
      PROVE  \E s \in Nat : s < SubsetEnd(n) /\ SubsetAt(s) = c
    <2>1. c \in Rising(0) /\ \A j \in 1..Len(c) : c[j] < 0 + n
        BY SubsetsRise
    <2>2. 0 \in Nat
        OBVIOUS
    <2>3. \E s \in Nat : s < Shifted[n] /\ Selected[s][0] = c
        BY <2>1, <2>2, SelectedAll, Zenon
    <2>. QED
        BY <2>3 DEF SubsetAt, SubsetEnd
<1>. QED
    BY <1>1, <1>2, <1>3

-----------------------------------------------------------------------------
(* Choices and pairs: the first combination, the end, the increment.         *)

\* The generators of combinations.
LEMMA Kinds ==
    ASSUME NEW g \in Generators, g.kind # "subset"
    PROVE  \/ g.kind = "choice" /\ g.n \in Nat /\ g.k \in 1..g.n
           \/ g.kind = "pair" /\ g.n \in Nat \ {0} /\ g.k = 2
BY GeneratorsAssumption DEF Generators, Choices

LEMMA BeginIsFirst ==
    ASSUME NEW g \in Generators, g.kind # "subset"
    PROVE  /\ Begin(g) \in Expected(g) \cup {End(g)}
           /\ \A s \in Expected(g) : ~Before(g.k, s, Begin(g))
<1>1. CASE g.kind = "choice"
    <2>1. g.n \in Nat /\ g.k \in 1..g.n
        BY <1>1, Kinds
    <2>2. Begin(g) = ChoiceBegin(g.n, g.k) /\ Expected(g) = Increasing(g.n, g.k)
        BY <1>1 DEF Begin, Expected
    <2>. QED
        BY <2>1, <2>2, ChoiceBeginIsFirst
<1>2. CASE g.kind = "pair"
    <2>1. g.n \in Nat \ {0} /\ g.k = 2
        BY <1>2, Kinds
    <2>2. /\ Begin(g) = PairBegin /\ End(g) = PairEnd(g.n)
          /\ Expected(g) = Increasing(g.n, 2)
        BY <1>2, <2>1 DEF Begin, End, Expected
    <2>. QED
        BY <2>1, <2>2, PairBeginAndEnd
<1>. QED
    BY <1>1, <1>2, Kinds

LEMMA EndIsLast ==
    ASSUME NEW g \in Generators, g.kind # "subset", NEW s \in Expected(g)
    PROVE  Before(g.k, s, End(g))
<1>1. CASE g.kind = "choice"
    <2>1. g.n \in Nat /\ g.k \in 1..g.n
        BY <1>1, Kinds
    <2>2. /\ End(g) = GenerateEndCombination(g.n, g.k)
          /\ s \in Increasing(g.n, g.k)
        BY <1>1 DEF End, Expected
    <2>. QED
        BY <2>1, <2>2, ChoiceEndIsLast
<1>2. CASE g.kind = "pair"
    <2>1. g.n \in Nat \ {0} /\ g.k = 2
        BY <1>2, Kinds
    <2>2. End(g) = PairEnd(g.n) /\ s \in Increasing(g.n, 2)
        BY <1>2, <2>1 DEF End, Expected
    <2>. QED
        BY <2>1, <2>2, PairBeginAndEnd
<1>. QED
    BY <1>1, <1>2, Kinds

LEMMA IncrementIsNext ==
    ASSUME NEW g \in Generators, g.kind # "subset", NEW c \in Expected(g)
    PROVE  /\ Increment(g, c) \in Expected(g) \cup {End(g)}
           /\ \A s \in Expected(g) :
                 Before(g.k, s, Increment(g, c)) <=> Before(g.k, s, c) \/ s = c
<1>1. CASE g.kind = "choice"
    <2>1. g.n \in Nat /\ g.k \in 1..g.n
        BY <1>1, Kinds
    <2>2. /\ End(g) = GenerateEndCombination(g.n, g.k)
          /\ Increment(g, c) = ChoiceNext(g.n, g.k, c)
          /\ Expected(g) = Increasing(g.n, g.k)
        BY <1>1 DEF End, Increment, Expected
    <2>. QED
        BY <2>1, <2>2, ChoiceNextIsNext
<1>2. CASE g.kind = "pair"
    <2>1. g.n \in Nat \ {0} /\ g.k = 2
        BY <1>2, Kinds
    <2>2. /\ End(g) = PairEnd(g.n)
          /\ Increment(g, c) = PairNext(g.n, c)
          /\ Expected(g) = Increasing(g.n, 2)
        BY <1>2, <2>1 DEF End, Increment, Expected
    <2>. QED
        BY <2>1, <2>2, PairNextIsNext
<1>. QED
    BY <1>1, <1>2, Kinds

\* Nothing comes before itself.
LEMMA BeforeIsIrreflexive ==
    ASSUME NEW g \in Generators, g.kind # "subset", NEW c \in Expected(g)
    PROVE  ~Before(g.k, c, c)
<1>1. g.k \in Nat /\ c \in [1..g.k -> Int]
    BY Kinds DEF Expected, Increasing
<1>. QED
    BY <1>1 DEF Before

-----------------------------------------------------------------------------
(* The loop                                                                *)

\* The iterator of choices and pairs stands behind exactly what the body has
\* seen; that of subsets has counted through the states of what it has seen.
Position ==
    /\ gen \in Generators
    /\ twice = FALSE
    /\ gen.kind # "subset" =>
          /\ it \in Expected(gen) \cup {End(gen)}
          /\ seen = {s \in Expected(gen) : Before(gen.k, s, it)}
    /\ gen.kind = "subset" =>
          /\ it \in 0..SubsetEnd(gen.n)
          /\ seen = {SubsetAt(s) : s \in 0..(it - 1)}

LEMMA SubsetGenerator ==
    ASSUME NEW g \in Generators, g.kind = "subset"
    PROVE  /\ g.n \in Nat /\ SubsetEnd(g.n) \in Nat \ {0}
           /\ Begin(g) = 0 /\ End(g) = SubsetEnd(g.n)
           /\ Expected(g) = Subsets(g.n)
           /\ \A i : At(g, i) = SubsetAt(i) /\ Increment(g, i) = i + 1
<1>1. g.n \in Nat
    BY GeneratorsAssumption DEF Generators, Choices
<1>2. SubsetEnd(g.n) \in Nat \ {0}
    BY <1>1, ShiftedFacts DEF SubsetEnd
<1>3. Begin(g) = 0 /\ End(g) = SubsetEnd(g.n)
    BY DEF Begin, End, SubsetBegin
<1>4. Expected(g) = Subsets(g.n)
    BY DEF Expected, Subsets
<1>5. \A i : At(g, i) = SubsetAt(i) /\ Increment(g, i) = i + 1
    BY DEF At, Increment
<1>. QED
    BY <1>1, <1>2, <1>3, <1>4, <1>5

LEMMA InitPosition == Init => Position
<1>. SUFFICES ASSUME Init PROVE Position
    OBVIOUS
<1>1. gen \in Generators /\ it = Begin(gen) /\ seen = {} /\ twice = FALSE
    BY DEF Init
<1>2. CASE gen.kind # "subset"
    BY <1>1, <1>2, BeginIsFirst DEF Position
<1>3. CASE gen.kind = "subset"
    <2>1. it = 0 /\ SubsetEnd(gen.n) \in Nat
        BY <1>1, <1>3, SubsetGenerator
    <2>2. {SubsetAt(s) : s \in 0..(it - 1)} = {}
        BY <2>1
    <2>. QED
        BY <1>1, <1>3, <2>1, <2>2 DEF Position
<1>. QED
    BY <1>2, <1>3

LEMMA BodyKeepsPosition == Position /\ Body => Position'
<1>. SUFFICES ASSUME Position, Body PROVE Position'
    OBVIOUS
<1>1. gen' = gen /\ gen \in Generators /\ twice = FALSE
    BY DEF Position, Body
<1>2. CASE gen.kind = "subset"
    <2>1. /\ it \in 0..SubsetEnd(gen.n) /\ it # SubsetEnd(gen.n)
          /\ seen = {SubsetAt(s) : s \in 0..(it - 1)}
          /\ seen' = seen \cup {SubsetAt(it)} /\ it' = it + 1
          /\ twice' = (twice \/ SubsetAt(it) \in seen)
        BY <1>1, <1>2, SubsetGenerator DEF Position, Body
    <2>2. gen.n \in Nat /\ SubsetEnd(gen.n) \in Nat
        BY <1>1, <1>2, SubsetGenerator
    <2>3. it \in Nat /\ it' \in 0..SubsetEnd(gen.n)
        BY <2>1, <2>2
    <2>4. SubsetAt(it) \notin seen
        <3>1. ASSUME NEW s \in 0..(it - 1), SubsetAt(s) = SubsetAt(it)
              PROVE  FALSE
            <4>1. s \in Nat /\ s # it
                BY <2>3
            <4>. QED
                BY <2>2, <2>3, <3>1, <4>1, SubsetStates
        <3>. QED
            BY <2>1, <3>1
    <2>5. seen' = {SubsetAt(s) : s \in 0..(it' - 1)}
        <3>1. 0..(it' - 1) = (0..(it - 1)) \cup {it}
            BY <2>1, <2>3
        <3>. QED
            BY <2>1, <3>1
    <2>6. twice' = FALSE
        BY <1>1, <2>1, <2>4
    <2>. QED
        BY <1>1, <1>2, <2>3, <2>5, <2>6 DEF Position
<1>3. CASE gen.kind # "subset"
    <2>. DEFINE E == Expected(gen)
                c == it
                d == Increment(gen, c)
    <2>1. /\ c \in E /\ it' = d
          /\ seen' = seen \cup {c}
          /\ twice' = (twice \/ c \in seen)
        BY <1>3 DEF Position, Body, At
    <2>2. d \in E \cup {End(gen)}
        BY <1>1, <1>3, <2>1, IncrementIsNext
    <2>3. \A s \in E : Before(gen.k, s, d) <=> Before(gen.k, s, c) \/ s = c
        BY <1>1, <1>3, <2>1, IncrementIsNext
    <2>4. seen = {s \in E : Before(gen.k, s, c)} /\ twice = FALSE
        BY <1>3 DEF Position
    <2>5. ~Before(gen.k, c, c)
        BY <1>1, <1>3, <2>1, BeforeIsIrreflexive
    <2>. HIDE DEF E, c, d
    <2>6. seen' = {s \in E : Before(gen.k, s, d)}
        BY <2>1, <2>3, <2>4
    <2>7. twice' = FALSE
        BY <2>1, <2>4, <2>5
    <2>. QED
        BY <1>1, <1>3, <2>1, <2>2, <2>6, <2>7 DEF Position, E
<1>. QED
    BY <1>2, <1>3

LEMMA PositionInvariance == Spec => []Position
<1>1. Position /\ [Next]_vars => Position'
    <2>1. Position /\ UNCHANGED vars => Position'
        BY DEF Position, vars
    <2>. QED
        BY <2>1, BodyKeepsPosition DEF Next, Done
<1>. QED
    BY <1>1, InitPosition, PTL DEF Spec

\* Whatever the number of elements, the loops over choices, pairs and subsets
\* (enumerating deleted edges, pairs of vertices or of parts, garlands) only see
\* what the generator stands for, and nothing twice.
THEOREM LoopsSeeNothingElse == Spec => []OnlyExpectedValues
<1>1. Position => OnlyExpectedValues
    <2>. SUFFICES ASSUME Position PROVE OnlyExpectedValues
        OBVIOUS
    <2>1. CASE gen.kind # "subset"
        BY <2>1 DEF Position, OnlyExpectedValues
    <2>2. CASE gen.kind = "subset"
        <3>1. /\ gen.n \in Nat /\ SubsetEnd(gen.n) \in Nat
              /\ Expected(gen) = Subsets(gen.n)
            BY <2>2, SubsetGenerator DEF Position
        <3>2. /\ it \in 0..SubsetEnd(gen.n) /\ twice = FALSE
              /\ seen = {SubsetAt(s) : s \in 0..(it - 1)}
            BY <2>2 DEF Position
        <3>3. \A s \in 0..(it - 1) : s \in Nat /\ s < SubsetEnd(gen.n)
            BY <3>1, <3>2
        <3>4. seen \subseteq Expected(gen)
            BY <3>1, <3>2, <3>3, SubsetStates
        <3>. QED
            BY <3>2, <3>4 DEF OnlyExpectedValues
    <2>. QED
        BY <2>1, <2>2
<1>. QED
    BY <1>1, PositionInvariance, PTL

\* When such a loop ends, its body has seen everything the generator stands for.
THEOREM LoopsSeeEverything == Spec => []AllValuesAtTheEnd
<1>1. Position => AllValuesAtTheEnd
    <2>. SUFFICES ASSUME Position, it = End(gen) PROVE Expected(gen) \subseteq seen
        BY DEF AllValuesAtTheEnd
    <2>1. CASE gen.kind # "subset"
        BY <2>1, EndIsLast DEF Position
    <2>2. CASE gen.kind = "subset"
        <3>1. /\ gen.n \in Nat /\ SubsetEnd(gen.n) \in Nat
              /\ Expected(gen) = Subsets(gen.n) /\ it = SubsetEnd(gen.n)
            BY <2>2, SubsetGenerator DEF Position
        <3>2. seen = {SubsetAt(s) : s \in 0..(it - 1)}
            BY <2>2 DEF Position
        <3>3. ASSUME NEW c \in Expected(gen) PROVE c \in seen
            <4>1. PICK s \in Nat : s < SubsetEnd(gen.n) /\ SubsetAt(s) = c
                BY <3>1, SubsetStates
            <4>2. s \in 0..(it - 1)
                BY <3>1, <4>1
            <4>. QED
                BY <3>2, <4>1, <4>2
        <3>. QED
            BY <3>3
    <2>. QED
        BY <2>1, <2>2
<1>. QED
    BY <1>1, PositionInvariance, PTL

=============================================================================
