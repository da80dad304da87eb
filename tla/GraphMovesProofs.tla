-------------------------- MODULE GraphMovesProofs --------------------------
(***************************************************************************)
(* Proofs about GraphMoves and what DenseGraphs says of it, for every      *)
(* complete multipartite graph and any deleted edges: what the programs    *)
(* reach is a graph, ContractEdge is contraction, I2, I3, I4, Pt and       *)
(* CountAcyclicOrientations count what they are supposed to count, and     *)
(* SwapVerticesInplace changes none of the invariants that are cached.     *)
(*                                                                         *)
(* ContractEdge is three renamings of vertices: the ends of the edge are   *)
(* exchanged with the last vertices of their parts, the new vertex takes   *)
(* the place of both, and the parts behind an empty one move forward.  An  *)
(* injective renaming of vertices changes no adjacency.                    *)
(*                                                                         *)
(* The counts compare a sum with the size of a set.  The set is counted by *)
(* a key (CountByKey), or is as large as a set of pairs of what the sum    *)
(* runs over and what each of its terms counts (CountTagged).              *)
(*                                                                         *)
(* Pt counts the partitions into one more stable set than there are parts. *)
(* One that uses no deleted edge halves a single part (HalvedArePartitions)*)
(* and any other one is the mark of a garland: the deleted edges inside    *)
(* its blocks (GarlandsArePartitions).                                     *)
(*                                                                         *)
(* Orientations without cycles are those in which every set of vertices    *)
(* has a sink.  They are counted by deletion and contraction, down to      *)
(* complete graphs, and there by their sinks, which are in one part.       *)
(***************************************************************************)
EXTENDS DenseGraphs, FiniteSetTheorems, SequenceTheorems, TLAPS

\* A graph as a record of its parts and deleted edges.
IsGraph(g) ==
    /\ g.parts \in Seq(Nat \ {0})
    /\ g.deleted \subseteq AllEdges(g.parts)

-----------------------------------------------------------------------------
(* Vertices and edges                                                      *)

LEMMA VertexFacts ==
  ASSUME NEW p
  PROVE  /\ \A c \in DOMAIN p : \A i \in 1..p[c] : <<c, i>> \in Vertices(p)
         /\ \A x \in Vertices(p) :
               /\ x = <<Part(x), x[2]>>
               /\ Part(x) \in DOMAIN p /\ x[2] \in 1..p[Part(x)]
BY DEF Vertices, VerticesOf, Part

LEMMA VerticesAreFinite ==
  ASSUME NEW p \in Seq(Nat)
  PROVE  IsFiniteSet(Vertices(p))
<1> DEFINE sets == {VerticesOf(p, c) : c \in DOMAIN p}
<1>1. DOMAIN p = 1..Len(p) /\ IsFiniteSet(1..Len(p))
  BY FS_Interval
<1>2. IsFiniteSet(sets)
  <2> DEFINE f == [c \in DOMAIN p |-> VerticesOf(p, c)]
  <2>1. f \in Surjection(DOMAIN p, sets)
    BY DEF Surjection
  <2> HIDE DEF f, sets
  <2> QED
    BY <1>1, <2>1, FS_Surjection
<1>3. ASSUME NEW c \in DOMAIN p
      PROVE  IsFiniteSet(VerticesOf(p, c))
  <2> DEFINE f == [i \in 1..p[c] |-> <<c, i>>]
  <2>1. f \in Surjection(1..p[c], VerticesOf(p, c))
    BY DEF Surjection, VerticesOf
  <2>2. IsFiniteSet(1..p[c])
    <3>1. p[c] \in Nat
      BY <1>1
    <3> QED
      BY <3>1, FS_Interval
  <2> HIDE DEF f
  <2> QED
    BY <2>1, <2>2, FS_Surjection
<1>4. \A T \in sets : IsFiniteSet(T)
  BY <1>3
<1> HIDE DEF sets
<1>5. IsFiniteSet(UNION sets)
  BY <1>2, <1>4, FS_UNION
<1> QED
  BY <1>5 DEF Vertices, sets

LEMMA PairsHaveTwo ==
  /\ \A x, y : x # y => Cardinality({x, y}) = 2
  /\ \A S : IsFiniteSet(S) /\ Cardinality(S) = 2 =>
        \E x, y \in S : x # y /\ S = {x, y}
<1>1. ASSUME NEW x, NEW y, x # y
      PROVE  Cardinality({x, y}) = 2
  <2>1. IsFiniteSet({x}) /\ Cardinality({x}) = 1
    BY FS_Singleton
  <2>2. Cardinality({x} \cup {y}) = 2
    BY <1>1, <2>1, FS_AddElement
  <2>3. {x} \cup {y} = {x, y}
    OBVIOUS
  <2> QED
    BY <2>2, <2>3
<1>2. ASSUME NEW S, IsFiniteSet(S), Cardinality(S) = 2
      PROVE  \E x, y \in S : x # y /\ S = {x, y}
  <2>1. PICK x \in S : TRUE
    BY <1>2, FS_EmptySet
  <2>2. IsFiniteSet(S \ {x}) /\ Cardinality(S \ {x}) = 1
    BY <1>2, FS_RemoveElement
  <2>3. PICK y : S \ {x} = {y}
    BY <2>2, FS_Singleton
  <2>4. y \in S /\ y # x /\ S = {x, y}
    BY <2>3
  <2> QED
    BY <2>4
<1> QED
  BY <1>1, <1>2

\* The edges of the complete graph are the pairs of vertices of two parts.
LEMMA EdgesArePairs ==
  ASSUME NEW p \in Seq(Nat)
  PROVE  /\ \A x, y \in Vertices(p) :
               {x, y} \in AllEdges(p) <=> Part(x) # Part(y)
         /\ \A e \in AllEdges(p) : \E x, y \in Vertices(p) :
               Part(x) # Part(y) /\ e = {x, y}
<1> DEFINE V == Vertices(p)
<1>1. IsFiniteSet(V)
  BY VerticesAreFinite
<1> HIDE DEF V
<1>2. AllEdges(p) = {e \in SUBSET V : /\ Cardinality(e) = 2
                                      /\ \A x, y \in e :
                                            x # y => Part(x) # Part(y)}
  BY DEF AllEdges, kSubset, V
<1>3. ASSUME NEW x \in V, NEW y \in V
      PROVE  {x, y} \in AllEdges(p) <=> Part(x) # Part(y)
  <2>1. CASE x = y
    <3>1. Cardinality({x, y}) = 1
      <4>1. {x, y} = {x}
        BY <2>1
      <4> QED
        BY <4>1, FS_Singleton
    <3> QED
      BY <1>2, <2>1, <3>1
  <2>2. CASE x # y
    <3>1. Cardinality({x, y}) = 2
      BY <2>2, PairsHaveTwo
    <3> QED
      BY <1>2, <2>2, <3>1
  <2> QED
    BY <2>1, <2>2
<1>4. ASSUME NEW e \in AllEdges(p)
      PROVE  \E x, y \in V : Part(x) # Part(y) /\ e = {x, y}
  <2>1. e \in SUBSET V /\ Cardinality(e) = 2
    BY <1>2
  <2>2. IsFiniteSet(e)
    BY <1>1, <2>1, FS_Subset
  <2>3. PICK x, y \in e : x # y /\ e = {x, y}
    BY <2>1, <2>2, PairsHaveTwo
  <2> QED
    BY <1>2, <2>1, <2>3
<1> QED
  BY <1>3, <1>4 DEF V

-----------------------------------------------------------------------------
(* Renaming                                                                *)

OneToOne(f, V) == \A x, y \in V : f[x] = f[y] => x = y
Renames(f, e) == {f[x] : x \in e}
RenamesAll(f, E) == {Renames(f, e) : e \in E}

LEMMA RenamesPair ==
  ASSUME NEW f, NEW x, NEW y
  PROVE  Renames(f, {x, y}) = {f[x], f[y]}
BY DEF Renames

\* Renamed one to one, sets stay different.
LEMMA RenamesOneToOne ==
  ASSUME NEW V, NEW f, OneToOne(f, V),
         NEW E \in SUBSET (SUBSET V), NEW e \in SUBSET V
  PROVE  Renames(f, e) \in RenamesAll(f, E) <=> e \in E
<1>1. ASSUME NEW d \in SUBSET V, Renames(f, d) = Renames(f, e)
      PROVE  d = e
  <2>1. ASSUME NEW x \in d PROVE x \in e
    <3>1. f[x] \in Renames(f, e)
      BY <1>1, <2>1 DEF Renames
    <3>2. PICK y \in e : f[y] = f[x]
      BY <3>1 DEF Renames
    <3> QED
      BY <3>2 DEF OneToOne
  <2>2. ASSUME NEW x \in e PROVE x \in d
    <3>1. f[x] \in Renames(f, d)
      BY <1>1, <2>2 DEF Renames
    <3>2. PICK y \in d : f[y] = f[x]
      BY <3>1 DEF Renames
    <3> QED
      BY <3>2 DEF OneToOne
  <2> QED
    BY <2>1, <2>2
<1> QED
  BY <1>1 DEF RenamesAll

\* One renaming after another is a renaming.
IsComposed(h, g, f, V) == \A x \in V : h[x] = g[f[x]]

LEMMA RenamesCompose ==
  ASSUME NEW V, NEW E \in SUBSET (SUBSET V), NEW f, NEW g, NEW h,
         IsComposed(h, g, f, V)
  PROVE  RenamesAll(g, RenamesAll(f, E)) = RenamesAll(h, E)
<1>1. ASSUME NEW e \in E
      PROVE  Renames(g, Renames(f, e)) = Renames(h, e)
  BY DEF Renames, IsComposed
<1> QED
  BY <1>1 DEF RenamesAll

LEMMA RenamesWithin ==
  ASSUME NEW V, NEW U, NEW f, \A x \in V : f[x] \in U,
         NEW E \in SUBSET (SUBSET V)
  PROVE  RenamesAll(f, E) \in SUBSET (SUBSET U)
BY DEF RenamesAll, Renames

\* A renaming that keeps the edges of one graph takes it to the other.
Onto(f, A, B) == /\ \A x \in A : f[x] \in B
                 /\ \A y \in B : \E x \in A : f[x] = y
ArePairs(E, A) == \A e \in E : \E x, y \in A : x # y /\ e = {x, y}
KeepsEdges(f, A, E, E2) ==
    \A x, y \in A : x # y => ({x, y} \in E <=> {f[x], f[y]} \in E2)

LEMMA SameEdges ==
  ASSUME NEW A, NEW B, NEW f,
         NEW E, NEW E2, Onto(f, A, B), ArePairs(E, A), ArePairs(E2, B),
         KeepsEdges(f, A, E, E2)
  PROVE  RenamesAll(f, E) = E2
<1>1. ASSUME NEW e \in E PROVE Renames(f, e) \in E2
  <2>1. PICK x, y \in A : x # y /\ e = {x, y}
    BY DEF ArePairs
  <2>2. {x, y} \in E /\ {f[x], f[y]} \in E2
    BY <2>1 DEF KeepsEdges
  <2>3. Renames(f, {x, y}) = {f[x], f[y]}
    BY RenamesPair
  <2> QED
    BY <2>1, <2>2, <2>3
<1>2. ASSUME NEW d \in E2 PROVE \E e \in E : d = Renames(f, e)
  <2>1. PICK x, y \in B : x # y /\ d = {x, y}
    BY DEF ArePairs
  <2>2. PICK s \in A : f[s] = x
    BY DEF Onto
  <2>3. PICK t \in A : f[t] = y
    BY DEF Onto
  <2>4. s # t /\ d = {f[s], f[t]}
    BY <2>1, <2>2, <2>3
  <2>5. {s, t} \in E
    BY <2>4 DEF KeepsEdges
  <2>6. Renames(f, {s, t}) = {f[s], f[t]}
    BY RenamesPair
  <2> QED
    BY <2>4, <2>5, <2>6
<1>3. \A d : d \in RenamesAll(f, E) <=> \E e \in E : d = Renames(f, e)
  BY DEF RenamesAll
<1> QED
  BY <1>1, <1>2, <1>3

-----------------------------------------------------------------------------
(* The parts that are left, and where                                      *)

LEMMA RemoveAtFacts ==
  ASSUME NEW S, NEW s \in Seq(S), NEW i \in 1..Len(s)
  PROVE  /\ RemoveAt(s, i) \in Seq(S)
         /\ Len(RemoveAt(s, i)) = Len(s) - 1
         /\ \A j \in 1..(Len(s) - 1) :
               RemoveAt(s, i)[j] = IF j < i THEN s[j] ELSE s[j + 1]
<1> DEFINE left == SubSeq(s, 1, i - 1)
           right == SubSeq(s, i + 1, Len(s))
<1>0. Len(s) \in Nat /\ \A j \in 1..Len(s) : s[j] \in S
  OBVIOUS
<1>1. /\ left \in Seq(S) /\ Len(left) = i - 1
      /\ \A j \in 1..(i - 1) : left[j] = s[j]
  <2>1. /\ 1 \in Int /\ i - 1 \in Int /\ \A j \in 1..(i - 1) : s[j] \in S
        /\ i - 1 - 1 + 1 = i - 1
        /\ \A j \in 1..(i - 1) : 1 + j - 1 = j
        /\ i - 1 >= 0
    BY <1>0
  <2>2. /\ left \in Seq(S)
        /\ Len(left) = IF 1 <= i - 1 THEN i - 1 - 1 + 1 ELSE 0
        /\ \A j \in 1..(i - 1 - 1 + 1) : left[j] = s[1 + j - 1]
    BY <2>1, SubSeqProperties
  <2> HIDE DEF left
  <2> QED
    BY <2>1, <2>2
<1>2. /\ right \in Seq(S) /\ Len(right) = Len(s) - i
      /\ \A j \in 1..(Len(s) - i) : right[j] = s[i + j]
  <2>1. /\ i + 1 \in Int /\ Len(s) \in Int
        /\ \A j \in (i + 1)..Len(s) : s[j] \in S
        /\ Len(s) - (i + 1) + 1 = Len(s) - i
        /\ \A j \in 1..(Len(s) - i) : i + 1 + j - 1 = i + j
        /\ Len(s) - i >= 0
    BY <1>0
  <2>2. /\ right \in Seq(S)
        /\ Len(right) = IF i + 1 <= Len(s) THEN Len(s) - (i + 1) + 1 ELSE 0
        /\ \A j \in 1..(Len(s) - (i + 1) + 1) : right[j] = s[i + 1 + j - 1]
    BY <2>1, SubSeqProperties
  <2> HIDE DEF right
  <2>3. Len(right) = Len(s) - i
    <3>1. CASE i + 1 <= Len(s)
      BY <2>1, <2>2, <3>1
    <3>2. CASE ~(i + 1 <= Len(s))
      <4>1. Len(s) - i = 0
        BY <1>0, <3>2
      <4> QED
        BY <2>2, <3>2, <4>1
    <3> QED
      BY <3>1, <3>2
  <2>4. ASSUME NEW j \in 1..(Len(s) - i)
        PROVE  right[j] = s[i + j]
    BY <2>1, <2>2
  <2> QED
    BY <2>2, <2>3, <2>4
<1>3. RemoveAt(s, i) = left \o right
  BY DEF RemoveAt
<1> HIDE DEF left, right
<1>4. /\ left \o right \in Seq(S)
      /\ Len(left \o right) = Len(left) + Len(right)
      /\ \A j \in 1..(Len(left) + Len(right)) :
            (left \o right)[j] = IF j <= Len(left) THEN left[j]
                                 ELSE right[j - Len(left)]
  BY <1>1, <1>2, ConcatProperties
<1>5. Len(left) + Len(right) = Len(s) - 1
  BY <1>0, <1>1, <1>2
<1>6. ASSUME NEW j \in 1..(Len(s) - 1)
      PROVE  (left \o right)[j] = IF j < i THEN s[j] ELSE s[j + 1]
  <2>1. (left \o right)[j] = IF j <= i - 1 THEN left[j]
                             ELSE right[j - (i - 1)]
    BY <1>1, <1>4, <1>5
  <2>2. CASE j < i
    <3>1. j \in 1..(i - 1)
      BY <2>2
    <3> QED
      BY <1>1, <2>1, <2>2, <3>1
  <2>3. CASE ~(j < i)
    <3>1. /\ j - (i - 1) \in 1..(Len(s) - i) /\ ~(j <= i - 1)
          /\ i + (j - (i - 1)) = j + 1
      BY <1>0, <2>3
    <3>2. right[j - (i - 1)] = s[i + (j - (i - 1))]
      BY <1>2, <3>1
    <3> QED
      BY <2>1, <2>3, <3>1, <3>2
  <2> QED
    BY <2>2, <2>3
<1> QED
  BY <1>3, <1>4, <1>5, <1>6

\* Of two parts, those that are empty without one vertex; and the index of
\* part c when they are erased.
Vanished(p, a, b) == {c \in {a, b} : p[c] = 1}
Place(p, a, b, c) == c - Cardinality({d \in Vanished(p, a, b) : d < c})
Gone(p, c) == IF p[c] = 1 THEN 1 ELSE 0
GoneBefore(p, d, c) == IF p[d] = 1 /\ d < c THEN 1 ELSE 0

LEMMA PlaceIs ==
  ASSUME NEW p, NEW a \in Nat, NEW b \in Nat, a # b, NEW c \in Nat
  PROVE  Place(p, a, b, c)
             = c - GoneBefore(p, a, c) - GoneBefore(p, b, c)
<1> DEFINE S == {d \in Vanished(p, a, b) : d < c}
           A == p[a] = 1 /\ a < c
           B == p[b] = 1 /\ b < c
<1>1. \A d : d \in S <=> (A /\ d = a) \/ (B /\ d = b)
  BY DEF Vanished
<1>0. a # b
  OBVIOUS
<1> HIDE DEF S, A, B
<1>2. Cardinality(S) = (IF A THEN 1 ELSE 0) + (IF B THEN 1 ELSE 0)
  <2>1. CASE A /\ B
    <3>1. S = {a, b}
      BY <1>1, <2>1
    <3> QED
      BY <1>0, <2>1, <3>1, PairsHaveTwo
  <2>2. CASE A /\ ~B
    <3>1. S = {a}
      BY <1>1, <2>2
    <3>2. Cardinality(S) = 1
      BY <3>1, FS_Singleton
    <3> QED
      BY <2>2, <3>2
  <2>3. CASE ~A /\ B
    <3>1. S = {b}
      BY <1>1, <2>3
    <3>2. Cardinality(S) = 1
      BY <3>1, FS_Singleton
    <3> QED
      BY <2>3, <3>2
  <2>4. CASE ~A /\ ~B
    <3>1. S = {}
      BY <1>1, <2>4
    <3> QED
      BY <2>4, <3>1, FS_EmptySet
  <2> QED
    BY <2>1, <2>2, <2>3, <2>4
<1>3. /\ GoneBefore(p, a, c) = IF A THEN 1 ELSE 0
      /\ GoneBefore(p, b, c) = IF B THEN 1 ELSE 0
  BY DEF GoneBefore, A, B
<1>4. c - Cardinality(S) = c - GoneBefore(p, a, c) - GoneBefore(p, b, c)
  BY <1>2, <1>3
<1> QED
  BY <1>4 DEF Place, S

LEMMA EraseIfEmptyFacts ==
  ASSUME NEW s \in Seq(Nat), NEW c \in 1..Len(s)
  PROVE  /\ EraseIfEmpty(s, c) \in Seq(Nat)
         /\ Len(EraseIfEmpty(s, c)) = Len(s) - (IF s[c] = 0 THEN 1 ELSE 0)
         /\ \A j \in 1..(Len(s) - (IF s[c] = 0 THEN 1 ELSE 0)) :
               EraseIfEmpty(s, c)[j]
                   = s[IF s[c] = 0 /\ j >= c THEN j + 1 ELSE j]
<1>1. CASE s[c] = 0
  <2>1. EraseIfEmpty(s, c) = RemoveAt(s, c) /\ (IF s[c] = 0 THEN 1 ELSE 0) = 1
    BY <1>1 DEF EraseIfEmpty
  <2>2. /\ RemoveAt(s, c) \in Seq(Nat)
        /\ Len(RemoveAt(s, c)) = Len(s) - 1
        /\ \A j \in 1..(Len(s) - 1) :
              RemoveAt(s, c)[j] = IF j < c THEN s[j] ELSE s[j + 1]
    BY RemoveAtFacts
  <2>3. \A j \in 1..(Len(s) - 1) : j < c <=> ~(j >= c)
    OBVIOUS
  <2> QED
    BY <1>1, <2>1, <2>2, <2>3
<1>2. CASE s[c] # 0
  <2>1. /\ EraseIfEmpty(s, c) = s
        /\ (IF s[c] = 0 THEN 1 ELSE 0) = 0 /\ Len(s) - 0 = Len(s)
    BY <1>2 DEF EraseIfEmpty
  <2> QED
    BY <1>2, <2>1
<1> QED
  BY <1>1, <1>2

\* The parts before they are erased, and which of them are left.
Shrunk(p, a, b) == Append([p EXCEPT ![a] = @ - 1, ![b] = @ - 1], 1)
Kept(p, a, b) == (1..(Len(p) + 1)) \ Vanished(p, a, b)

\* q is p with a vertex less in a and b, and a new part at the end.
IsShrunk(q, p, a, b) ==
    /\ q \in Seq(Nat) /\ Len(q) = Len(p) + 1 /\ q[Len(p) + 1] = 1
    /\ \A c \in 1..Len(p) : q[c] = IF c \in {a, b} THEN p[c] - 1 ELSE p[c]

LEMMA ShrunkFacts ==
  ASSUME NEW p \in Seq(Nat \ {0}), NEW a \in 1..Len(p), NEW b \in 1..Len(p),
         a # b
  PROVE  IsShrunk(Shrunk(p, a, b), p, a, b)
<1> DEFINE s == [p EXCEPT ![a] = @ - 1, ![b] = @ - 1]
<1>1. \A c \in 1..Len(p) : p[c] \in Nat \ {0} /\ p[c] - 1 \in Nat
  OBVIOUS
<1>2. s = [c \in 1..Len(p) |-> IF c \in {a, b} THEN p[c] - 1 ELSE p[c]]
  <2>1. DOMAIN p = 1..Len(p) /\ a # b
    OBVIOUS
  <2>2. s = [c \in DOMAIN p |->
               IF c = b THEN [p EXCEPT ![a] = @ - 1][b] - 1
               ELSE [p EXCEPT ![a] = @ - 1][c]]
    OBVIOUS
  <2>3. \A c \in DOMAIN p :
           [p EXCEPT ![a] = @ - 1][c] = IF c = a THEN p[a] - 1 ELSE p[c]
    OBVIOUS
  <2> QED
    BY <2>1, <2>2, <2>3
<1>3. s \in [1..Len(p) -> Nat] /\ Len(p) \in Nat
  BY <1>1, <1>2
<1>4. s \in Seq(Nat) /\ Len(s) = Len(p)
  BY <1>3
<1>5. \A c \in 1..Len(p) : s[c] = IF c \in {a, b} THEN p[c] - 1 ELSE p[c]
  BY <1>2
<1> HIDE DEF s
<1>6. /\ Append(s, 1) \in Seq(Nat) /\ Len(Append(s, 1)) = Len(p) + 1
      /\ Append(s, 1)[Len(p) + 1] = 1
      /\ \A c \in 1..Len(p) : Append(s, 1)[c] = s[c]
  <2>1. /\ Append(s, 1) \in Seq(Nat) /\ Len(Append(s, 1)) = Len(s) + 1
        /\ \A c \in 1..Len(s) : Append(s, 1)[c] = s[c]
        /\ Append(s, 1)[Len(s) + 1] = 1
    <3>1. s \in Seq(Nat) /\ 1 \in Nat
      BY <1>4
    <3> QED
      BY <3>1, AppendProperties
  <2> QED
    BY <1>4, <2>1
<1> QED
  BY <1>5, <1>6 DEF IsShrunk, Shrunk, s

\* What remains of the parts, for a < b: part j was part Origin(p, a, b, j).
Origin(p, a, b, j) ==
    LET i == IF p[b] = 1 /\ j >= (IF p[a] = 1 THEN b - 1 ELSE b)
             THEN j + 1 ELSE j
    IN  IF p[a] = 1 /\ i >= a THEN i + 1 ELSE i
Size(p, a, b) == Len(p) + 1 - Gone(p, a) - Gone(p, b)

LEMMA OriginFacts ==
  ASSUME NEW p \in Seq(Nat \ {0}), NEW a \in 1..Len(p), NEW b \in 1..Len(p),
         a < b
  PROVE  /\ \A j \in 1..Size(p, a, b) :
               /\ Origin(p, a, b, j) \in Kept(p, a, b)
               /\ Place(p, a, b, Origin(p, a, b, j)) = j
         /\ \A c \in Kept(p, a, b) :
               /\ Place(p, a, b, c) \in 1..Size(p, a, b)
               /\ Origin(p, a, b, Place(p, a, b, c)) = c
<1>0. a \in Nat /\ b \in Nat /\ a # b /\ Len(p) \in Nat
  OBVIOUS
<1>1. ASSUME NEW j \in 1..Size(p, a, b)
      PROVE  /\ Origin(p, a, b, j) \in Kept(p, a, b)
             /\ Place(p, a, b, Origin(p, a, b, j)) = j
  <2> DEFINE o == Origin(p, a, b, j)
  <2>1. o \in Nat /\ o \in 1..(Len(p) + 1)
    BY <1>0 DEF Origin, Size, Gone, GoneBefore
  <2>2. o \in Kept(p, a, b)
    BY <1>0, <2>1 DEF Origin, Kept, Vanished, Size, Gone
  <2>3. Place(p, a, b, o)
            = o - GoneBefore(p, a, o) - GoneBefore(p, b, o)
    BY <1>0, <2>1, PlaceIs
  <2>4. o - GoneBefore(p, a, o) - GoneBefore(p, b, o) = j
    BY <1>0 DEF Origin, Size, Gone, GoneBefore
  <2> QED
    BY <2>2, <2>3, <2>4
<1>2. ASSUME NEW c \in Kept(p, a, b)
      PROVE  /\ Place(p, a, b, c) \in 1..Size(p, a, b)
             /\ Origin(p, a, b, Place(p, a, b, c)) = c
  <2>1. /\ c \in Nat /\ c \in 1..(Len(p) + 1)
    BY <1>0 DEF Kept, Vanished
  <2>2. (p[a] = 1 => c # a) /\ (p[b] = 1 => c # b)
    BY DEF Kept, Vanished
  <2> DEFINE q == c - GoneBefore(p, a, c) - GoneBefore(p, b, c)
  <2>3. Place(p, a, b, c) = q
    BY <1>0, <2>1, PlaceIs
  <2>4. q \in 1..Size(p, a, b)
    BY <1>0, <2>1, <2>2 DEF Size, Gone, GoneBefore
  <2>5. Origin(p, a, b, q) = c
    BY <1>0, <2>1, <2>2 DEF Origin, GoneBefore
  <2> QED
    BY <2>3, <2>4, <2>5
<1> QED
  BY <1>1, <1>2

LEMMA EraseBothFacts ==
  ASSUME NEW p \in Seq(Nat \ {0}), NEW a \in 1..Len(p), NEW b \in 1..Len(p),
         a < b
  PROVE  LET new == EraseBoth(Shrunk(p, a, b), a, b)
         IN  /\ new \in Seq(Nat) /\ Len(new) = Size(p, a, b)
             /\ \A j \in 1..Size(p, a, b) :
                   new[j] = Shrunk(p, a, b)[Origin(p, a, b, j)]
<1> DEFINE q == Shrunk(p, a, b)
           r == EraseIfEmpty(q, a)
           d == IF q[a] = 0 THEN b - 1 ELSE b
           new == EraseIfEmpty(r, d)
<1>0. /\ q \in Seq(Nat) /\ Len(q) = Len(p) + 1
      /\ q[a] = p[a] - 1 /\ q[b] = p[b] - 1
      /\ p[a] \in Nat \ {0} /\ p[b] \in Nat \ {0}
      /\ Len(p) \in Nat /\ a \in Nat /\ b \in Nat
      /\ a \in 1..Len(q) /\ b \in 1..Len(q)
  <2>1. /\ Len(p) \in Nat /\ a \in Nat /\ b \in Nat /\ a # b
        /\ p[a] \in Nat \ {0} /\ p[b] \in Nat \ {0}
    OBVIOUS
  <2>2. IsShrunk(q, p, a, b)
    BY <2>1, ShrunkFacts
  <2> HIDE DEF q
  <2>3. q \in Seq(Nat) /\ Len(q) = Len(p) + 1
    BY <2>2 DEF IsShrunk
  <2>4. q[a] = p[a] - 1 /\ q[b] = p[b] - 1
    BY <2>2 DEF IsShrunk
  <2> QED
    BY <2>1, <2>3, <2>4
<1>1. (q[a] = 0 <=> p[a] = 1) /\ (q[b] = 0 <=> p[b] = 1)
  BY <1>0
<1> HIDE DEF q
<1>2. /\ r \in Seq(Nat) /\ Len(r) = Len(p) + 1 - Gone(p, a)
      /\ \A j \in 1..(Len(p) + 1 - Gone(p, a)) :
            r[j] = q[IF p[a] = 1 /\ j >= a THEN j + 1 ELSE j]
  <2>1. /\ r \in Seq(Nat)
        /\ Len(r) = Len(q) - (IF q[a] = 0 THEN 1 ELSE 0)
        /\ \A j \in 1..(Len(q) - (IF q[a] = 0 THEN 1 ELSE 0)) :
              r[j] = q[IF q[a] = 0 /\ j >= a THEN j + 1 ELSE j]
    BY <1>0, EraseIfEmptyFacts
  <2> HIDE DEF r
  <2>2. Len(q) - (IF q[a] = 0 THEN 1 ELSE 0) = Len(p) + 1 - Gone(p, a)
    BY <1>0, <1>1 DEF Gone
  <2>3. ASSUME NEW j \in 1..(Len(p) + 1 - Gone(p, a))
        PROVE  r[j] = q[IF p[a] = 1 /\ j >= a THEN j + 1 ELSE j]
    <3>1. r[j] = q[IF q[a] = 0 /\ j >= a THEN j + 1 ELSE j]
      BY <2>1, <2>2
    <3> QED
      BY <1>1, <3>1
  <2> QED
    BY <2>1, <2>2, <2>3
<1> HIDE DEF r
<1>3. d \in 1..Len(r) /\ r[d] = q[b] /\ d = IF p[a] = 1 THEN b - 1 ELSE b
  <2>1. d = IF p[a] = 1 THEN b - 1 ELSE b
    BY <1>1
  <2>2. d \in 1..(Len(p) + 1 - Gone(p, a))
    BY <1>0, <2>1 DEF Gone
  <2>3. (IF p[a] = 1 /\ d >= a THEN d + 1 ELSE d) = b
    <3>1. a \in Nat /\ b \in Nat /\ a < b
      BY <1>0
    <3> HIDE DEF d
    <3>2. CASE p[a] = 1
      <4>1. d = b - 1 /\ d >= a /\ d + 1 = b
        BY <2>1, <3>1, <3>2
      <4> QED
        BY <3>2, <4>1
    <3>3. CASE p[a] # 1
      BY <2>1, <3>3
    <3> QED
      BY <3>2, <3>3
  <2> QED
    BY <1>2, <2>1, <2>2, <2>3
<1> HIDE DEF d
<1>4. /\ new \in Seq(Nat) /\ Len(new) = Len(r) - Gone(p, b)
      /\ \A j \in 1..(Len(r) - Gone(p, b)) :
            new[j] = r[IF p[b] = 1 /\ j >= d THEN j + 1 ELSE j]
  <2>1. /\ new \in Seq(Nat)
        /\ Len(new) = Len(r) - (IF r[d] = 0 THEN 1 ELSE 0)
        /\ \A j \in 1..(Len(r) - (IF r[d] = 0 THEN 1 ELSE 0)) :
              new[j] = r[IF r[d] = 0 /\ j >= d THEN j + 1 ELSE j]
    BY <1>2, <1>3, EraseIfEmptyFacts
  <2> HIDE DEF new
  <2>2. /\ (IF r[d] = 0 THEN 1 ELSE 0) = Gone(p, b)
        /\ r[d] = 0 <=> p[b] = 1
    BY <1>1, <1>3 DEF Gone
  <2> QED
    BY <2>1, <2>2
<1> HIDE DEF new
<1>5. Len(new) = Size(p, a, b)
  <2>1. Len(new) = (Len(p) + 1 - Gone(p, a)) - Gone(p, b)
    BY <1>2, <1>4
  <2>2. Len(p) \in Int /\ Gone(p, a) \in Int /\ Gone(p, b) \in Int
    BY <1>0 DEF Gone
  <2>3. Size(p, a, b) = (Len(p) + 1 - Gone(p, a)) - Gone(p, b)
    BY <2>2 DEF Size
  <2> QED
    BY <2>1, <2>3
<1>6. ASSUME NEW j \in 1..Size(p, a, b)
      PROVE  new[j] = q[Origin(p, a, b, j)]
  <2> DEFINE i == IF p[b] = 1 /\ j >= d THEN j + 1 ELSE j
  <2>1. new[j] = r[i]
    <3>1. Size(p, a, b) = Len(r) - Gone(p, b)
      BY <1>4, <1>5
    <3>2. j \in 1..(Len(r) - Gone(p, b))
      BY <3>1
    <3> QED
      BY <1>4, <3>2
  <2>2. i \in 1..(Len(p) + 1 - Gone(p, a))
    <3>1. Gone(p, a) \in {0, 1} /\ Len(p) \in Nat
      BY <1>0 DEF Gone
    <3>2. j \in 1..(Len(p) + 1 - Gone(p, a) - Gone(p, b))
      BY DEF Size
    <3>3. CASE p[b] = 1
      <4>1. Gone(p, b) = 1
        BY <3>3 DEF Gone
      <4>2. i \in {j, j + 1}
        OBVIOUS
      <4> HIDE DEF i
      <4> QED
        BY <3>1, <3>2, <4>1, <4>2
    <3>4. CASE p[b] # 1
      <4>1. Gone(p, b) = 0 /\ i = j
        BY <3>4 DEF Gone
      <4> HIDE DEF i
      <4> QED
        BY <3>1, <3>2, <4>1
    <3> QED
      BY <3>3, <3>4
  <2>3. r[i] = q[IF p[a] = 1 /\ i >= a THEN i + 1 ELSE i]
    BY <1>2, <2>2
  <2>4. Origin(p, a, b, j) = IF p[a] = 1 /\ i >= a THEN i + 1 ELSE i
    BY <1>3 DEF Origin
  <2> QED
    BY <2>1, <2>3, <2>4
<1>7. EraseBoth(q, a, b) = new
  BY DEF EraseBoth, new, r, d
<1> QED
  <2>1. new \in Seq(Nat) /\ Len(new) = Size(p, a, b)
    BY <1>4, <1>5
  <2> QED
    BY <1>6, <1>7, <2>1 DEF q

\* The parts of the contracted graph: no part is empty, and Place is a
\* bijection from the parts that are left to them.
NewParts(p, a, b) == EraseBoth(Shrunk(p, a, b), Min({a, b}), Max({a, b}))

LEMMA NewPartsInOrder ==
  ASSUME NEW p \in Seq(Nat \ {0}), NEW a \in 1..Len(p), NEW b \in 1..Len(p),
         a < b
  PROVE  LET new == EraseBoth(Shrunk(p, a, b), a, b)
         IN  /\ new \in Seq(Nat \ {0})
             /\ \A c \in Kept(p, a, b) :
                   /\ Place(p, a, b, c) \in 1..Len(new)
                   /\ new[Place(p, a, b, c)] = Shrunk(p, a, b)[c]
             /\ \A j \in 1..Len(new) :
                   \E c \in Kept(p, a, b) : Place(p, a, b, c) = j
             /\ \A c, d \in Kept(p, a, b) :
                   Place(p, a, b, c) = Place(p, a, b, d) => c = d
<1> DEFINE new == EraseBoth(Shrunk(p, a, b), a, b)
           K == Kept(p, a, b)
           P(c) == Place(p, a, b, c)
           O(j) == Origin(p, a, b, j)
           q == Shrunk(p, a, b)
<1>1. /\ new \in Seq(Nat) /\ Len(new) = Size(p, a, b)
      /\ \A j \in 1..Size(p, a, b) : new[j] = q[O(j)]
  BY EraseBothFacts
<1>2. /\ \A j \in 1..Size(p, a, b) : O(j) \in K /\ P(O(j)) = j
      /\ \A c \in K : P(c) \in 1..Size(p, a, b) /\ O(P(c)) = c
  BY OriginFacts
<1>3. ASSUME NEW c \in K PROVE q[c] # 0
  <2>1. /\ Len(p) \in Nat /\ q[Len(p) + 1] = 1
        /\ \A d \in 1..Len(p) : q[d] = IF d \in {a, b} THEN p[d] - 1 ELSE p[d]
    <3>1. a # b /\ Len(p) \in Nat
      OBVIOUS
    <3>2. IsShrunk(q, p, a, b)
      BY <3>1, ShrunkFacts
    <3> QED
      BY <3>1, <3>2 DEF IsShrunk
  <2>2. \A d \in 1..Len(p) : p[d] \in Nat \ {0}
    OBVIOUS
  <2>3. /\ c = Len(p) + 1 \/ c \in 1..Len(p)
        /\ c \in {a, b} => p[c] # 1
    <3>1. c \in 1..(Len(p) + 1) /\ c \notin {e \in {a, b} : p[e] = 1}
      BY <1>3 DEF Kept, Vanished
    <3> HIDE DEF q, K
    <3>2. Len(p) \in Nat
      BY <2>1
    <3> QED
      BY <3>1, <3>2
  <2> HIDE DEF q
  <2> QED
    BY <2>1, <2>2, <2>3
<1> HIDE DEF new, K, P, O, q
<1>4. new \in Seq(Nat \ {0})
  <2>1. \A j \in 1..Len(new) : new[j] \in Nat \ {0}
    <3>1. ASSUME NEW j \in 1..Len(new) PROVE new[j] \in Nat \ {0}
      <4>1. new[j] = q[O(j)] /\ O(j) \in K /\ new[j] \in Nat
        BY <1>1, <1>2
      <4> QED
        BY <1>3, <4>1
    <3> QED
      BY <3>1
  <2>2. new \in [1..Len(new) -> Nat \ {0}] /\ Len(new) \in Nat
    BY <1>1, <2>1
  <2> QED
    BY <2>2
<1>5. \A c \in K : P(c) \in 1..Len(new) /\ new[P(c)] = q[c]
  BY <1>1, <1>2
<1>6. \A j \in 1..Len(new) : \E c \in K : P(c) = j
  BY <1>1, <1>2
<1>7. \A c, d \in K : P(c) = P(d) => c = d
  BY <1>2
<1> QED
  BY <1>4, <1>5, <1>6, <1>7 DEF new, K, P, q

LEMMA NewPartsFacts ==
  ASSUME NEW p \in Seq(Nat \ {0}), NEW a \in 1..Len(p), NEW b \in 1..Len(p),
         a # b
  PROVE  LET new == NewParts(p, a, b)
         IN  /\ new \in Seq(Nat \ {0})
             /\ \A c \in Kept(p, a, b) :
                   /\ Place(p, a, b, c) \in 1..Len(new)
                   /\ new[Place(p, a, b, c)] = Shrunk(p, a, b)[c]
             /\ \A j \in 1..Len(new) :
                   \E c \in Kept(p, a, b) : Place(p, a, b, c) = j
             /\ \A c, d \in Kept(p, a, b) :
                   Place(p, a, b, c) = Place(p, a, b, d) => c = d
<1>0. a \in Nat /\ b \in Nat
  OBVIOUS
<1>1. CASE a < b
  <2>1. Min({a, b}) = a /\ Max({a, b}) = b
    BY <1>0, <1>1 DEF Min, Max
  <2>2. NewParts(p, a, b) = EraseBoth(Shrunk(p, a, b), a, b)
    BY <2>1 DEF NewParts
  <2> QED
    BY <1>1, <2>2, NewPartsInOrder
<1>2. CASE b < a
  <2>1. Min({a, b}) = b /\ Max({a, b}) = a
    BY <1>0, <1>2 DEF Min, Max
  <2>2. {a, b} = {b, a}
    OBVIOUS
  <2>3. Vanished(p, a, b) = Vanished(p, b, a)
    BY <2>2 DEF Vanished
  <2>4. /\ Kept(p, a, b) = Kept(p, b, a)
        /\ \A c : Place(p, a, b, c) = Place(p, b, a, c)
    BY <2>3 DEF Kept, Place
  <2>5. Shrunk(p, a, b) = Shrunk(p, b, a)
    <3>1. [p EXCEPT ![a] = @ - 1, ![b] = @ - 1]
              = [p EXCEPT ![b] = @ - 1, ![a] = @ - 1]
      OBVIOUS
    <3> QED
      BY <3>1 DEF Shrunk
  <2>6. NewParts(p, a, b) = EraseBoth(Shrunk(p, b, a), b, a)
    BY <2>1, <2>5 DEF NewParts
  <2> HIDE <2>1, <2>2, <2>3
  <2> QED
    BY <1>2, <2>4, <2>5, <2>6, NewPartsInOrder
<1>3. a < b \/ b < a
  BY <1>0
<1> QED
  BY <1>1, <1>2, <1>3

-----------------------------------------------------------------------------
(* The renamings of ContractEdge                                           *)

\* The part of an edge's end moves one place forward behind the part c.
Shift(U, size, c) ==
    [x \in U |-> <<IF size = 1 /\ Part(x) >= c THEN Part(x) - 1 ELSE Part(x),
                  x[2]>>]

LEMMA RemoveLastVertexShifts ==
  ASSUME NEW U, \A x \in U : x = <<Part(x), x[2]>>,
         NEW E \in SUBSET (SUBSET U), NEW size \in Nat \ {0}, NEW c
  PROVE  RemoveLastVertex(size, E, c) = RenamesAll(Shift(U, size, c), E)
<1> DEFINE f == Shift(U, size, c)
<1>1. CASE size > 1
  <2>1. size # 1
    BY <1>1
  <2>2. \A x \in U : f[x] = x
    BY <2>1 DEF Shift
  <2> HIDE DEF f
  <2>3. \A e \in E : Renames(f, e) = e
    BY <2>2 DEF Renames
  <2>4. RenamesAll(f, E) = E
    BY <2>3 DEF RenamesAll
  <2>5. RemoveLastVertex(size, E, c) = E
    BY <1>1 DEF RemoveLastVertex
  <2> QED
    BY <2>4, <2>5 DEF f
<1>2. CASE ~(size > 1)
  <2>1. size = 1
    BY <1>2
  <2> DEFINE g(x) == IF Part(x) >= c THEN <<Part(x) - 1, x[2]>> ELSE x
  <2>2. \A x \in U : f[x] = g(x)
    BY <2>1 DEF Shift
  <2>3. RemoveLastVertex(size, E, c) = {{g(x) : x \in e} : e \in E}
    BY <1>2 DEF RemoveLastVertex
  <2> HIDE DEF f, g
  <2>4. \A e \in E : Renames(f, e) = {g(x) : x \in e}
    BY <2>2 DEF Renames
  <2>5. RenamesAll(f, E) = {{g(x) : x \in e} : e \in E}
    BY <2>4 DEF RenamesAll
  <2> QED
    BY <2>3, <2>5 DEF f
<1> QED
  BY <1>1, <1>2

\* The vertices of the parts that are left, renamed to their new places.
Tau(p, a, b) ==
    [x \in Vertices(Shrunk(p, a, b)) |-> <<Place(p, a, b, Part(x)), x[2]>>]

LEMMA PartsLeft ==
  ASSUME NEW p \in Seq(Nat \ {0}), NEW a \in 1..Len(p), NEW b \in 1..Len(p),
         a # b, NEW x \in Vertices(Shrunk(p, a, b))
  PROVE  /\ x = <<Part(x), x[2]>>
         /\ Part(x) \in Kept(p, a, b) /\ Part(x) \in Nat
         /\ x[2] \in 1..Shrunk(p, a, b)[Part(x)]
<1> DEFINE q == Shrunk(p, a, b)
<1>1. /\ q \in Seq(Nat) /\ Len(q) = Len(p) + 1 /\ Len(p) \in Nat
      /\ q[Len(p) + 1] = 1
      /\ \A d \in 1..Len(p) : q[d] = IF d \in {a, b} THEN p[d] - 1 ELSE p[d]
  <2>1. a # b /\ Len(p) \in Nat
    OBVIOUS
  <2>2. IsShrunk(q, p, a, b)
    BY <2>1, ShrunkFacts
  <2> QED
    BY <2>1, <2>2 DEF IsShrunk
<1> HIDE DEF q
<1>2. x = <<Part(x), x[2]>> /\ Part(x) \in DOMAIN q /\ x[2] \in 1..q[Part(x)]
  BY VertexFacts DEF q
<1>3. Part(x) \in 1..(Len(p) + 1)
  BY <1>1, <1>2
<1>4. Part(x) \notin Vanished(p, a, b)
  <2>1. SUFFICES ASSUME Part(x) \in {a, b}, p[Part(x)] = 1
                 PROVE  FALSE
    BY DEF Vanished
  <2> DEFINE c == Part(x)
  <2>2. x[2] \in 1..q[c] /\ c \in {a, b} /\ p[c] = 1
    BY <1>2, <2>1
  <2> HIDE DEF c
  <2>3. c \in 1..Len(p)
    BY <2>2
  <2>4. q[c] = p[c] - 1
    BY <1>1, <2>2, <2>3
  <2>5. q[c] = 0
    BY <2>2, <2>4
  <2> QED
    BY <2>2, <2>5
<1> QED
  BY <1>1, <1>2, <1>3, <1>4 DEF Kept, q

LEMMA TwoShifts ==
  ASSUME NEW p \in Seq(Nat \ {0}), NEW a \in 1..Len(p), NEW b \in 1..Len(p),
         a # b, NEW E \in SUBSET (SUBSET Vertices(Shrunk(p, a, b)))
  PROVE  RemoveLastVertex(p[b], RemoveLastVertex(p[a], E, a), b)
             = RenamesAll(Tau(p, a, b), E)
<1> DEFINE U == Vertices(Shrunk(p, a, b))
           f == Shift(U, p[a], a)
           U2 == {f[x] : x \in U}
           g == Shift(U2, p[b], b)
<1>0. E \in SUBSET (SUBSET U) /\ \A x \in U : f[x] \in U2
  OBVIOUS
<1>1. /\ a \in Nat /\ b \in Nat /\ a # b
      /\ p[a] \in Nat \ {0} /\ p[b] \in Nat \ {0}
  OBVIOUS
<1>2. \A x \in U : /\ x = <<Part(x), x[2]>>
                   /\ Part(x) \in Kept(p, a, b) /\ Part(x) \in Nat
  BY <1>1, PartsLeft
<1>3. RemoveLastVertex(p[a], E, a) = RenamesAll(f, E)
  BY <1>1, <1>2, RemoveLastVertexShifts
<1>4. \A x \in U :
         f[x] = <<IF p[a] = 1 /\ Part(x) >= a THEN Part(x) - 1 ELSE Part(x),
                  x[2]>>
  BY DEF Shift
<1>5. ASSUME NEW y \in U2 PROVE y = <<Part(y), y[2]>>
  <2>1. PICK x \in U : y = f[x]
    OBVIOUS
  <2>2. y = <<IF p[a] = 1 /\ Part(x) >= a THEN Part(x) - 1 ELSE Part(x), x[2]>>
    BY <1>4, <2>1
  <2> HIDE DEF f, U2
  <2> QED
    BY <2>2 DEF Part
<1>6. RenamesAll(f, E) \in SUBSET (SUBSET U2)
  <2> HIDE DEF f, U2, U
  <2> QED
    BY <1>0, RenamesWithin
<1>7. RemoveLastVertex(p[b], RenamesAll(f, E), b)
          = RenamesAll(g, RenamesAll(f, E))
  <2> HIDE DEF f, U2
  <2> QED
    BY <1>1, <1>5, <1>6, RemoveLastVertexShifts
<1>8. ASSUME NEW x \in U PROVE Tau(p, a, b)[x] = g[f[x]]
  <2> DEFINE c == Part(x)
             d == IF p[a] = 1 /\ c >= a THEN c - 1 ELSE c
             e == IF p[b] = 1 /\ d >= b THEN d - 1 ELSE d
  <2>1. f[x] = <<d, x[2]>> /\ f[x] \in U2
    BY <1>4
  <2>2. g[f[x]] = <<IF p[b] = 1 /\ Part(f[x]) >= b THEN Part(f[x]) - 1
                    ELSE Part(f[x]), f[x][2]>>
    <3> HIDE DEF f, U2
    <3> QED
      BY <2>1 DEF Shift
  <2>3. Part(f[x]) = d /\ f[x][2] = x[2]
    <3> HIDE DEF f, d
    <3> QED
      BY <2>1 DEF Part
  <2>4. g[f[x]] = <<e, x[2]>>
    <3> HIDE DEF f, d, g
    <3> QED
      BY <2>2, <2>3
  <2>5. c \in Nat /\ (p[a] = 1 => c # a) /\ (p[b] = 1 => c # b)
    BY <1>2 DEF Kept, Vanished
  <2>6. Place(p, a, b, c) = c - GoneBefore(p, a, c) - GoneBefore(p, b, c)
    BY <1>1, <2>5, PlaceIs
  <2> HIDE DEF c
  <2>7. e = c - GoneBefore(p, a, c) - GoneBefore(p, b, c)
    BY <1>1, <2>5 DEF GoneBefore
  <2>8. Tau(p, a, b)[x] = <<Place(p, a, b, c), x[2]>>
    BY DEF Tau, c
  <2> HIDE DEF e, f, g
  <2> QED
    BY <2>4, <2>6, <2>7, <2>8
<1> HIDE DEF f, g, U2, U
<1>9. RenamesAll(g, RenamesAll(f, E)) = RenamesAll(Tau(p, a, b), E)
  <2>1. IsComposed(Tau(p, a, b), g, f, U)
    BY <1>8 DEF IsComposed
  <2> QED
    BY <1>0, <2>1, RenamesCompose
<1> QED
  BY <1>3, <1>7, <1>9

\* The ends of an edge of the complete graph.
AreEnds(p, u, v) == /\ p \in Seq(Nat \ {0})
                    /\ u \in Vertices(p) /\ v \in Vertices(p)
                    /\ Part(u) # Part(v)
LastOf(p, x) == LastInComponent(p, Part(x))
NewVertex(p) == <<Len(p) + 1, 1>>

LEMMA EndsFacts ==
  ASSUME NEW p, NEW u, NEW v, AreEnds(p, u, v)
  PROVE  /\ Part(u) \in 1..Len(p) /\ Part(v) \in 1..Len(p)
         /\ LastOf(p, u) \in Vertices(p) /\ Part(LastOf(p, u)) = Part(u)
         /\ LastOf(p, v) \in Vertices(p) /\ Part(LastOf(p, v)) = Part(v)
         /\ NewVertex(p) \notin Vertices(p)
<1>1. /\ p \in Seq(Nat \ {0}) /\ DOMAIN p = 1..Len(p) /\ Len(p) \in Nat
      /\ \A c \in 1..Len(p) : p[c] \in Nat \ {0} /\ p[c] \in 1..p[c]
  BY DEF AreEnds
<1>2. /\ Part(u) \in DOMAIN p /\ Part(v) \in DOMAIN p
      /\ \A x \in Vertices(p) : Part(x) \in DOMAIN p
  BY VertexFacts DEF AreEnds
<1>3. ASSUME NEW c \in DOMAIN p
      PROVE  <<c, p[c]>> \in Vertices(p) /\ Part(<<c, p[c]>>) = c
  BY <1>1, VertexFacts DEF Part
<1>4. NewVertex(p) \notin Vertices(p)
  <2>1. Part(NewVertex(p)) = Len(p) + 1
    BY DEF Part, NewVertex
  <2> QED
    BY <1>1, <1>2, <2>1
<1> QED
  BY <1>1, <1>2, <1>3, <1>4 DEF LastOf, LastInComponent

\* Two vertices of one part exchanged.
Exchange(V, x, y) == [z \in V |-> IF z = x THEN y ELSE IF z = y THEN x ELSE z]

LEMMA SwapIsExchange ==
  ASSUME NEW V, NEW x, NEW y, NEW E \in SUBSET (SUBSET V)
  PROVE  SwapVerticesInSet(E, x, y) = RenamesAll(Exchange(V, x, y), E)
<1> DEFINE f == Swapped(x, y)
           g(z) == IF z \in DOMAIN f THEN f[z] ELSE z
           h == Exchange(V, x, y)
<1>1. \A z \in V : g(z) = h[z]
  BY DEF Swapped, Exchange
<1>2. SwapVerticesInSet(E, x, y) = {{g(z) : z \in e} : e \in E}
  BY DEF SwapVerticesInSet, RenameEdges
<1> HIDE DEF g, h
<1>3. \A e \in E : Renames(h, e) = {g(z) : z \in e}
  BY <1>1 DEF Renames
<1>4. RenamesAll(h, E) = {{g(z) : z \in e} : e \in E}
  BY <1>3 DEF RenamesAll
<1> QED
  BY <1>2, <1>4 DEF h

\* Both ends exchanged with the last vertices of their parts.
ToLast(p, u, v) ==
    [x \in Vertices(p) |->
        IF x = u THEN LastOf(p, u) ELSE IF x = LastOf(p, u) THEN u
        ELSE IF x = v THEN LastOf(p, v) ELSE IF x = LastOf(p, v) THEN v ELSE x]

LEMMA ToLastFacts ==
  ASSUME NEW p, NEW u, NEW v, AreEnds(p, u, v)
  PROVE  /\ \A x \in Vertices(p) : /\ ToLast(p, u, v)[x] \in Vertices(p)
                                   /\ Part(ToLast(p, u, v)[x]) = Part(x)
                                   /\ ToLast(p, u, v)[ToLast(p, u, v)[x]] = x
         /\ ToLast(p, u, v)[u] = LastOf(p, u)
         /\ ToLast(p, u, v)[v] = LastOf(p, v)
         /\ OneToOne(ToLast(p, u, v), Vertices(p))
<1> DEFINE V == Vertices(p)
           F == LastOf(p, u)
           S == LastOf(p, v)
           sigma == ToLast(p, u, v)
<1>1. /\ u \in V /\ v \in V /\ F \in V /\ S \in V /\ Part(u) # Part(v)
      /\ Part(F) = Part(u) /\ Part(S) = Part(v)
  BY EndsFacts DEF AreEnds
<1>2. u # v /\ u # S /\ F # v /\ F # S
  BY <1>1
<1>3. \A x \in V : sigma[x] = IF x = u THEN F ELSE IF x = F THEN u
                             ELSE IF x = v THEN S ELSE IF x = S THEN v ELSE x
  BY DEF ToLast
<1> HIDE DEF V, F, S, sigma
<1>4. \A x \in V : sigma[x] \in V /\ Part(sigma[x]) = Part(x)
  BY <1>1, <1>3
<1>5. \A x \in V : sigma[sigma[x]] = x
  BY <1>1, <1>2, <1>3
<1>6. sigma[u] = F /\ sigma[v] = S
  BY <1>1, <1>2, <1>3
<1>7. OneToOne(sigma, V)
  BY <1>5 DEF OneToOne
<1> QED
  BY <1>4, <1>5, <1>6, <1>7 DEF V, F, S, sigma

LEMMA SwapsAreSigma ==
  ASSUME NEW p, NEW u, NEW v, AreEnds(p, u, v),
         NEW E \in SUBSET (SUBSET Vertices(p))
  PROVE  SwapWithLast(p, SwapWithLast(p, E, u), v)
             = RenamesAll(ToLast(p, u, v), E)
<1> DEFINE V == Vertices(p)
           F == LastOf(p, u)
           S == LastOf(p, v)
           f == Exchange(V, u, F)
           g == Exchange(V, v, S)
<1>0. E \in SUBSET (SUBSET V)
  OBVIOUS
<1>1. /\ u \in V /\ v \in V /\ F \in V /\ S \in V /\ Part(u) # Part(v)
      /\ Part(F) = Part(u) /\ Part(S) = Part(v)
  BY EndsFacts DEF AreEnds
<1>2. u # v /\ u # S /\ F # v /\ F # S
  BY <1>1
<1>3. \A x \in V : f[x] = IF x = u THEN F ELSE IF x = F THEN u ELSE x
  BY DEF Exchange
<1>4. \A x \in V : g[x] = IF x = v THEN S ELSE IF x = S THEN v ELSE x
  BY DEF Exchange
<1>5. \A x \in V : ToLast(p, u, v)[x]
                      = IF x = u THEN F ELSE IF x = F THEN u
                        ELSE IF x = v THEN S ELSE IF x = S THEN v ELSE x
  BY DEF ToLast
<1>6. /\ \A Y \in SUBSET (SUBSET V) : SwapWithLast(p, Y, u) = RenamesAll(f, Y)
      /\ \A Y \in SUBSET (SUBSET V) : SwapWithLast(p, Y, v) = RenamesAll(g, Y)
  BY SwapIsExchange DEF SwapWithLast, LastOf
<1> HIDE DEF V, F, S, f, g
<1>7. \A x \in V : f[x] \in V
  BY <1>1, <1>3
<1>8. RenamesAll(f, E) \in SUBSET (SUBSET V)
  BY <1>0, <1>7, RenamesWithin
<1>9. IsComposed(ToLast(p, u, v), g, f, V)
  <2>1. ASSUME NEW x \in V PROVE ToLast(p, u, v)[x] = g[f[x]]
    BY <1>1, <1>2, <1>3, <1>4, <1>5
  <2> QED
    BY <2>1 DEF IsComposed
<1>10. RenamesAll(g, RenamesAll(f, E)) = RenamesAll(ToLast(p, u, v), E)
  BY <1>0, <1>9, RenamesCompose
<1> QED
  BY <1>0, <1>6, <1>8, <1>10

\* The graph between the exchange and the removal of the ends.
Others(p, u, v) == Vertices(p) \ {LastOf(p, u), LastOf(p, v)}
Swaps(p, D, u, v) == RenamesAll(ToLast(p, u, v), D)
Final(p, D, u, v) ==
    LET h == [parts |-> p, deleted |-> Swaps(p, D, u, v)]
    IN  {{NewVertex(p), x} :
            x \in {y \in Others(p, u, v) :
                     StaysDeleted(h, LastOf(p, u), LastOf(p, v), y)}}
        \cup (Swaps(p, D, u, v) \cap SUBSET Others(p, u, v))

\* The vertices that are left, before the parts move.
LEMMA VerticesLeft ==
  ASSUME NEW p, NEW u, NEW v, AreEnds(p, u, v)
  PROVE  Vertices(Shrunk(p, Part(u), Part(v)))
             = Others(p, u, v) \cup {NewVertex(p)}
<1> DEFINE a == Part(u)
           b == Part(v)
           q == Shrunk(p, a, b)
           V == Vertices(p)
<1>0. /\ p \in Seq(Nat \ {0}) /\ a \in 1..Len(p) /\ b \in 1..Len(p) /\ a # b
      /\ DOMAIN p = 1..Len(p)
  <2>1. /\ p \in Seq(Nat \ {0}) /\ a # b
        /\ a \in 1..Len(p) /\ b \in 1..Len(p)
    BY EndsFacts DEF AreEnds
  <2> QED
    BY <2>1
<1>1. /\ q \in Seq(Nat) /\ Len(q) = Len(p) + 1 /\ Len(p) \in Nat
      /\ q[Len(p) + 1] = 1
      /\ \A d \in 1..Len(p) : q[d] = IF d \in {a, b} THEN p[d] - 1 ELSE p[d]
  <2>1. Len(p) \in Nat
    BY <1>0
  <2>2. p \in Seq(Nat \ {0}) /\ a \in 1..Len(p) /\ b \in 1..Len(p) /\ a # b
    BY <1>0
  <2> HIDE DEF a, b
  <2>3. IsShrunk(q, p, a, b)
    BY <2>2, ShrunkFacts
  <2> HIDE DEF q
  <2> QED
    BY <2>1, <2>3 DEF IsShrunk
<1>2. \A d \in 1..Len(p) : p[d] \in Nat \ {0}
  BY <1>0
<1>3. LastOf(p, u) = <<a, p[a]>> /\ LastOf(p, v) = <<b, p[b]>>
  BY DEF LastOf, LastInComponent
<1> HIDE DEF q
<1>4. DOMAIN q = 1..(Len(p) + 1)
  BY <1>1
<1>5. ASSUME NEW x \in Vertices(q)
      PROVE  x \in Others(p, u, v) \cup {NewVertex(p)}
  <2>1. x = <<Part(x), x[2]>> /\ Part(x) \in 1..(Len(p) + 1)
        /\ x[2] \in 1..q[Part(x)]
    BY <1>4, VertexFacts
  <2>2. CASE Part(x) = Len(p) + 1
    <3>1. x[2] = 1
      BY <1>1, <2>1, <2>2
    <3> QED
      BY <2>1, <2>2, <3>1 DEF NewVertex
  <2>3. CASE Part(x) \in 1..Len(p)
    <3> DEFINE c == Part(x)
    <3>1. x[2] \in 1..q[c] /\ c \in 1..Len(p)
      BY <2>1, <2>3
    <3>2. /\ q[c] = IF c \in {a, b} THEN p[c] - 1 ELSE p[c]
          /\ p[c] \in Nat \ {0}
      <4> HIDE DEF c
      <4> QED
        BY <1>1, <1>2, <3>1
    <3>3. x[2] \in 1..p[Part(x)]
      <4> HIDE DEF c
      <4>1. x[2] \in 1..p[c]
        BY <3>1, <3>2
      <4> QED
        BY <4>1 DEF c
    <3>4. x \in V
      BY <1>0, <2>1, <2>3, <3>3, VertexFacts
    <3>5. ~(Part(x) \in {a, b} /\ x[2] = p[Part(x)])
      <4> HIDE DEF c
      <4>1. ~(c \in {a, b} /\ x[2] = p[c])
        BY <3>1, <3>2
      <4> QED
        BY <4>1 DEF c
    <3>6. x # LastOf(p, u) /\ x # LastOf(p, v)
      BY <1>3, <3>5 DEF Part
    <3> QED
      BY <3>4, <3>6 DEF Others
  <2> QED
    BY <1>1, <2>1, <2>2, <2>3
<1>6. NewVertex(p) \in Vertices(q)
  <2>1. Len(p) + 1 \in DOMAIN q /\ 1 \in 1..q[Len(p) + 1]
    BY <1>1, <1>4
  <2> QED
    BY <2>1, VertexFacts DEF NewVertex
<1>7. ASSUME NEW x \in Others(p, u, v) PROVE x \in Vertices(q)
  <2>1. x \in V /\ x # <<a, p[a]>> /\ x # <<b, p[b]>>
    BY <1>3 DEF Others
  <2>2. /\ x = <<Part(x), x[2]>>
        /\ Part(x) \in 1..Len(p) /\ x[2] \in 1..p[Part(x)]
    BY <1>0, <2>1, VertexFacts
  <2>3. Part(x) \in {a, b} => x[2] # p[Part(x)]
    BY <2>1, <2>2
  <2>4. Part(x) \in DOMAIN q /\ x[2] \in 1..q[Part(x)]
    <3> DEFINE c == Part(x)
    <3> HIDE DEF c
    <3>1. /\ c \in 1..Len(p) /\ x[2] \in 1..p[c] /\ p[c] \in Nat
          /\ c \in {a, b} => x[2] # p[c]
          /\ q[c] = IF c \in {a, b} THEN p[c] - 1 ELSE p[c]
      BY <1>1, <1>2, <2>2, <2>3 DEF c
    <3>2. c \in DOMAIN q /\ x[2] \in 1..q[c]
      BY <1>1, <1>4, <3>1
    <3> QED
      BY <3>2 DEF c
  <2> QED
    BY <2>2, <2>4, VertexFacts
<1> QED
  BY <1>5, <1>6, <1>7 DEF q

LEMMA FinalFacts ==
  ASSUME NEW p, NEW u, NEW v, AreEnds(p, u, v),
         NEW D \in SUBSET (SUBSET Vertices(p))
  PROVE  Final(p, D, u, v)
             \in SUBSET (SUBSET Vertices(Shrunk(p, Part(u), Part(v))))
BY VerticesLeft DEF Final

LEMMA ContractEdgeIs ==
  ASSUME NEW g, NEW u, NEW v, AreEnds(g.parts, u, v),
         g.deleted \in SUBSET (SUBSET Vertices(g.parts))
  PROVE  ContractEdge(g, u, v)
             = [parts |-> NewParts(g.parts, Part(u), Part(v)),
                deleted |-> RenamesAll(Tau(g.parts, Part(u), Part(v)),
                                       Final(g.parts, g.deleted, u, v))]
<1> DEFINE p == g.parts
           D == g.deleted
           a == Part(u)
           b == Part(v)
           swapped == SwapWithLast(p, SwapWithLast(p, D, u), v)
           h == [parts |-> p, deleted |-> swapped]
           others == Vertices(p) \ {LastOf(p, u), LastOf(p, v)}
           final == {{NewVertex(p), x} :
                        x \in {y \in others : StaysDeleted(
                                   h, LastOf(p, u), LastOf(p, v), y)}}
                    \cup (swapped \cap SUBSET others)
<1>1. /\ p \in Seq(Nat \ {0}) /\ a \in 1..Len(p) /\ b \in 1..Len(p) /\ a # b
  BY EndsFacts DEF AreEnds
<1>2. final = Final(p, D, u, v)
  <2>1. swapped = Swaps(p, D, u, v)
    BY SwapsAreSigma DEF Swaps
  <2> QED
    BY <2>1 DEF Final, Others
<1>3. RemoveLastVertex(p[b], RemoveLastVertex(p[a], final, a), b)
          = RenamesAll(Tau(p, a, b), Final(p, D, u, v))
  <2>1. Final(p, D, u, v) \in SUBSET (SUBSET Vertices(Shrunk(p, a, b)))
    BY FinalFacts
  <2> HIDE DEF final, p, a, b, D
  <2> QED
    BY <1>1, <1>2, <2>1, TwoShifts
<1>4. ContractEdge(g, u, v)
          = [parts |-> NewParts(p, a, b),
             deleted |-> RemoveLastVertex(p[b],
                             RemoveLastVertex(p[a], final, a), b)]
  BY DEF ContractEdge, NewParts, Shrunk, NewVertex, LastOf
<1> HIDE DEF final
<1> QED
  BY <1>3, <1>4

LEMMA TauFacts ==
  ASSUME NEW p \in Seq(Nat \ {0}), NEW a \in 1..Len(p), NEW b \in 1..Len(p),
         a # b
  PROVE  LET tau == Tau(p, a, b)
             U == Vertices(Shrunk(p, a, b))
         IN  /\ Onto(tau, U, Vertices(NewParts(p, a, b)))
             /\ OneToOne(tau, U)
             /\ \A x, y \in U :
                   Part(tau[x]) = Part(tau[y]) <=> Part(x) = Part(y)
<1> DEFINE tau == Tau(p, a, b)
           q == Shrunk(p, a, b)
           U == Vertices(q)
           new == NewParts(p, a, b)
           K == Kept(p, a, b)
           P(c) == Place(p, a, b, c)
<1>0. a # b
  OBVIOUS
<1>1. \A x \in U : /\ x = <<Part(x), x[2]>> /\ Part(x) \in K
                   /\ x[2] \in 1..q[Part(x)]
  BY <1>0, PartsLeft
<1>2. /\ new \in Seq(Nat \ {0})
      /\ \A c \in K : P(c) \in 1..Len(new) /\ new[P(c)] = q[c]
      /\ \A j \in 1..Len(new) : \E c \in K : P(c) = j
      /\ \A c, d \in K : P(c) = P(d) => c = d
  BY <1>0, NewPartsFacts
<1>3. \A x \in U : tau[x] = <<P(Part(x)), x[2]>>
  BY DEF Tau
<1>4. K \subseteq DOMAIN q
  <2>1. K \subseteq 1..(Len(p) + 1)
    BY DEF Kept
  <2>2. q \in Seq(Nat) /\ Len(q) = Len(p) + 1
    BY <1>0, ShrunkFacts DEF IsShrunk
  <2> HIDE DEF q, K
  <2> QED
    BY <2>1, <2>2
<1>5. DOMAIN new = 1..Len(new)
  BY <1>2
<1> HIDE DEF tau, q, new, K, P
<1>6. ASSUME NEW x \in U
      PROVE  tau[x] \in Vertices(new) /\ Part(tau[x]) = P(Part(x))
  <2>1. P(Part(x)) \in DOMAIN new /\ x[2] \in 1..new[P(Part(x))]
    <3>1. Part(x) \in K /\ x[2] \in 1..q[Part(x)]
      BY <1>1
    <3>2. P(Part(x)) \in 1..Len(new) /\ new[P(Part(x))] = q[Part(x)]
      BY <1>2, <3>1
    <3> QED
      BY <1>5, <3>1, <3>2
  <2>2. tau[x] = <<P(Part(x)), x[2]>>
    BY <1>3
  <2>3. <<P(Part(x)), x[2]>> \in Vertices(new)
    BY <2>1, VertexFacts
  <2> QED
    BY <2>2, <2>3 DEF Part
<1>7. ASSUME NEW y \in Vertices(new)
      PROVE  \E x \in U : tau[x] = y
  <2>1. /\ y = <<Part(y), y[2]>> /\ Part(y) \in 1..Len(new)
        /\ y[2] \in 1..new[Part(y)]
    BY <1>5, VertexFacts
  <2>2. PICK c \in K : P(c) = Part(y)
    BY <1>2, <2>1
  <2>3. c \in DOMAIN q /\ y[2] \in 1..q[c]
    BY <1>2, <1>4, <2>1, <2>2
  <2>4. <<c, y[2]>> \in U
    BY <2>3, VertexFacts
  <2>5. tau[<<c, y[2]>>] = <<P(c), y[2]>>
    BY <1>3, <2>4 DEF Part
  <2> QED
    BY <2>1, <2>2, <2>4, <2>5
<1>8. ASSUME NEW x \in U, NEW y \in U, Part(tau[x]) = Part(tau[y])
      PROVE  Part(x) = Part(y)
  BY <1>1, <1>2, <1>6, <1>8
<1>9. ASSUME NEW x \in U, NEW y \in U, tau[x] = tau[y]
      PROVE  x = y
  <2>1. Part(x) = Part(y)
    BY <1>8, <1>9
  <2>2. x[2] = y[2]
    BY <1>3, <1>9
  <2> QED
    BY <1>1, <2>1, <2>2
<1>10. \A x, y \in U : Part(tau[x]) = Part(tau[y]) <=> Part(x) = Part(y)
  BY <1>6, <1>8
<1>11. Onto(tau, U, Vertices(new)) /\ OneToOne(tau, U)
  <2> HIDE DEF U
  <2> QED
    BY <1>6, <1>7, <1>9 DEF Onto, OneToOne
<1> QED
  BY <1>10, <1>11 DEF tau, q, new

-----------------------------------------------------------------------------
(* ContractEdge is contraction                                             *)

\* Where ContractEdge has the vertices before the parts move: W stands for
\* the contracted edge.
Fill(p, u, v) ==
    [x \in Vertices(p) \ {v} |->
        IF x = u THEN NewVertex(p) ELSE ToLast(p, u, v)[x]]

LEMMA FillFacts ==
  ASSUME NEW p, NEW u, NEW v, AreEnds(p, u, v)
  PROVE  LET fill == Fill(p, u, v)
             V == Vertices(p) \ {v}
         IN  /\ fill[u] = NewVertex(p)
             /\ \A x \in V \ {u} : /\ fill[x] = ToLast(p, u, v)[x]
                                   /\ fill[x] \in Others(p, u, v)
             /\ Onto(fill, V, Others(p, u, v) \cup {NewVertex(p)})
             /\ OneToOne(fill, V)
<1> DEFINE fill == Fill(p, u, v)
           V == Vertices(p) \ {v}
           sigma == ToLast(p, u, v)
           F == LastOf(p, u)
           S == LastOf(p, v)
           W == NewVertex(p)
           O == Others(p, u, v)
<1>1. /\ u \in V /\ v \in Vertices(p) /\ W \notin Vertices(p)
      /\ F \in Vertices(p) /\ S \in Vertices(p)
  BY EndsFacts DEF AreEnds
<1>2. /\ \A x \in Vertices(p) : sigma[x] \in Vertices(p) /\ sigma[sigma[x]] = x
      /\ sigma[u] = F /\ sigma[v] = S
  BY ToLastFacts
<1>3. fill[u] = W /\ \A x \in V \ {u} : fill[x] = sigma[x]
  BY <1>1 DEF Fill
<1>4. O = Vertices(p) \ {F, S}
  BY DEF Others
<1> HIDE DEF fill, sigma, F, S, W, O
<1>5. ASSUME NEW x \in V \ {u} PROVE fill[x] \in O
  BY <1>1, <1>2, <1>3, <1>4
<1>6. ASSUME NEW y \in O PROVE \E x \in V \ {u} : fill[x] = y
  <2>1. sigma[y] \in V \ {u} /\ sigma[sigma[y]] = y
    BY <1>2, <1>4
  <2> QED
    BY <1>3, <2>1
<1>7. Onto(fill, V, O \cup {W})
  <2>1. ASSUME NEW x \in V PROVE fill[x] \in O \cup {W}
    BY <1>3, <1>5
  <2>2. ASSUME NEW y \in O \cup {W} PROVE \E x \in V : fill[x] = y
    BY <1>1, <1>3, <1>6
  <2> QED
    BY <2>1, <2>2 DEF Onto
<1>8. OneToOne(fill, V)
  <2>1. ASSUME NEW x \in V, NEW y \in V, fill[x] = fill[y]
        PROVE  x = y
    <3>1. W \notin O
      BY <1>1, <1>4
    <3>2. CASE x = u \/ y = u
      BY <1>3, <1>5, <2>1, <3>1, <3>2
    <3>3. CASE x # u /\ y # u
      <4>1. sigma[x] = sigma[y] /\ sigma[sigma[x]] = x /\ sigma[sigma[y]] = y
        BY <1>2, <1>3, <2>1, <3>3
      <4> QED
        BY <4>1
    <3> QED
      BY <3>2, <3>3
  <2> QED
    BY <2>1 DEF OneToOne
<1> QED
  BY <1>3, <1>5, <1>7, <1>8 DEF fill, sigma, W, O

\* Two vertices of the contraction are adjacent: u stands for both ends.
AdjacentIn(p, D, x, y) == Part(x) # Part(y) /\ {x, y} \notin D
Linked(p, D, u, v, x, y) ==
    \/ AdjacentIn(p, D, x, y)
    \/ x = u /\ AdjacentIn(p, D, v, y)
    \/ y = u /\ AdjacentIn(p, D, x, v)

\* ContractEdge leaves the new vertex and y apart iff neither end was
\* adjacent to y.
LEMMA NewVertexIsLinked ==
  ASSUME NEW p, NEW u, NEW v, AreEnds(p, u, v), NEW D \in SUBSET AllEdges(p),
         NEW y \in Vertices(p) \ {u, v}
  PROVE  {NewVertex(p), ToLast(p, u, v)[y]} \notin Final(p, D, u, v)
             <=> AdjacentIn(p, D, u, y) \/ AdjacentIn(p, D, v, y)
<1> DEFINE V == Vertices(p)
           sigma == ToLast(p, u, v)
           F == LastOf(p, u)
           S == LastOf(p, v)
           W == NewVertex(p)
           O == Others(p, u, v)
           E == Swaps(p, D, u, v)
           h == [parts |-> p, deleted |-> E]
           z == sigma[y]
<1>1. /\ u \in V /\ v \in V /\ Part(u) # Part(v) /\ W \notin V
  BY EndsFacts DEF AreEnds
<1>2. /\ \A x \in V : /\ sigma[x] \in V /\ sigma[sigma[x]] = x
                     /\ Part(sigma[x]) = Part(x)
      /\ sigma[u] = F /\ sigma[v] = S
      /\ OneToOne(sigma, V)
  BY ToLastFacts
<1>3. z \in O
  BY <1>1, FillFacts
<1>4. ASSUME NEW s \in V, NEW t \in V
      PROVE  {sigma[s], sigma[t]} \in E <=> {s, t} \in D
  <2>1. D \in SUBSET (SUBSET V)
    <3>1. p \in Seq(Nat)
      BY DEF AreEnds
    <3>2. \A e \in D : \E a, b \in V : e = {a, b}
      BY <3>1, EdgesArePairs
    <3> QED
      BY <3>2
  <2>2. {s, t} \in SUBSET V
    OBVIOUS
  <2> HIDE DEF V
  <2>3. Renames(sigma, {s, t}) \in RenamesAll(sigma, D) <=> {s, t} \in D
    BY <1>2, <2>1, <2>2, RenamesOneToOne
  <2>4. Renames(sigma, {s, t}) = {sigma[s], sigma[t]}
    BY RenamesPair
  <2> QED
    BY <2>3, <2>4 DEF Swaps
<1>5. {W, z} \in Final(p, D, u, v) <=> StaysDeleted(h, F, S, z)
  <2>1. W \notin O
    BY <1>1 DEF Others
  <2> DEFINE new == {{W, x} : x \in {t \in O : StaysDeleted(h, F, S, t)}}
  <2>2. Final(p, D, u, v) = new \cup (E \cap SUBSET O)
    BY DEF Final
  <2>3. {W, z} \notin SUBSET O
    BY <2>1
  <2>4. {W, z} \in new <=> StaysDeleted(h, F, S, z)
    <3>1. ASSUME NEW x \in O, {W, x} = {W, z} PROVE x = z
      BY <1>3, <2>1, <3>1
    <3> HIDE DEF W, O, h, F, S, z
    <3> QED
      BY <1>3, <3>1
  <2> HIDE DEF new, W, O, h, F, S, E, z
  <2> QED
    BY <2>2, <2>3, <2>4
<1>6. StaysDeleted(h, F, S, z)
        <=> \/ {u, y} \in D /\ ~AdjacentIn(p, D, v, y)
            \/ {v, y} \in D /\ ~AdjacentIn(p, D, u, y)
  <2>1. /\ {F, z} \in E <=> {u, y} \in D
        /\ {S, z} \in E <=> {v, y} \in D
    BY <1>1, <1>2, <1>4
  <2>2. /\ Part(F) = Part(u) /\ Part(S) = Part(v) /\ Part(z) = Part(y)
    BY <1>1, <1>2
  <2>3. /\ IsAdjacent(h, F, z) <=> AdjacentIn(p, D, u, y)
        /\ IsAdjacent(h, S, z) <=> AdjacentIn(p, D, v, y)
    <3> HIDE DEF F, S, z, E
    <3> QED
      BY <2>1, <2>2 DEF IsAdjacent, AdjacentIn
  <2> HIDE DEF F, S, z, E
  <2> QED
    BY <2>1, <2>3 DEF StaysDeleted
<1>7. \/ Part(u) # Part(y)
      \/ Part(v) # Part(y)
  BY <1>1
<1> HIDE DEF V, sigma, F, S, W, O, E, h, z
<1>8. {W, z} \notin Final(p, D, u, v)
         <=> AdjacentIn(p, D, u, y) \/ AdjacentIn(p, D, v, y)
  BY <1>5, <1>6, <1>7 DEF AdjacentIn
<1> QED
  BY <1>8 DEF W, z, sigma

LEMMA OthersAreLinked ==
  ASSUME NEW p, NEW u, NEW v, AreEnds(p, u, v), NEW D \in SUBSET AllEdges(p),
         NEW x \in Vertices(p) \ {u, v}, NEW y \in Vertices(p) \ {u, v}
  PROVE  {ToLast(p, u, v)[x], ToLast(p, u, v)[y]} \in Final(p, D, u, v)
             <=> {x, y} \in D
<1> DEFINE V == Vertices(p)
           sigma == ToLast(p, u, v)
           W == NewVertex(p)
           O == Others(p, u, v)
           E == Swaps(p, D, u, v)
<1>1. u \in V /\ v \in V /\ W \notin O
  BY EndsFacts DEF AreEnds, Others
<1>2. sigma[x] \in O /\ sigma[y] \in O
  BY <1>1, FillFacts
<1>3. OneToOne(sigma, V)
  BY ToLastFacts
<1>4. {sigma[x], sigma[y]} \in E <=> {x, y} \in D
  <2>1. D \in SUBSET (SUBSET V)
    <3>1. p \in Seq(Nat)
      BY DEF AreEnds
    <3>2. \A e \in D : \E a, b \in V : e = {a, b}
      BY <3>1, EdgesArePairs
    <3> QED
      BY <3>2
  <2>2. {x, y} \in SUBSET V
    OBVIOUS
  <2> HIDE DEF V
  <2>3. Renames(sigma, {x, y}) \in RenamesAll(sigma, D) <=> {x, y} \in D
    BY <1>3, <2>1, <2>2, RenamesOneToOne
  <2>4. Renames(sigma, {x, y}) = {sigma[x], sigma[y]}
    BY RenamesPair
  <2> QED
    BY <2>3, <2>4 DEF Swaps
<1>5. {sigma[x], sigma[y]} \in Final(p, D, u, v) <=> {sigma[x], sigma[y]} \in E
  <2> DEFINE h == [parts |-> p, deleted |-> E]
             new == {{W, t} : t \in {s \in O :
                       StaysDeleted(h, LastOf(p, u), LastOf(p, v), s)}}
  <2>1. Final(p, D, u, v) = new \cup (E \cap SUBSET O)
    BY DEF Final
  <2>2. \A e \in new : W \in e
    OBVIOUS
  <2>3. {sigma[x], sigma[y]} \notin new
    <3> HIDE DEF new, W, O, sigma
    <3> QED
      BY <1>1, <1>2, <2>2
  <2> HIDE DEF new, W, O, sigma, E
  <2> QED
    BY <1>2, <2>1, <2>3
<1> QED
  BY <1>4, <1>5

LEMMA FinalIsLinked ==
  ASSUME NEW p, NEW u, NEW v, AreEnds(p, u, v), NEW D \in SUBSET AllEdges(p),
         NEW x \in Vertices(p) \ {v}, NEW y \in Vertices(p) \ {v}, x # y
  PROVE  Linked(p, D, u, v, x, y)
           <=> /\ Part(Fill(p, u, v)[x]) # Part(Fill(p, u, v)[y])
               /\ {Fill(p, u, v)[x], Fill(p, u, v)[y]} \notin Final(p, D, u, v)
<1> DEFINE V == Vertices(p)
           fill == Fill(p, u, v)
           sigma == ToLast(p, u, v)
           W == NewVertex(p)
           final == Final(p, D, u, v)
<1>1. /\ fill[u] = W /\ u \in V
      /\ \A t \in V \ {u, v} : fill[t] = sigma[t]
  <2>1. u \in V
    BY DEF AreEnds
  <2>2. /\ fill[u] = W
        /\ \A t \in (V \ {v}) \ {u} : fill[t] = sigma[t]
    <3>1. /\ Fill(p, u, v)[u] = NewVertex(p)
          /\ \A t \in (Vertices(p) \ {v}) \ {u} :
                /\ Fill(p, u, v)[t] = ToLast(p, u, v)[t]
                /\ Fill(p, u, v)[t] \in Others(p, u, v)
      <4> HIDE DEF V, fill, sigma, W, final
      <4> QED
        BY FillFacts
    <3> QED
      BY <3>1
  <2> HIDE DEF V, fill, sigma, W
  <2> QED
    BY <2>1, <2>2
<1>2. /\ \A t \in V : Part(sigma[t]) = Part(t)
      /\ \A t \in V : sigma[t] \in V
  BY ToLastFacts
<1>3. ASSUME NEW t \in V PROVE Part(t) # Part(W)
  <2>1. Part(t) \in 1..Len(p) /\ Len(p) \in Nat
    <3>1. p \in Seq(Nat \ {0})
      BY DEF AreEnds
    <3>2. DOMAIN p = 1..Len(p) /\ Len(p) \in Nat
      BY <3>1
    <3> QED
      BY <3>2, VertexFacts
  <2>2. Part(W) = Len(p) + 1
    BY DEF NewVertex, Part
  <2> HIDE DEF W
  <2> QED
    BY <2>1, <2>2
<1>4. x # y
  OBVIOUS
<1>5. CASE x = u
  <2>1. y \in V \ {u, v}
    BY <1>4, <1>5
  <2>2. {W, sigma[y]} \notin final
          <=> AdjacentIn(p, D, u, y) \/ AdjacentIn(p, D, v, y)
    BY <2>1, NewVertexIsLinked
  <2>3. Linked(p, D, u, v, x, y)
          <=> AdjacentIn(p, D, u, y) \/ AdjacentIn(p, D, v, y)
    BY <1>4, <1>5 DEF Linked
  <2>4. fill[x] = W /\ fill[y] = sigma[y] /\ Part(W) # Part(sigma[y])
    BY <1>1, <1>2, <1>3, <1>5, <2>1
  <2> HIDE DEF V, fill, sigma, W, final
  <2>5. Linked(p, D, u, v, x, y)
          <=> Part(fill[x]) # Part(fill[y]) /\ {fill[x], fill[y]} \notin final
    BY <2>2, <2>3, <2>4
  <2> QED
    BY <2>5 DEF fill, final
<1>6. CASE y = u
  <2>1. x \in V \ {u, v}
    BY <1>4, <1>6
  <2>2. {W, sigma[x]} \notin final
          <=> AdjacentIn(p, D, u, x) \/ AdjacentIn(p, D, v, x)
    BY <2>1, NewVertexIsLinked
  <2>3. \A s, t : AdjacentIn(p, D, s, t) <=> AdjacentIn(p, D, t, s)
    <3>1. \A s, t : {s, t} = {t, s}
      OBVIOUS
    <3> QED
      BY <3>1 DEF AdjacentIn
  <2>4. Linked(p, D, u, v, x, y)
          <=> AdjacentIn(p, D, u, x) \/ AdjacentIn(p, D, v, x)
    BY <1>4, <1>6, <2>3 DEF Linked
  <2>5. fill[y] = W /\ fill[x] = sigma[x] /\ Part(W) # Part(sigma[x])
    BY <1>1, <1>2, <1>3, <1>6, <2>1
  <2> HIDE DEF V, fill, sigma, W, final
  <2>6. {fill[x], fill[y]} = {W, sigma[x]}
    BY <2>5
  <2>7. Linked(p, D, u, v, x, y)
          <=> Part(fill[x]) # Part(fill[y]) /\ {fill[x], fill[y]} \notin final
    BY <2>2, <2>4, <2>5, <2>6
  <2> QED
    BY <2>7 DEF fill, final
<1>7. CASE x # u /\ y # u
  <2>1. x \in V \ {u, v} /\ y \in V \ {u, v}
    BY <1>7
  <2>2. {sigma[x], sigma[y]} \in final <=> {x, y} \in D
    BY <2>1, OthersAreLinked
  <2>3. Linked(p, D, u, v, x, y) <=> AdjacentIn(p, D, x, y)
    BY <1>7 DEF Linked
  <2>4. /\ fill[x] = sigma[x] /\ fill[y] = sigma[y]
        /\ Part(fill[x]) = Part(x) /\ Part(fill[y]) = Part(y)
    BY <1>1, <1>2, <2>1
  <2> HIDE DEF V, fill, sigma, W, final
  <2>5. Linked(p, D, u, v, x, y)
          <=> Part(fill[x]) # Part(fill[y]) /\ {fill[x], fill[y]} \notin final
    BY <2>2, <2>3, <2>4 DEF AdjacentIn
  <2> QED
    BY <2>5 DEF fill, final
<1> QED
  BY <1>5, <1>6, <1>7

\* The edges of the contraction.
LEMMA ContractionEdges ==
  ASSUME NEW g, IsGraph(g), NEW u, NEW v, AreEnds(g.parts, u, v)
  PROVE  LET C == Contraction(Simple(g), u, v)
             V == Vertices(g.parts) \ {v}
         IN  /\ C.node = V
             /\ ArePairs(C.edge, V)
             /\ \A x, y \in V : x # y =>
                   ({x, y} \in C.edge
                      <=> Linked(g.parts, g.deleted, u, v, x, y))
<1> DEFINE p == g.parts
           D == g.deleted
           V == Vertices(p)
           E == AllEdges(p) \ D
           to(x) == IF x = v THEN u ELSE x
           ce == {{to(x) : x \in e} : e \in E} \ {{u}}
           C == Contraction(Simple(g), u, v)
<1>1. C.node = V \ {v} /\ C.edge = ce
  BY DEF Contraction, Simple
<1>2. u \in V /\ v \in V /\ u # v /\ Part(u) # Part(v)
  BY DEF AreEnds
<1>3. p \in Seq(Nat)
  BY DEF AreEnds
<1>4. /\ \A x, y \in V : {x, y} \in E <=> AdjacentIn(p, D, x, y)
      /\ \A e \in E : \E x, y \in V : AdjacentIn(p, D, x, y) /\ e = {x, y}
  <2>1. /\ \A x, y \in V : {x, y} \in AllEdges(p) <=> Part(x) # Part(y)
        /\ \A e \in AllEdges(p) : \E x, y \in V :
              Part(x) # Part(y) /\ e = {x, y}
    BY <1>3, EdgesArePairs
  <2> HIDE DEF p, D, V
  <2>2. ASSUME NEW x \in V, NEW y \in V
        PROVE  {x, y} \in E <=> AdjacentIn(p, D, x, y)
    BY <2>1 DEF AdjacentIn
  <2>3. ASSUME NEW e \in E
        PROVE  \E x, y \in V : AdjacentIn(p, D, x, y) /\ e = {x, y}
    <3>1. e \in AllEdges(p) /\ e \notin D
      OBVIOUS
    <3>2. PICK x, y \in V : Part(x) # Part(y) /\ e = {x, y}
      BY <2>1, <3>1
    <3> QED
      BY <3>1, <3>2 DEF AdjacentIn
  <2> QED
    BY <2>2, <2>3
<1>5. \A x, y : {to(z) : z \in {x, y}} = {to(x), to(y)}
  OBVIOUS
<1>6. \A x, y : AdjacentIn(p, D, x, y) <=> AdjacentIn(p, D, y, x)
  <2>1. \A x, y : {x, y} = {y, x}
    OBVIOUS
  <2> QED
    BY <2>1 DEF AdjacentIn
<1>7. \A x \in V : to(x) \in V \ {v}
  BY <1>2
<1>8. \A x, y \in V : AdjacentIn(p, D, x, y) => x # y
  BY DEF AdjacentIn
<1>9. /\ \A d : d \in ce <=> \E e \in E : d = {to(z) : z \in e} /\ d # {u}
  OBVIOUS
<1> HIDE DEF p, D, V, E, to, ce, C
<1>10. ArePairs(ce, V \ {v})
  <2>1. ASSUME NEW d \in ce
        PROVE  \E x, y \in V \ {v} : x # y /\ d = {x, y}
    <3>1. PICK e \in E : d = {to(z) : z \in e} /\ d # {u}
      BY <1>9
    <3>2. PICK x, y \in V : AdjacentIn(p, D, x, y) /\ e = {x, y}
      BY <1>4
    <3>3. d = {to(x), to(y)}
      BY <1>5, <3>1, <3>2
    <3>4. to(x) # to(y)
      <4>1. SUFFICES ASSUME to(x) = to(y) PROVE FALSE
        OBVIOUS
      <4>2. x # y
        BY <1>8, <3>2
      <4>3. to(x) = u
        BY <4>1, <4>2 DEF to
      <4> QED
        BY <3>1, <3>3, <4>1, <4>3
    <3> QED
      BY <1>7, <3>3, <3>4
  <2> QED
    BY <2>1 DEF ArePairs
<1>11. ASSUME NEW x \in V \ {v}, NEW y \in V \ {v}, x # y,
              {x, y} \in ce
       PROVE  Linked(p, D, u, v, x, y)
  <2>1. PICK e \in E : {x, y} = {to(z) : z \in e}
    BY <1>9, <1>11
  <2>2. PICK s, t \in V : AdjacentIn(p, D, s, t) /\ e = {s, t}
    BY <1>4
  <2>3. {x, y} = {to(s), to(t)}
    BY <1>5, <2>1, <2>2
  <2>4. \/ x = to(s) /\ y = to(t)
        \/ x = to(t) /\ y = to(s)
    BY <1>11, <2>3
  <2>5. s # t
    BY <1>8, <2>2
  <2> QED
    BY <1>6, <2>2, <2>4, <2>5 DEF Linked, to
<1>12. ASSUME NEW x \in V \ {v}, NEW y \in V \ {v}, x # y,
              Linked(p, D, u, v, x, y)
       PROVE  {x, y} \in ce
  <2>1. PICK s, t \in V : /\ AdjacentIn(p, D, s, t)
                         /\ to(s) = x /\ to(t) = y
    BY <1>2, <1>12 DEF Linked, to
  <2>2. {s, t} \in E
    BY <1>4, <2>1
  <2>3. {x, y} = {to(z) : z \in {s, t}}
    BY <1>5, <2>1
  <2>4. {x, y} # {u}
    BY <1>12
  <2> QED
    BY <1>9, <2>2, <2>3, <2>4
<1>13. /\ C.node = V \ {v}
       /\ ArePairs(C.edge, V \ {v})
       /\ \A x, y \in V \ {v} : x # y =>
             ({x, y} \in C.edge <=> Linked(p, D, u, v, x, y))
  BY <1>1, <1>10, <1>11, <1>12
<1> QED
  BY <1>13 DEF p, D, V, C

\* ContractEdge deletes pairs of different parts.
LEMMA FinalPairs ==
  ASSUME NEW p, NEW u, NEW v, AreEnds(p, u, v), NEW D \in SUBSET AllEdges(p),
         NEW e \in Final(p, D, u, v)
  PROVE  \E x, y \in Vertices(Shrunk(p, Part(u), Part(v))) :
             Part(x) # Part(y) /\ e = {x, y}
<1> DEFINE V == Vertices(p)
           sigma == ToLast(p, u, v)
           W == NewVertex(p)
           O == Others(p, u, v)
           E == Swaps(p, D, u, v)
<1>1. Vertices(Shrunk(p, Part(u), Part(v))) = O \cup {W}
  BY VerticesLeft
<1>2. \A x \in O : Part(x) # Part(W)
  <2>1. p \in Seq(Nat \ {0})
    BY DEF AreEnds
  <2>2. DOMAIN p = 1..Len(p) /\ Len(p) \in Nat
    BY <2>1
  <2>3. Part(W) = Len(p) + 1
    BY DEF NewVertex, Part
  <2>4. \A x \in O : Part(x) \in DOMAIN p
    BY VertexFacts DEF Others
  <2> HIDE DEF W, O
  <2> QED
    BY <2>2, <2>3, <2>4
<1>3. \/ \E x \in O : e = {W, x}
      \/ e \in E /\ e \subseteq O
  BY DEF Final
<1>4. CASE \E x \in O : e = {W, x}
  BY <1>1, <1>2, <1>4
<1>5. CASE e \in E /\ e \subseteq O
  <2>1. PICK d \in D : e = Renames(sigma, d)
    BY <1>5 DEF Swaps, RenamesAll
  <2>2. PICK s, t \in V : Part(s) # Part(t) /\ d = {s, t}
    <3>1. p \in Seq(Nat) /\ d \in AllEdges(p)
      BY DEF AreEnds
    <3> QED
      BY <3>1, EdgesArePairs
  <2>3. e = {sigma[s], sigma[t]}
    <3>1. Renames(sigma, {s, t}) = {sigma[s], sigma[t]}
      BY RenamesPair
    <3> QED
      BY <2>1, <2>2, <3>1
  <2>4. Part(sigma[s]) # Part(sigma[t])
    BY <2>2, ToLastFacts
  <2> HIDE DEF sigma, O, W, E
  <2> QED
    BY <1>1, <1>5, <2>3, <2>4
<1> QED
  BY <1>3, <1>4, <1>5

\* Where ContractEdge leaves the vertices.
Moves(p, u, v) == [x \in Vertices(p) \ {v} |->
                     Tau(p, Part(u), Part(v))[Fill(p, u, v)[x]]]

LEMMA ContractedFacts ==
  ASSUME NEW g, IsGraph(g), NEW u, NEW v, AreEnds(g.parts, u, v)
  PROVE  /\ IsGraph(ContractEdge(g, u, v))
         /\ Simple(ContractEdge(g, u, v))
                = Renamed(Contraction(Simple(g), u, v), Moves(g.parts, u, v))
<1> DEFINE p == g.parts
           D == g.deleted
           a == Part(u)
           b == Part(v)
           V == Vertices(p) \ {v}
           U == Vertices(Shrunk(p, a, b))
           new == NewParts(p, a, b)
           N == Vertices(new)
           tau == Tau(p, a, b)
           fill == Fill(p, u, v)
           final == Final(p, D, u, v)
           nd == RenamesAll(tau, final)
           phi == Moves(p, u, v)
           C == Contraction(Simple(g), u, v)
           E2 == AllEdges(new) \ nd
<1>1. /\ p \in Seq(Nat \ {0}) /\ a \in 1..Len(p) /\ b \in 1..Len(p) /\ a # b
  BY EndsFacts DEF AreEnds
<1>2. /\ D \in SUBSET AllEdges(p) /\ D \in SUBSET (SUBSET Vertices(p))
  <2>1. p \in Seq(Nat) /\ D \in SUBSET AllEdges(p)
    BY DEF IsGraph
  <2>2. \A e \in D : e \in SUBSET Vertices(p)
    BY <2>1, EdgesArePairs
  <2> QED
    BY <2>1, <2>2
<1>3. ContractEdge(g, u, v) = [parts |-> new, deleted |-> nd]
  BY <1>2, ContractEdgeIs
<1>4. /\ Onto(tau, U, N) /\ OneToOne(tau, U)
      /\ \A x, y \in U : Part(tau[x]) = Part(tau[y]) <=> Part(x) = Part(y)
  <2> HIDE DEF p, a, b
  <2> QED
    BY <1>1, TauFacts
<1>5. new \in Seq(Nat \ {0})
  <2> HIDE DEF p, a, b
  <2> QED
    BY <1>1, NewPartsFacts
<1>6. \A e \in final : \E x, y \in U : Part(x) # Part(y) /\ e = {x, y}
  BY <1>2, FinalPairs
<1>7. /\ \A x, y \in N : {x, y} \in AllEdges(new) <=> Part(x) # Part(y)
      /\ \A e \in AllEdges(new) : \E x, y \in N :
            Part(x) # Part(y) /\ e = {x, y}
  <2>1. new \in Seq(Nat)
    BY <1>5
  <2> HIDE DEF new
  <2> QED
    BY <2>1, EdgesArePairs
<1>8. Onto(fill, V, U)
  BY FillFacts, VerticesLeft
<1>9. \A x, y \in V : x # y =>
         (Linked(p, D, u, v, x, y)
            <=> /\ Part(fill[x]) # Part(fill[y])
                /\ {fill[x], fill[y]} \notin final)
  BY <1>2, FinalIsLinked
<1>10. /\ C.node = V /\ ArePairs(C.edge, V)
       /\ \A x, y \in V : x # y =>
             ({x, y} \in C.edge <=> Linked(p, D, u, v, x, y))
  BY ContractionEdges
<1>11. \A x \in V : phi[x] = tau[fill[x]]
  BY DEF Moves
<1>12. Renamed(C, phi) = [node |-> {phi[x] : x \in C.node},
                          edge |-> RenamesAll(phi, C.edge)]
  BY DEF Renamed, RenamesAll, Renames
<1>13. Simple([parts |-> new, deleted |-> nd]) = [node |-> N, edge |-> E2]
  BY DEF Simple
<1>14. IsGraph([parts |-> new, deleted |-> nd])
          <=> new \in Seq(Nat \ {0}) /\ nd \subseteq AllEdges(new)
  BY DEF IsGraph
<1> HIDE DEF p, D, a, b, V, U, new, N, tau, fill, final, phi, C
<1>15. final \in SUBSET (SUBSET U)
  BY <1>6
<1>16. nd \subseteq AllEdges(new)
  <2>1. ASSUME NEW e \in nd PROVE e \in AllEdges(new)
    <3>1. PICK d \in final : e = Renames(tau, d)
      BY <2>1 DEF RenamesAll
    <3>2. PICK x, y \in U : Part(x) # Part(y) /\ d = {x, y}
      BY <1>6
    <3>3. Renames(tau, {x, y}) = {tau[x], tau[y]}
      BY RenamesPair
    <3>4. /\ tau[x] \in N /\ tau[y] \in N /\ Part(tau[x]) # Part(tau[y])
      BY <1>4, <3>2 DEF Onto
    <3>5. {tau[x], tau[y]} \in AllEdges(new)
      BY <1>7, <3>4
    <3> QED
      BY <3>1, <3>2, <3>3, <3>5
  <2> QED
    BY <2>1
<1>17. Onto(phi, V, N)
  <2>1. ASSUME NEW x \in V PROVE phi[x] \in N
    BY <1>4, <1>8, <1>11 DEF Onto
  <2>2. ASSUME NEW y \in N PROVE \E x \in V : phi[x] = y
    <3>1. PICK z \in U : tau[z] = y
      BY <1>4 DEF Onto
    <3>2. PICK x \in V : fill[x] = z
      BY <1>8 DEF Onto
    <3> QED
      BY <1>11, <3>1, <3>2
  <2> QED
    BY <2>1, <2>2 DEF Onto
<1>18. KeepsEdges(phi, V, C.edge, E2)
  <2>1. ASSUME NEW x \in V, NEW y \in V, x # y
        PROVE  {x, y} \in C.edge <=> {phi[x], phi[y]} \in E2
    <3> DEFINE X == fill[x]
               Y == fill[y]
    <3>1. X \in U /\ Y \in U
      BY <1>8 DEF Onto
    <3>2. {x, y} \in C.edge <=> Part(X) # Part(Y) /\ {X, Y} \notin final
      BY <1>9, <1>10, <2>1
    <3>3. phi[x] = tau[X] /\ phi[y] = tau[Y]
      BY <1>11
    <3> HIDE DEF X, Y
    <3>4. {tau[X], tau[Y]} \in nd <=> {X, Y} \in final
      <4>1. {X, Y} \in SUBSET U
        BY <3>1
      <4>2. Renames(tau, {X, Y}) \in nd <=> {X, Y} \in final
        BY <1>4, <1>15, <4>1, RenamesOneToOne
      <4>3. Renames(tau, {X, Y}) = {tau[X], tau[Y]}
        BY RenamesPair
      <4> QED
        BY <4>2, <4>3
    <3>5. /\ Part(tau[X]) # Part(tau[Y]) <=> Part(X) # Part(Y)
          /\ tau[X] \in N /\ tau[Y] \in N
      BY <1>4, <3>1 DEF Onto
    <3>6. {tau[X], tau[Y]} \in AllEdges(new) <=> Part(X) # Part(Y)
      BY <1>7, <3>5
    <3> QED
      BY <3>2, <3>3, <3>4, <3>6
  <2> QED
    BY <2>1 DEF KeepsEdges
<1>19. ArePairs(E2, N)
  <2>1. ASSUME NEW e \in E2 PROVE \E x, y \in N : x # y /\ e = {x, y}
    BY <1>7
  <2> HIDE DEF nd
  <2> QED
    BY <2>1 DEF ArePairs
<1> HIDE DEF E2, nd
<1>20. RenamesAll(phi, C.edge) = E2
  BY <1>10, <1>17, <1>18, <1>19, SameEdges
<1>21. {phi[x] : x \in C.node} = N
  BY <1>10, <1>17 DEF Onto
<1> QED
  BY <1>3, <1>5, <1>12, <1>13, <1>14, <1>16, <1>20, <1>21 DEF p, C, phi

\* The two ways to say where ContractEdge leaves a vertex.
LEMMA MovesAreAfterContraction ==
  ASSUME NEW u, NEW v, AreEnds(graph.parts, u, v)
  PROVE  \A x \in Vertices(graph.parts) \ {v} :
            Moves(graph.parts, u, v)[x] = AfterContraction(u, v, x)
<1> DEFINE p == graph.parts
           a == Part(u)
           b == Part(v)
           F == LastOf(p, u)
           S == LastOf(p, v)
           V == Vertices(p) \ {v}
           U == Vertices(Shrunk(p, a, b))
           W == NewVertex(p)
           sigma == ToLast(p, u, v)
           fill == Fill(p, u, v)
           tau == Tau(p, a, b)
           filled(x) == IF x = F THEN u ELSE IF x = S THEN v ELSE x
<1>1. ASSUME NEW x \in V
      PROVE  Moves(p, u, v)[x] = tau[fill[x]] /\ fill[x] \in U
  <2>1. Onto(fill, V, U)
    BY FillFacts, VerticesLeft
  <2> HIDE DEF fill, V, U
  <2>2. fill[x] \in U
    BY <2>1 DEF Onto
  <2> QED
    BY <2>2 DEF Moves, fill, V
<1>2. \A y \in U : tau[y] = <<Place(p, a, b, Part(y)), y[2]>>
  BY DEF Tau
<1>3. \A x : AfterContraction(u, v, x)
                = IF x = u THEN <<Place(p, a, b, Len(p) + 1), 1>>
                  ELSE <<Place(p, a, b, Part(x)), filled(x)[2]>>
  BY DEF AfterContraction, Place, Vanished, LastOf
<1>4. fill[u] = W /\ \A x \in V \ {u} : fill[x] = sigma[x]
  <2>1. /\ Fill(p, u, v)[u] = NewVertex(p)
        /\ \A x \in (Vertices(p) \ {v}) \ {u} :
              /\ Fill(p, u, v)[x] = ToLast(p, u, v)[x]
              /\ Fill(p, u, v)[x] \in Others(p, u, v)
    <3> HIDE DEF p
    <3> QED
      BY FillFacts DEF p
  <2> QED
    BY <2>1
<1>5. \A x \in V \ {u} : sigma[x] = filled(x)
  BY DEF ToLast
<1>6. \A x \in V : Part(sigma[x]) = Part(x)
  BY ToLastFacts
<1>7. Part(W) = Len(p) + 1 /\ W[2] = 1
  BY DEF Part, NewVertex
<1> HIDE DEF p, a, b, F, S, V, U, W, sigma, fill, tau, filled
<1>8. ASSUME NEW x \in V
      PROVE  Moves(p, u, v)[x] = AfterContraction(u, v, x)
  <2>1. Moves(p, u, v)[x] = <<Place(p, a, b, Part(fill[x])), fill[x][2]>>
    BY <1>1, <1>2
  <2>2. CASE x = u
    BY <1>3, <1>4, <1>7, <2>1, <2>2
  <2>3. CASE x # u
    BY <1>3, <1>4, <1>5, <1>6, <2>1, <2>3
  <2> QED
    BY <2>2, <2>3
<1> QED
  BY <1>8 DEF p, V

-----------------------------------------------------------------------------
(* The graphs of the programs                                              *)

\* Each step takes a graph to a graph: the inductive invariant.  Assignments
\* to a member are what they look like on a record only.
GraphIInv == /\ TypeOK
             /\ graph = [parts |-> graph.parts, deleted |-> graph.deleted]

LEMMA EdgeEnds ==
  ASSUME IsGraph(graph), NEW e \in AllEdges(graph.parts),
         NEW u \in e, NEW v \in e \ {u}
  PROVE  AreEnds(graph.parts, u, v)
<1>1. graph.parts \in Seq(Nat \ {0}) /\ graph.parts \in Seq(Nat)
  BY DEF IsGraph
<1>2. PICK x, y \in Vertices(graph.parts) : Part(x) # Part(y) /\ e = {x, y}
  BY <1>1, EdgesArePairs
<1> QED
  BY <1>1, <1>2 DEF AreEnds

LEMMA InitGraphIInv == Init => GraphIInv
<1> SUFFICES ASSUME Init PROVE GraphIInv
  OBVIOUS
<1>1. PICK parts \in StartParts :
         \E S \in SUBSET AllEdges(parts) :
            graph = [parts |-> parts, deleted |-> S]
  BY DEF Init
<1>2. PICK S \in SUBSET AllEdges(parts) :
         graph = [parts |-> parts, deleted |-> S]
  BY <1>1
<1>3. graph.parts = parts /\ graph.deleted = S
  BY <1>2
<1> QED
  BY <1>2, <1>3, StartAssumption DEF GraphIInv, TypeOK

LEMMA RestoreEdgeIInv == GraphIInv /\ RestoreEdge => GraphIInv'
<1> SUFFICES ASSUME GraphIInv, RestoreEdge PROVE GraphIInv'
  OBVIOUS
<1>1. PICK e \in graph.deleted : graph' = [graph EXCEPT !.deleted = @ \ {e}]
  BY DEF RestoreEdge
<1>2. graph' = [parts |-> graph.parts, deleted |-> graph.deleted \ {e}]
  BY <1>1 DEF GraphIInv
<1>3. graph'.parts = graph.parts /\ graph'.deleted = graph.deleted \ {e}
  BY <1>2
<1> QED
  BY <1>2, <1>3 DEF GraphIInv, TypeOK

LEMMA ContractIInv == GraphIInv /\ Contract => GraphIInv'
<1> SUFFICES ASSUME GraphIInv, Contract PROVE GraphIInv'
  OBVIOUS
<1>1. PICK e \in graph.deleted : \E u \in e : \E v \in e \ {u} :
         graph' = ContractEdge(graph, u, v)
  BY DEF Contract
<1>2. PICK u \in e : \E v \in e \ {u} : graph' = ContractEdge(graph, u, v)
  BY <1>1
<1>3. PICK v \in e \ {u} : graph' = ContractEdge(graph, u, v)
  BY <1>2
<1>4. IsGraph(graph) /\ e \in AllEdges(graph.parts)
  BY DEF GraphIInv, TypeOK, IsGraph
<1>5. AreEnds(graph.parts, u, v)
  BY <1>4, EdgeEnds
<1>6. IsGraph(graph')
  BY <1>3, <1>4, <1>5, ContractedFacts
<1>7. graph' = [parts |-> graph'.parts, deleted |-> graph'.deleted]
  BY <1>3 DEF ContractEdge
<1> QED
  BY <1>6, <1>7 DEF GraphIInv, TypeOK, IsGraph

LEMMA SwapVerticesIInv == GraphIInv /\ SwapVerticesInplace => GraphIInv'
<1> SUFFICES ASSUME GraphIInv, SwapVerticesInplace PROVE GraphIInv'
  OBVIOUS
<1> DEFINE p == graph.parts
           D == graph.deleted
           V == Vertices(p)
<1>1. PICK c \in DOMAIN p : \E u, v \in VerticesOf(p, c) :
         graph' = [graph EXCEPT !.deleted = SwapVerticesInSet(@, u, v)]
  BY DEF SwapVerticesInplace
<1>2. PICK u, v \in VerticesOf(p, c) :
         graph' = [graph EXCEPT !.deleted = SwapVerticesInSet(@, u, v)]
  BY <1>1
<1> DEFINE f == Exchange(V, u, v)
           ND == SwapVerticesInSet(D, u, v)
<1>3. graph' = [parts |-> p, deleted |-> ND]
  BY <1>2 DEF GraphIInv
<1>4. p \in Seq(Nat \ {0}) /\ p \in Seq(Nat) /\ D \in SUBSET AllEdges(p)
  BY DEF GraphIInv, TypeOK
<1>5. D \in SUBSET (SUBSET V)
  <2>1. \A e \in D : e \in SUBSET V
    BY <1>4, EdgesArePairs
  <2> QED
    BY <2>1
<1>6. ND = RenamesAll(f, D)
  BY <1>5, SwapIsExchange
<1>7. \A x \in V : f[x] \in V /\ Part(f[x]) = Part(x)
  <2>1. u \in V /\ v \in V /\ Part(u) = c /\ Part(v) = c
    BY DEF Vertices, VerticesOf, Part
  <2>2. \A x \in V : f[x] = IF x = u THEN v ELSE IF x = v THEN u ELSE x
    BY DEF Exchange
  <2> HIDE DEF f, V
  <2> QED
    BY <2>1, <2>2
<1>8. /\ \A x, y \in V : {x, y} \in AllEdges(p) <=> Part(x) # Part(y)
      /\ \A e \in AllEdges(p) : \E x, y \in V :
            Part(x) # Part(y) /\ e = {x, y}
  <2> HIDE DEF p
  <2> QED
    BY <1>4, EdgesArePairs
<1> HIDE DEF V, f, ND
<1>9. ASSUME NEW e \in ND PROVE e \in AllEdges(p)
  <2>1. PICK d \in D : e = Renames(f, d)
    BY <1>6 DEF RenamesAll
  <2>2. PICK x, y \in V : Part(x) # Part(y) /\ d = {x, y}
    BY <1>4, <1>8
  <2>3. Renames(f, {x, y}) = {f[x], f[y]}
    BY RenamesPair
  <2>4. {f[x], f[y]} \in AllEdges(p)
    BY <1>7, <1>8, <2>2
  <2> QED
    BY <2>1, <2>2, <2>3, <2>4
<1>10. graph'.parts = p /\ graph'.deleted = ND
  BY <1>3
<1> HIDE DEF p
<1> QED
  BY <1>3, <1>4, <1>9, <1>10 DEF GraphIInv, TypeOK

LEMMA NextGraphIInv == GraphIInv /\ [Next]_graph => GraphIInv'
<1> SUFFICES ASSUME GraphIInv, [Next]_graph PROVE GraphIInv'
  OBVIOUS
<1>1. CASE RestoreEdge
  BY <1>1, RestoreEdgeIInv
<1>2. CASE Contract
  BY <1>2, ContractIInv
<1>3. CASE SwapVerticesInplace
  BY <1>3, SwapVerticesIInv
<1>4. CASE UNCHANGED graph
  BY <1>4 DEF GraphIInv, TypeOK
<1> QED
  BY <1>1, <1>2, <1>3, <1>4 DEF Next

\* Whatever edges are restored or contracted and whatever vertices change
\* places, no part is empty and only edges of the complete graph are deleted.
THEOREM GraphsStayGraphs == Spec => []TypeOK
<1>1. Spec => []GraphIInv
  BY InitGraphIInv, NextGraphIInv, PTL DEF Spec
<1>2. GraphIInv => TypeOK
  BY DEF GraphIInv
<1> QED
  BY <1>1, <1>2, PTL

\* In every graph that is reached, and for every edge of its complete graph,
\* ContractEdge is the contraction of the edge.
THEOREM ContractEdgeIsContraction == Spec => []ContractEdgeContracts
<1>1. TypeOK => ContractEdgeContracts
  <2> SUFFICES ASSUME TypeOK, NEW e \in AllEdges(graph.parts),
                      NEW u \in e, NEW v \in e \ {u}
               PROVE  LET c == Contraction(Simple(graph), u, v)
                      IN  Simple(ContractEdge(graph, u, v))
                            = Renamed(c, [x \in c.node |->
                                            AfterContraction(u, v, x)])
    BY DEF ContractEdgeContracts
  <2> DEFINE c == Contraction(Simple(graph), u, v)
             f == [x \in c.node |-> AfterContraction(u, v, x)]
             g == Moves(graph.parts, u, v)
  <2>1. IsGraph(graph)
    BY DEF TypeOK, IsGraph
  <2>2. AreEnds(graph.parts, u, v)
    BY <2>1, EdgeEnds
  <2>3. c.node = Vertices(graph.parts) \ {v}
    BY DEF Contraction, Simple
  <2>4. f = g
    <3>1. \A x \in Vertices(graph.parts) \ {v} :
             g[x] = AfterContraction(u, v, x)
      BY <2>2, MovesAreAfterContraction
    <3>2. g = [x \in Vertices(graph.parts) \ {v} |-> g[x]]
      BY DEF Moves
    <3> HIDE DEF g
    <3> QED
      BY <2>3, <3>1, <3>2
  <2>5. Simple(ContractEdge(graph, u, v)) = Renamed(c, g)
    BY <2>1, <2>2, ContractedFacts
  <2> HIDE DEF c, f, g
  <2>6. Simple(ContractEdge(graph, u, v)) = Renamed(c, f)
    BY <2>4, <2>5
  <2> QED
    BY <2>6 DEF c, f
<1> QED
  BY <1>1, GraphsStayGraphs, PTL

-----------------------------------------------------------------------------
(* Sets with a least element, and sets of sets with a minimal one          *)

\* Of the sets in X, one has no proper subset in X.
LEMMA MinimalSet ==
  ASSUME NEW S, IsFiniteSet(S), NEW X \in SUBSET (SUBSET S), X # {}
  PROVE  \E T \in X : \A U \in X : U \subseteq T => U = T
<1> DEFINE R == StrictSubsetOrdering(S)
<1>1. IsWellFoundedOn(R, SUBSET S)
  BY FS_StrictSubsetOrderingWellFounded, FS_FiniteSubsetsOfFinite
<1>2. PICK T \in X : \A U \in X : ~(<<U, T>> \in R)
  <2> HIDE DEF R
  <2> QED
    BY <1>1, WFMin, Zenon
<1>3. ASSUME NEW U \in X, U \subseteq T, U # T
      PROVE  FALSE
  <2>1. <<U, T>> \in R
    BY <1>3 DEF StrictSubsetOrdering
  <2> QED
    BY <1>2, <2>1
<1> QED
  BY <1>2, <1>3

-----------------------------------------------------------------------------
(* Sums                                                                    *)

AnyOf(s) == CHOOSE x \in s : TRUE
Adds(g, f, D) ==
    g = [s \in D |-> IF s = {} THEN 0 ELSE f[AnyOf(s)] + g[s \ {AnyOf(s)}]]
UpTo(S, n) == {s \in SUBSET S : Cardinality(s) <= n}

LEMMA LessOne ==
  ASSUME NEW s, IsFiniteSet(s), s # {}
  PROVE  /\ AnyOf(s) \in s /\ s \ {AnyOf(s)} \subseteq s
         /\ s \ {AnyOf(s)} # s /\ IsFiniteSet(s \ {AnyOf(s)})
         /\ Cardinality(s) \in Nat
         /\ Cardinality(s \ {AnyOf(s)}) = Cardinality(s) - 1
<1>1. AnyOf(s) \in s
  BY DEF AnyOf
<1> QED
  BY <1>1, FS_RemoveElement, FS_CardinalityType

LEMMA AddsAgree ==
  ASSUME NEW S, IsFiniteSet(S), NEW f, NEW D, NEW g, NEW h,
         SUBSET S \subseteq D, Adds(g, f, D), Adds(h, f, SUBSET S)
  PROVE  \A s \in SUBSET S : g[s] = h[s]
<1> DEFINE X == {s \in SUBSET S : g[s] # h[s]}
<1>1. SUFFICES ASSUME X # {} PROVE FALSE
  OBVIOUS
<1>2. PICK T \in X : \A U \in X : U \subseteq T => U = T
  <2>1. X \in SUBSET (SUBSET S)
    OBVIOUS
  <2> HIDE DEF X
  <2> QED
    BY <1>1, <2>1, MinimalSet
<1>3. T # {}
  <2>1. {} \in D /\ {} \in SUBSET S
    OBVIOUS
  <2>2. g[{}] = 0 /\ h[{}] = 0
    BY <2>1 DEF Adds
  <2> QED
    BY <2>2
<1> DEFINE U == T \ {AnyOf(T)}
<1>4. U \in SUBSET S /\ U \subseteq T /\ U # T
  BY <1>3, LessOne, FS_Subset
<1>5. g[U] = h[U]
  BY <1>2, <1>4
<1>6. g[T] = f[AnyOf(T)] + g[U] /\ h[T] = f[AnyOf(T)] + h[U]
  <2>1. T \in D /\ T \in SUBSET S
    OBVIOUS
  <2> QED
    BY <1>3, <2>1 DEF Adds
<1> QED
  BY <1>5, <1>6

LEMMA AddsStart ==
  ASSUME NEW S, IsFiniteSet(S), NEW f
  PROVE  \E g : Adds(g, f, UpTo(S, 0))
<1>1. UpTo(S, 0) = {{}}
  <2>1. ASSUME NEW s \in SUBSET S, Cardinality(s) <= 0 PROVE s = {}
    BY <2>1, FS_Subset, FS_EmptySet, FS_CardinalityType
  <2> QED
    BY <2>1, FS_EmptySet DEF UpTo
<1> DEFINE g == [s \in {{}} |-> 0]
<1>2. g = [s \in {{}} |-> IF s = {} THEN 0 ELSE f[AnyOf(s)] + g[s \ {AnyOf(s)}]]
  OBVIOUS
<1> QED
  BY <1>1, <1>2 DEF Adds

LEMMA AddsGrow ==
  ASSUME NEW S, IsFiniteSet(S), NEW f, NEW n \in Nat,
         NEW g, Adds(g, f, UpTo(S, n))
  PROVE  \E h : Adds(h, f, UpTo(S, n + 1))
<1> DEFINE step(k, s) == IF s = {} THEN 0 ELSE f[AnyOf(s)] + k[s \ {AnyOf(s)}]
           h == [s \in UpTo(S, n + 1) |-> step(g, s)]
<1>1. ASSUME NEW s \in UpTo(S, n + 1), s # {}
      PROVE  s \ {AnyOf(s)} \in UpTo(S, n)
  <2>1. s \in SUBSET S /\ Cardinality(s) <= n + 1
    BY DEF UpTo
  <2>2. IsFiniteSet(s)
    BY <2>1, FS_Subset
  <2>3. s \ {AnyOf(s)} \in SUBSET S
    BY <2>1
  <2>4. Cardinality(s \ {AnyOf(s)}) <= n
    BY <1>1, <2>1, <2>2, LessOne
  <2> QED
    BY <2>3, <2>4 DEF UpTo
<1>2. ASSUME NEW s \in UpTo(S, n)
      PROVE  s \in UpTo(S, n + 1) /\ g[s] = step(g, s)
  <2>1. s \in SUBSET S /\ Cardinality(s) <= n /\ Cardinality(s) \in Nat
    BY FS_Subset, FS_CardinalityType DEF UpTo
  <2>2. s \in UpTo(S, n + 1)
    BY <2>1 DEF UpTo
  <2> QED
    BY <2>2 DEF Adds
<1>3. ASSUME NEW s \in UpTo(S, n) PROVE h[s] = g[s]
  BY <1>2
<1>4. ASSUME NEW s \in UpTo(S, n + 1) PROVE step(h, s) = step(g, s)
  <2>1. CASE s = {}
    BY <2>1
  <2>2. CASE s # {}
    <3>1. h[s \ {AnyOf(s)}] = g[s \ {AnyOf(s)}]
      BY <1>1, <1>3, <2>2
    <3> HIDE DEF h
    <3> QED
      BY <2>2, <3>1
  <2> QED
    BY <2>1, <2>2
<1>5. h = [s \in UpTo(S, n + 1) |-> step(h, s)]
  <2>1. h = [s \in UpTo(S, n + 1) |-> step(g, s)]
    OBVIOUS
  <2> HIDE DEF h, step
  <2> QED
    BY <1>4, <2>1
<1>6. Adds(h, f, UpTo(S, n + 1))
  BY <1>5 DEF Adds
<1> QED
  BY <1>6

LEMMA LeastNumber ==
  ASSUME NEW S \in SUBSET Nat, S # {}
  PROVE  \E m \in S : \A x \in S : m <= x
<1>1. PICK m \in S : \A x \in S : ~(<<x, m>> \in OpToRel(<, Nat))
  BY NatLessThanWellFounded, WFMin, Zenon
<1>2. \A x \in S : ~(x < m)
  BY <1>1 DEF OpToRel
<1> QED
  BY <1>2

LEMMA AddsExist ==
  ASSUME NEW S, IsFiniteSet(S), NEW f
  PROVE  \E g : Adds(g, f, SUBSET S)
<1> DEFINE X == {n \in Nat : ~\E g : Adds(g, f, UpTo(S, n))}
<1>1. X = {}
  <2> SUFFICES ASSUME X # {} PROVE FALSE
    OBVIOUS
  <2>1. PICK n \in X : \A k \in X : n <= k
    <3>1. X \in SUBSET Nat
      OBVIOUS
    <3> HIDE DEF X
    <3> QED
      BY <3>1, LeastNumber
  <2>2. n # 0
    BY AddsStart
  <2>3. n - 1 \in Nat /\ n - 1 \notin X /\ (n - 1) + 1 = n
    BY <2>1, <2>2
  <2>4. PICK g : Adds(g, f, UpTo(S, n - 1))
    BY <2>3
  <2>5. \E h : Adds(h, f, UpTo(S, (n - 1) + 1))
    BY <2>3, <2>4, AddsGrow
  <2> QED
    BY <2>3, <2>5
<1>2. UpTo(S, Cardinality(S)) = SUBSET S
  BY FS_Subset DEF UpTo
<1>3. \E g : Adds(g, f, UpTo(S, Cardinality(S)))
  <2>1. Cardinality(S) \in Nat /\ Cardinality(S) \notin X
    BY <1>1, FS_CardinalityType
  <2> QED
    BY <2>1
<1> QED
  BY <1>2, <1>3

LEMMA SumIsAdded ==
  ASSUME NEW S, IsFiniteSet(S), NEW f
  PROVE  \E g : Adds(g, f, SUBSET S) /\ SumFunctionOnSet(f, S) = g[S]
<1> DEFINE g == CHOOSE h : Adds(h, f, SUBSET S)
<1>1. Adds(g, f, SUBSET S)
  BY AddsExist
<1>2. SumFunctionOnSet(f, S) = g[S]
  BY DEF SumFunctionOnSet, FoldFunctionOnSet, MapThenFoldSet, Adds, AnyOf
<1> QED
  BY <1>1, <1>2

LEMMA SumDefinition ==
  ASSUME NEW S, IsFiniteSet(S), NEW f
  PROVE  SumFunctionOnSet(f, S) =
            IF S = {} THEN 0
            ELSE f[AnyOf(S)] + SumFunctionOnSet(f, S \ {AnyOf(S)})
<1>1. PICK g : Adds(g, f, SUBSET S) /\ SumFunctionOnSet(f, S) = g[S]
  BY SumIsAdded
<1>2. CASE S = {}
  BY <1>1, <1>2 DEF Adds
<1>3. CASE S # {}
  <2> DEFINE U == S \ {AnyOf(S)}
  <2>1. U \subseteq S /\ IsFiniteSet(U)
    BY <1>3, LessOne
  <2>2. PICK h : Adds(h, f, SUBSET U) /\ SumFunctionOnSet(f, U) = h[U]
    BY <2>1, SumIsAdded
  <2>3. g[U] = h[U]
    <3>1. SUBSET U \subseteq SUBSET S /\ U \in SUBSET U
      BY <2>1
    <3> HIDE DEF U
    <3>2. \A s \in SUBSET U : g[s] = h[s]
      BY <1>1, <2>1, <2>2, <3>1, AddsAgree
    <3> QED
      BY <3>1, <3>2
  <2>4. g[S] = f[AnyOf(S)] + g[U]
    BY <1>1, <1>3 DEF Adds
  <2> QED
    BY <1>1, <1>3, <2>2, <2>3, <2>4
<1> QED
  BY <1>2, <1>3

IsSummable(f, S) == IsFiniteSet(S) /\ \A x \in S : f[x] \in Int

LEMMA SumEmpty == \A f : SumFunctionOnSet(f, {}) = 0
BY SumDefinition, FS_EmptySet

LEMMA SummableSubset ==
  ASSUME NEW f, NEW S, IsSummable(f, S), NEW T \in SUBSET S
  PROVE  IsSummable(f, T)
BY FS_Subset DEF IsSummable

LEMMA SumIsInt ==
  ASSUME NEW f, NEW S, IsSummable(f, S)
  PROVE  SumFunctionOnSet(f, S) \in Int
<1> DEFINE X == {T \in SUBSET S : SumFunctionOnSet(f, T) \notin Int}
<1>0. IsFiniteSet(S)
  BY DEF IsSummable
<1>1. SUFFICES ASSUME X # {} PROVE FALSE
  OBVIOUS
<1>2. PICK T \in X : \A U \in X : U \subseteq T => U = T
  <2>1. X \in SUBSET (SUBSET S)
    OBVIOUS
  <2> HIDE DEF X
  <2> QED
    BY <1>0, <1>1, <2>1, MinimalSet
<1>3. T # {}
  BY SumEmpty
<1>4. IsFiniteSet(T)
  BY <1>0, FS_Subset
<1>5. SumFunctionOnSet(f, T \ {AnyOf(T)}) \in Int
  BY <1>2, <1>3, <1>4, LessOne
<1>6. SumFunctionOnSet(f, T)
        = f[AnyOf(T)] + SumFunctionOnSet(f, T \ {AnyOf(T)})
  BY <1>3, <1>4, SumDefinition
<1>7. f[AnyOf(T)] \in Int
  BY <1>3, <1>4, LessOne DEF IsSummable
<1> QED
  BY <1>5, <1>6, <1>7

\* The order of the summands does not matter.
LEMMA SumWithout ==
  ASSUME NEW f, NEW S, IsSummable(f, S), NEW x \in S
  PROVE  SumFunctionOnSet(f, S) = f[x] + SumFunctionOnSet(f, S \ {x})
<1> DEFINE Splits(T, y) ==
             SumFunctionOnSet(f, T) = f[y] + SumFunctionOnSet(f, T \ {y})
           X == {T \in SUBSET S : \E y \in T : ~Splits(T, y)}
<1>0. IsFiniteSet(S)
  BY DEF IsSummable
<1>1. SUFFICES ASSUME X # {} PROVE FALSE
  OBVIOUS
<1>2. PICK T \in X : \A U \in X : U \subseteq T => U = T
  <2>1. X \in SUBSET (SUBSET S)
    OBVIOUS
  <2> HIDE DEF X
  <2> QED
    BY <1>0, <1>1, <2>1, MinimalSet
<1>3. PICK y \in T : ~Splits(T, y)
  OBVIOUS
<1> DEFINE z == AnyOf(T)
           A == T \ {z}
           B == T \ {y}
           C == (T \ {z}) \ {y}
<1>4. IsFiniteSet(T) /\ z \in T
  <2>1. IsFiniteSet(T)
    BY <1>0, FS_Subset
  <2> QED
    BY <2>1, <1>3, LessOne
<1>5. SumFunctionOnSet(f, T) = f[z] + SumFunctionOnSet(f, A)
  BY <1>3, <1>4, SumDefinition
<1>6. z # y
  BY <1>3, <1>5
<1>7. SumFunctionOnSet(f, A) = f[y] + SumFunctionOnSet(f, C)
  <2>1. A \in SUBSET S /\ A \subseteq T /\ A # T /\ y \in A
    BY <1>3, <1>4, <1>6
  <2>2. Splits(A, y)
    BY <1>2, <2>1
  <2> QED
    BY <2>2
<1>8. SumFunctionOnSet(f, B) = f[z] + SumFunctionOnSet(f, C)
  <2>1. B \in SUBSET S /\ B \subseteq T /\ B # T /\ z \in B
    BY <1>3, <1>4, <1>6
  <2>2. Splits(B, z)
    BY <1>2, <2>1
  <2>3. B \ {z} = C
    OBVIOUS
  <2> QED
    BY <2>2, <2>3
<1>9. f[y] \in Int /\ f[z] \in Int /\ SumFunctionOnSet(f, C) \in Int
  <2>1. C \in SUBSET S /\ y \in S /\ z \in S
    BY <1>3, <1>4
  <2>2. IsSummable(f, C)
    BY <2>1, SummableSubset
  <2> QED
    BY <2>1, <2>2, SumIsInt DEF IsSummable
<1>10. SumFunctionOnSet(f, T) = f[y] + SumFunctionOnSet(f, B)
  <2> HIDE DEF z, A, B, C
  <2> QED
    BY <1>5, <1>7, <1>8, <1>9
<1> QED
  BY <1>3, <1>10

\* Sums of integers over the same set can be compared term by term.
LEMMA SumLinear ==
  ASSUME NEW S, NEW f, IsSummable(f, S), NEW g, IsSummable(g, S),
         NEW h, NEW k \in Int, \A x \in S : h[x] = f[x] + k * g[x]
  PROVE  /\ IsSummable(h, S)
         /\ SumFunctionOnSet(h, S)
              = SumFunctionOnSet(f, S) + k * SumFunctionOnSet(g, S)
<1> DEFINE Holds(T) ==
             SumFunctionOnSet(h, T)
               = SumFunctionOnSet(f, T) + k * SumFunctionOnSet(g, T)
           X == {T \in SUBSET S : ~Holds(T)}
<1>0. IsFiniteSet(S) /\ IsSummable(h, S)
  BY DEF IsSummable
<1>1. SUFFICES ASSUME X # {} PROVE FALSE
  BY <1>0
<1>2. PICK T \in X : \A U \in X : U \subseteq T => U = T
  <2>1. X \in SUBSET (SUBSET S)
    OBVIOUS
  <2> HIDE DEF X
  <2> QED
    BY <1>0, <1>1, <2>1, MinimalSet
<1>3. T # {}
  BY SumEmpty
<1>4. PICK x \in T : TRUE
  BY <1>3
<1> DEFINE U == T \ {x}
<1>5. U \in SUBSET S /\ U \subseteq T /\ U # T /\ x \in S
  BY <1>4
<1>6. Holds(U)
  BY <1>2, <1>5
<1>7. IsSummable(f, T) /\ IsSummable(g, T) /\ IsSummable(h, T)
      /\ IsSummable(f, U) /\ IsSummable(g, U)
  BY <1>0, <1>5, SummableSubset
<1>8. /\ SumFunctionOnSet(f, T) = f[x] + SumFunctionOnSet(f, U)
      /\ SumFunctionOnSet(g, T) = g[x] + SumFunctionOnSet(g, U)
      /\ SumFunctionOnSet(h, T) = h[x] + SumFunctionOnSet(h, U)
  BY <1>7, SumWithout
<1>9. /\ SumFunctionOnSet(f, U) \in Int /\ SumFunctionOnSet(g, U) \in Int
      /\ f[x] \in Int /\ g[x] \in Int /\ h[x] = f[x] + k * g[x]
  BY <1>5, <1>7, SumIsInt DEF IsSummable
<1>10. Holds(T)
  <2> DEFINE a == SumFunctionOnSet(f, U)
             b == SumFunctionOnSet(g, U)
  <2>1. SumFunctionOnSet(h, T) = (f[x] + k * g[x]) + (a + k * b)
    BY <1>6, <1>8, <1>9
  <2>2. k * (g[x] + b) = k * g[x] + k * b
    BY <1>9
  <2>3. k * g[x] \in Int /\ k * b \in Int
    BY <1>9
  <2> HIDE DEF a, b
  <2>4. (f[x] + k * g[x]) + (a + k * b) = (f[x] + a) + k * (g[x] + b)
    BY <1>9, <2>2, <2>3 DEF a, b
  <2> QED
    BY <1>8, <2>1, <2>4 DEF a, b
<1> QED
  BY <1>10

LEMMA SumSame ==
  ASSUME NEW S, NEW f, IsSummable(f, S), NEW h, \A x \in S : h[x] = f[x]
  PROVE  /\ IsSummable(h, S)
         /\ SumFunctionOnSet(h, S) = SumFunctionOnSet(f, S)
<1>1. PICK k \in Int : k = 0
  OBVIOUS
<1>2. \A x \in S : h[x] = f[x] + k * f[x]
  BY <1>1 DEF IsSummable
<1>3. /\ IsSummable(h, S)
      /\ SumFunctionOnSet(h, S)
           = SumFunctionOnSet(f, S) + k * SumFunctionOnSet(f, S)
  BY <1>2, SumLinear
<1>4. SumFunctionOnSet(f, S) \in Int
  BY SumIsInt
<1> QED
  BY <1>1, <1>3, <1>4

LEMMA SumOfConstant ==
  ASSUME NEW S, IsFiniteSet(S), NEW c \in Int, NEW f, \A x \in S : f[x] = c
  PROVE  SumFunctionOnSet(f, S) = c * Cardinality(S)
<1> DEFINE Holds(T) == SumFunctionOnSet(f, T) = c * Cardinality(T)
           X == {T \in SUBSET S : ~Holds(T)}
<1>1. SUFFICES ASSUME X # {} PROVE FALSE
  OBVIOUS
<1>2. PICK T \in X : \A U \in X : U \subseteq T => U = T
  <2>1. X \in SUBSET (SUBSET S)
    OBVIOUS
  <2> HIDE DEF X
  <2> QED
    BY <1>1, <2>1, MinimalSet
<1>3. T # {}
  <2>1. Holds({})
    BY SumEmpty, FS_EmptySet
  <2> QED
    BY <2>1
<1>4. PICK x \in T : TRUE
  BY <1>3
<1> DEFINE U == T \ {x}
<1>5. U \in SUBSET S /\ U \subseteq T /\ U # T /\ f[x] = c
  BY <1>4
<1>6. Holds(U)
  BY <1>2, <1>5
<1>7. IsSummable(f, T)
  BY FS_Subset DEF IsSummable
<1>8. SumFunctionOnSet(f, T) = f[x] + SumFunctionOnSet(f, U)
  BY <1>7, SumWithout
<1>9. /\ Cardinality(T) \in Nat /\ Cardinality(U) = Cardinality(T) - 1
  BY FS_Subset, FS_RemoveElement, FS_CardinalityType
<1>10. Holds(T)
  <2> HIDE DEF U, X
  <2>1. SumFunctionOnSet(f, T) = c + c * (Cardinality(T) - 1)
    BY <1>5, <1>6, <1>8, <1>9
  <2> QED
    BY <1>9, <2>1
<1> QED
  BY <1>10

-----------------------------------------------------------------------------
(* Counting                                                                *)

\* The elements of a set, counted by a key.
WithKey(A, key, k) == {a \in A : key[a] = k}

LEMMA CountByKey ==
  ASSUME NEW A, IsFiniteSet(A), NEW K, IsFiniteSet(K), NEW key,
         \A a \in A : key[a] \in K,
         NEW f, \A k \in K : f[k] = Cardinality(WithKey(A, key, k))
  PROVE  IsSummable(f, K) /\ SumFunctionOnSet(f, K) = Cardinality(A)
<1> DEFINE In(T) == {a \in A : key[a] \in T}
           Holds(T) == SumFunctionOnSet(f, T) = Cardinality(In(T))
           X == {T \in SUBSET K : ~Holds(T)}
<1>0. \A k \in K : WithKey(A, key, k) \in SUBSET A
  BY DEF WithKey
<1>1. IsSummable(f, K)
  BY <1>0, FS_Subset, FS_CardinalityType DEF IsSummable
<1>2. X = {}
  <2> SUFFICES ASSUME X # {} PROVE FALSE
    OBVIOUS
  <2>1. PICK T \in X : \A U \in X : U \subseteq T => U = T
    <3>1. X \in SUBSET (SUBSET K)
      OBVIOUS
    <3> HIDE DEF X
    <3> QED
      BY <3>1, MinimalSet
  <2>2. T # {}
    <3>1. In({}) = {}
      OBVIOUS
    <3>2. Holds({})
      BY <3>1, SumEmpty, FS_EmptySet
    <3> QED
      BY <3>2
  <2>3. PICK k \in T : TRUE
    BY <2>2
  <2> DEFINE U == T \ {k}
  <2>4. U \in SUBSET K /\ U \subseteq T /\ U # T /\ k \in K
    BY <2>3
  <2>5. Holds(U)
    BY <2>1, <2>4
  <2>6. SumFunctionOnSet(f, T) = f[k] + SumFunctionOnSet(f, U)
    BY <1>1, <2>3, SummableSubset, SumWithout
  <2>7. /\ In(T) = WithKey(A, key, k) \cup In(U)
        /\ WithKey(A, key, k) \cap In(U) = {}
        /\ WithKey(A, key, k) \in SUBSET A /\ In(U) \in SUBSET A
    BY <2>3 DEF WithKey
  <2>8. Cardinality(In(T)) = Cardinality(WithKey(A, key, k)) + Cardinality(In(U))
    <3>1. /\ IsFiniteSet(WithKey(A, key, k)) /\ IsFiniteSet(In(U))
          /\ Cardinality(WithKey(A, key, k)) \in Nat
          /\ Cardinality(In(U)) \in Nat
      BY <2>7, FS_Subset, FS_CardinalityType
    <3>2. Cardinality(WithKey(A, key, k) \cap In(U)) = 0
      BY <2>7, FS_EmptySet
    <3> HIDE DEF In
    <3>3. Cardinality(WithKey(A, key, k) \cup In(U))
            = Cardinality(WithKey(A, key, k)) + Cardinality(In(U)) - 0
      BY <3>1, <3>2, FS_Union
    <3> QED
      BY <2>7, <3>1, <3>3
  <2>9. f[k] = Cardinality(WithKey(A, key, k))
    BY <2>4
  <2>10. Holds(T)
    <3> HIDE DEF In, U, X
    <3> QED
      BY <2>5, <2>6, <2>8, <2>9
  <2> QED
    BY <2>10
<1>3. In(K) = A
  OBVIOUS
<1>4. Holds(K)
  BY <1>2
<1> QED
  BY <1>1, <1>3, <1>4

\* A one-to-one correspondence, given by a function that need not have the
\* one set as its domain.
OneToOneOnto(f, A, B) ==
    /\ \A x \in A : f[x] \in B
    /\ \A x, y \in A : f[x] = f[y] => x = y
    /\ \A y \in B : \E x \in A : f[x] = y

LEMMA SameSize ==
  ASSUME NEW A, IsFiniteSet(A), NEW B, NEW f, OneToOneOnto(f, A, B)
  PROVE  IsFiniteSet(B) /\ Cardinality(B) = Cardinality(A)
<1> DEFINE g == [x \in A |-> f[x]]
<1>1. g \in Bijection(A, B)
  BY DEF OneToOneOnto, Bijection, Injection, Surjection, IsInjective
<1>2. ExistsBijection(A, B)
  BY <1>1 DEF ExistsBijection
<1> QED
  BY <1>2, FS_Bijection

\* If each element of B is the key of n elements of A.
LEMMA CountWithMultiplicity ==
  ASSUME NEW A, IsFiniteSet(A), NEW B, IsFiniteSet(B), NEW key,
         \A a \in A : key[a] \in B,
         NEW n \in Nat, \A b \in B : Cardinality(WithKey(A, key, b)) = n
  PROVE  Cardinality(A) = n * Cardinality(B)
<1> DEFINE f == [b \in B |-> n]
<1>1. SumFunctionOnSet(f, B) = Cardinality(A)
  <2>1. \A b \in B : f[b] = Cardinality(WithKey(A, key, b))
    OBVIOUS
  <2> HIDE DEF f
  <2> QED
    BY <2>1, CountByKey
<1>2. SumFunctionOnSet(f, B) = n * Cardinality(B)
  <2>1. \A b \in B : f[b] = n
    OBVIOUS
  <2> HIDE DEF f
  <2> QED
    BY <2>1, SumOfConstant
<1> QED
  BY <1>1, <1>2

-----------------------------------------------------------------------------
(* Pairs of vertices, and edges                                            *)

LEMMA CountPairs ==
  ASSUME NEW S, IsFiniteSet(S)
  PROVE  /\ IsFiniteSet(kSubset(2, S))
         /\ Cardinality(kSubset(2, S)) = Choose2(Cardinality(S))
<1> DEFINE n == Cardinality(S)
           P == kSubset(2, S)
           D == {t \in S \X S : t[1] = t[2]}
           A == (S \X S) \ D
           key == [t \in A |-> {t[1], t[2]}]
<1>1. n \in Nat
  BY FS_CardinalityType
<1>2. IsFiniteSet(S \X S) /\ Cardinality(S \X S) = n * n
  BY FS_Product
<1>3. Cardinality(D) = n
  <2> DEFINE f == [x \in S |-> <<x, x>>]
  <2>1. OneToOneOnto(f, S, D)
    BY DEF OneToOneOnto
  <2> HIDE DEF f, D
  <2> QED
    BY <2>1, SameSize
<1>4. IsFiniteSet(A) /\ Cardinality(A) = n * n - n
  <2>1. (S \X S) \cap D = D
    OBVIOUS
  <2> HIDE DEF D
  <2>2. /\ IsFiniteSet((S \X S) \ D)
        /\ Cardinality((S \X S) \ D)
             = Cardinality(S \X S) - Cardinality((S \X S) \cap D)
    BY <1>2, FS_Difference
  <2> QED
    BY <1>2, <1>3, <2>1, <2>2
<1>5. IsFiniteSet(P)
  <2>1. P \in SUBSET (SUBSET S)
    BY DEF kSubset
  <2> HIDE DEF P
  <2> QED
    BY <2>1, FS_SUBSET, FS_Subset
<1>6. \A a \in A : key[a] \in P
  BY PairsHaveTwo DEF kSubset
<1>7. ASSUME NEW e \in P
      PROVE  Cardinality(WithKey(A, key, e)) = 2
  <2>1. e \in SUBSET S /\ Cardinality(e) = 2 /\ IsFiniteSet(e)
    BY FS_Subset DEF kSubset
  <2>2. PICK x, y \in e : x # y /\ e = {x, y}
    BY <2>1, PairsHaveTwo
  <2>3. WithKey(A, key, e) = {<<x, y>>, <<y, x>>}
    <3>1. <<x, y>> \in A /\ <<y, x>> \in A
      BY <2>1, <2>2
    <3>2. key[<<x, y>>] = e /\ key[<<y, x>>] = e
      BY <2>2, <3>1
    <3>3. ASSUME NEW a \in A, key[a] = e
          PROVE  a = <<x, y>> \/ a = <<y, x>>
      <4>1. a = <<a[1], a[2]>> /\ {a[1], a[2]} = {x, y}
        BY <2>2, <3>3
      <4>2. \/ a[1] = x /\ a[2] = y
            \/ a[1] = y /\ a[2] = x
        BY <2>2, <3>3, <4>1
      <4> QED
        BY <4>1, <4>2
    <3> HIDE DEF A, key
    <3> QED
      BY <3>1, <3>2, <3>3 DEF WithKey
  <2>4. <<x, y>> # <<y, x>>
    BY <2>2
  <2> HIDE DEF A, key
  <2>5. Cardinality({<<x, y>>, <<y, x>>}) = 2
    BY <2>4, PairsHaveTwo, Zenon
  <2> QED
    BY <2>3, <2>5
<1>8. n * n - n = 2 * Cardinality(P)
  <2> HIDE DEF A, P, key
  <2> QED
    BY <1>4, <1>5, <1>6, <1>7, CountWithMultiplicity
<1>9. Cardinality(P) \in Nat
  BY <1>5, FS_CardinalityType
<1>10. n * (n - 1) = n * n - n
  BY <1>1
<1> HIDE DEF n, P
<1>11. (2 * Cardinality(P)) \div 2 = Cardinality(P)
  BY <1>9
<1> QED
  BY <1>5, <1>8, <1>10, <1>11 DEF Choose2, n, P

-----------------------------------------------------------------------------
(* Sigma                                                                   *)

\* A row of the table from which Sigma takes its result, made from the last.
Row(m, s, last) ==
    [i \in 1..(Len(s) + 1) |->
        IF m = 1 THEN SumFunctionOnSet(s, i..Len(s))
        ELSE SumFunction([j \in i..(Len(s) - m + 1) |-> s[j] * last[j + 1]])]
IsTable(f, n, s) == f = [m \in 1..n |-> Row(m, s, f[m - 1])]

LEMMA FirstRow == \A s, a, b : Row(1, s, a) = Row(1, s, b)
BY DEF Row

LEMMA TableExists ==
  ASSUME NEW n \in 1..3, NEW s
  PROVE  \E f : IsTable(f, n, s)
<1> DEFINE one == Row(1, s, 0)
           two == Row(2, s, one)
           f == [m \in 1..n |-> IF m = 1 THEN one ELSE IF m = 2 THEN two
                                ELSE Row(3, s, two)]
<1>1. ASSUME NEW m \in 1..n PROVE f[m] = Row(m, s, f[m - 1])
  <2>1. CASE m = 1
    <3>1. f[m] = one /\ one = Row(1, s, f[m - 1])
      BY <2>1, FirstRow
    <3> QED
      BY <2>1, <3>1
  <2>2. CASE m = 2
    <3>1. m - 1 \in 1..n /\ m - 1 = 1
      BY <2>2
    <3>2. f[m] = two /\ f[m - 1] = one
      BY <2>2, <3>1
    <3> QED
      BY <2>2, <3>2
  <2>3. CASE m = 3
    <3>1. m - 1 \in 1..n /\ m - 1 = 2
      BY <2>3
    <3>2. f[m] = Row(3, s, two) /\ f[m - 1] = two
      BY <2>3, <3>1
    <3> QED
      BY <2>3, <3>2
  <2> QED
    BY <2>1, <2>2, <2>3
<1>2. f = [m \in 1..n |-> f[m]]
  OBVIOUS
<1> HIDE DEF f
<1>3. f = [m \in 1..n |-> Row(m, s, f[m - 1])]
  BY <1>1, <1>2, Zenon
<1> QED
  BY <1>3 DEF IsTable

LEMMA SigmaIsTabled ==
  ASSUME NEW n \in 1..3, NEW s
  PROVE  \E f : IsTable(f, n, s) /\ Sigma(n, s) = f[n][1]
<1> DEFINE f == CHOOSE g : IsTable(g, n, s)
<1>1. IsTable(f, n, s)
  BY TableExists
<1>2. Sigma(n, s) = f[n][1]
  BY DEF Sigma, IsTable, Row
<1> QED
  BY <1>1, <1>2

\* The sums of the products of two and of three elements.
SumOfTwo(s, i) ==
    SumFunction([j \in i..(Len(s) - 2 + 1) |->
                    s[j] * SumFunctionOnSet(s, (j + 1)..Len(s))])

LEMMA SumsOfProducts ==
  ASSUME NEW S, NEW s \in Seq(S)
  PROVE  /\ Sigma(2, s) = SumOfTwo(s, 1)
         /\ Sigma(3, s) = SumFunction([j \in 1..(Len(s) - 3 + 1) |->
                                          s[j] * SumOfTwo(s, j + 1)])
<1>0. Len(s) \in Nat
  OBVIOUS
<1>1. ASSUME NEW n \in 2..3, NEW f, IsTable(f, n, s)
      PROVE  \A i \in 1..(Len(s) + 1) : f[2][i] = SumOfTwo(s, i)
  <2> SUFFICES ASSUME NEW i \in 1..(Len(s) + 1) PROVE f[2][i] = SumOfTwo(s, i)
    OBVIOUS
  <2>1. f[1] = Row(1, s, f[1 - 1]) /\ f[2] = Row(2, s, f[1])
    <3>1. 1 \in 1..n /\ 2 \in 1..n /\ 2 - 1 = 1
      OBVIOUS
    <3> QED
      BY <1>1, <3>1 DEF IsTable
  <2>2. \A k \in 1..(Len(s) + 1) : f[1][k] = SumFunctionOnSet(s, k..Len(s))
    BY <2>1 DEF Row
  <2>3. f[2][i] = SumFunction([j \in i..(Len(s) - 2 + 1) |-> s[j] * f[1][j + 1]])
    BY <2>1 DEF Row
  <2>4. \A j \in i..(Len(s) - 2 + 1) : j + 1 \in 1..(Len(s) + 1)
    BY <1>0
  <2>5. [j \in i..(Len(s) - 2 + 1) |-> s[j] * f[1][j + 1]]
          = [j \in i..(Len(s) - 2 + 1) |->
                s[j] * SumFunctionOnSet(s, (j + 1)..Len(s))]
    BY <2>2, <2>4
  <2> QED
    BY <2>3, <2>5, Zenon DEF SumOfTwo
<1>2. Sigma(2, s) = SumOfTwo(s, 1)
  <2>1. 2 \in 1..3 /\ 2 \in 2..3 /\ 1 \in 1..(Len(s) + 1)
    BY <1>0
  <2>2. PICK f : IsTable(f, 2, s) /\ Sigma(2, s) = f[2][1]
    BY <2>1, SigmaIsTabled
  <2>3. f[2][1] = SumOfTwo(s, 1)
    BY <1>1, <2>1, <2>2
  <2> QED
    BY <2>2, <2>3
<1>3. Sigma(3, s) = SumFunction([j \in 1..(Len(s) - 3 + 1) |->
                                    s[j] * SumOfTwo(s, j + 1)])
  <2>1. 3 \in 1..3 /\ 3 \in 2..3 /\ 1 \in 1..(Len(s) + 1)
    BY <1>0
  <2>2. PICK f : IsTable(f, 3, s) /\ Sigma(3, s) = f[3][1]
    BY <2>1, SigmaIsTabled
  <2>3. \A i \in 1..(Len(s) + 1) : f[2][i] = SumOfTwo(s, i)
    BY <1>1, <2>1, <2>2
  <2>4. f[3] = Row(3, s, f[2])
    <3>1. 3 \in 1..3 /\ 3 - 1 = 2
      OBVIOUS
    <3> QED
      BY <2>2, <3>1 DEF IsTable
  <2>5. f[3][1] = SumFunction([j \in 1..(Len(s) - 3 + 1) |-> s[j] * f[2][j + 1]])
    BY <2>1, <2>4 DEF Row
  <2>6. \A j \in 1..(Len(s) - 3 + 1) : j + 1 \in 1..(Len(s) + 1)
    BY <1>0
  <2>7. [j \in 1..(Len(s) - 3 + 1) |-> s[j] * f[2][j + 1]]
          = [j \in 1..(Len(s) - 3 + 1) |-> s[j] * SumOfTwo(s, j + 1)]
    BY <2>3, <2>6
  <2> QED
    BY <2>2, <2>5, <2>7
<1> QED
  BY <1>2, <1>3

-----------------------------------------------------------------------------
(* Vertices, edges and triangles of a complete graph                       *)

VerticesIn(p, C) == {x \in Vertices(p) : Part(x) \in C}

LEMMA PartSize ==
  ASSUME NEW p \in Seq(Nat), NEW c \in DOMAIN p
  PROVE  /\ IsFiniteSet(VerticesOf(p, c)) /\ Cardinality(VerticesOf(p, c)) = p[c]
         /\ p[c] \in Nat
<1> DEFINE f == [i \in 1..p[c] |-> <<c, i>>]
<1>1. p[c] \in Nat
  OBVIOUS
<1>2. OneToOneOnto(f, 1..p[c], VerticesOf(p, c))
  BY DEF OneToOneOnto, VerticesOf
<1>3. IsFiniteSet(1..p[c]) /\ Cardinality(1..p[c]) = p[c]
  BY <1>1, FS_Interval
<1> HIDE DEF f
<1> QED
  BY <1>1, <1>2, <1>3, SameSize

LEMMA VerticesOfPart ==
  ASSUME NEW p \in Seq(Nat), NEW c \in DOMAIN p
  PROVE  VerticesOf(p, c) = {x \in Vertices(p) : Part(x) = c}
BY DEF Vertices, VerticesOf, Part

LEMMA CountVertices ==
  ASSUME NEW p \in Seq(Nat), NEW C \in SUBSET DOMAIN p
  PROVE  /\ IsSummable(p, C) /\ IsFiniteSet(VerticesIn(p, C))
         /\ SumFunctionOnSet(p, C) = Cardinality(VerticesIn(p, C))
<1> DEFINE A == VerticesIn(p, C)
           key == [x \in A |-> Part(x)]
<1>1. IsFiniteSet(A)
  <2>1. A \in SUBSET Vertices(p)
    BY DEF VerticesIn
  <2> QED
    BY <2>1, VerticesAreFinite, FS_Subset
<1>2. IsFiniteSet(C)
  <2>1. DOMAIN p = 1..Len(p) /\ IsFiniteSet(1..Len(p))
    BY FS_Interval
  <2> QED
    BY <2>1, FS_Subset
<1>3. \A a \in A : key[a] \in C
  BY DEF VerticesIn
<1>4. ASSUME NEW c \in C
      PROVE  p[c] = Cardinality(WithKey(A, key, c))
  <2>1. WithKey(A, key, c) = VerticesOf(p, c)
    BY VerticesOfPart DEF WithKey, VerticesIn
  <2> QED
    BY <2>1, PartSize
<1> HIDE DEF A, key
<1>5. IsSummable(p, C) /\ SumFunctionOnSet(p, C) = Cardinality(A)
  BY <1>1, <1>2, <1>3, <1>4, CountByKey
<1> QED
  BY <1>1, <1>5 DEF A

LEMMA VerticesAreCounted ==
  ASSUME NEW p \in Seq(Nat)
  PROVE  VerticesCount(p) = Cardinality(Vertices(p))
<1>1. VerticesIn(p, DOMAIN p) = Vertices(p)
  BY VertexFacts DEF VerticesIn
<1> QED
  BY <1>1, CountVertices DEF VerticesCount, SumFunction

\* Pairs, and triples, of vertices with rising parts.
Rising2(p, i) == {t \in Vertices(p) \X Vertices(p) :
                     i <= Part(t[1]) /\ Part(t[1]) < Part(t[2])}
Rising3(p) == {t \in Vertices(p) \X Rising2(p, 1) : Part(t[1]) < Part(t[2][1])}

LEMMA CountRising2 ==
  ASSUME NEW p \in Seq(Nat), NEW i \in 1..(Len(p) + 1)
  PROVE  /\ IsFiniteSet(Rising2(p, i))
         /\ SumOfTwo(p, i) = Cardinality(Rising2(p, i))
<1> DEFINE A == Rising2(p, i)
           K == i..(Len(p) - 2 + 1)
           behind(c) == (c + 1)..Len(p)
           key == [t \in A |-> Part(t[1])]
           f == [c \in K |-> p[c] * SumFunctionOnSet(p, behind(c))]
<1>0. Len(p) \in Nat /\ DOMAIN p = 1..Len(p)
  OBVIOUS
<1>1. IsFiniteSet(A)
  <2>1. A \in SUBSET (Vertices(p) \X Vertices(p))
    BY DEF Rising2
  <2> HIDE DEF A
  <2> QED
    BY <2>1, VerticesAreFinite, FS_Product, FS_Subset
<1>2. IsFiniteSet(K)
  BY <1>0, FS_Interval
<1>3. \A t \in A : key[t] \in K
  <2> SUFFICES ASSUME NEW t \in A PROVE Part(t[1]) \in K
    OBVIOUS
  <2>1. /\ Part(t[1]) \in 1..Len(p) /\ Part(t[2]) \in 1..Len(p)
        /\ i <= Part(t[1]) /\ Part(t[1]) < Part(t[2])
    BY <1>0, VertexFacts DEF Rising2
  <2> QED
    BY <1>0, <2>1
<1>4. ASSUME NEW c \in K
      PROVE  f[c] = Cardinality(WithKey(A, key, c))
  <2>1. c \in DOMAIN p /\ c \in Nat /\ i <= c /\ behind(c) \in SUBSET DOMAIN p
    BY <1>0
  <2>2. WithKey(A, key, c) = VerticesOf(p, c) \X VerticesIn(p, behind(c))
    <3>1. ASSUME NEW t \in A, key[t] = c
          PROVE  t \in VerticesOf(p, c) \X VerticesIn(p, behind(c))
      <4>1. /\ t = <<t[1], t[2]>> /\ t[1] \in Vertices(p) /\ t[2] \in Vertices(p)
            /\ Part(t[1]) = c /\ c < Part(t[2])
        BY <3>1 DEF Rising2
      <4>2. Part(t[2]) \in behind(c)
        BY <1>0, <2>1, <4>1, VertexFacts
      <4>3. t[1] \in VerticesOf(p, c)
        BY <2>1, <4>1, VerticesOfPart
      <4>4. t[2] \in VerticesIn(p, behind(c))
        BY <4>1, <4>2 DEF VerticesIn
      <4> QED
        BY <4>1, <4>3, <4>4
    <3>2. ASSUME NEW x \in VerticesOf(p, c), NEW y \in VerticesIn(p, behind(c))
          PROVE  <<x, y>> \in A /\ key[<<x, y>>] = c
      <4>1. x \in Vertices(p) /\ Part(x) = c
        BY <2>1, VerticesOfPart
      <4>2. y \in Vertices(p) /\ Part(y) \in behind(c)
        BY DEF VerticesIn
      <4>3. c < Part(y)
        BY <2>1, <4>2
      <4>4. <<x, y>> \in A
        BY <2>1, <4>1, <4>2, <4>3 DEF Rising2
      <4> QED
        BY <4>1, <4>4
    <3> HIDE DEF A, key
    <3> QED
      BY <3>1, <3>2 DEF WithKey
  <2>3. /\ IsFiniteSet(VerticesOf(p, c)) /\ Cardinality(VerticesOf(p, c)) = p[c]
    BY <2>1, PartSize
  <2>4. /\ IsFiniteSet(VerticesIn(p, behind(c)))
        /\ SumFunctionOnSet(p, behind(c)) = Cardinality(VerticesIn(p, behind(c)))
    <3> HIDE DEF behind
    <3> QED
      BY <2>1, CountVertices
  <2>5. f[c] = p[c] * SumFunctionOnSet(p, behind(c))
    OBVIOUS
  <2> HIDE DEF A, K, key, f, behind
  <2>6. Cardinality(VerticesOf(p, c) \X VerticesIn(p, behind(c)))
          = p[c] * SumFunctionOnSet(p, behind(c))
    BY <2>3, <2>4, FS_Product
  <2> QED
    BY <2>2, <2>5, <2>6
<1>5. SumOfTwo(p, i) = SumFunctionOnSet(f, K)
  BY DEF SumOfTwo, SumFunction
<1> HIDE DEF A, K, key, f
<1>6. SumFunctionOnSet(f, K) = Cardinality(A)
  BY <1>1, <1>2, <1>3, <1>4, CountByKey
<1> QED
  BY <1>1, <1>5, <1>6 DEF A

LEMMA CountRising3 ==
  ASSUME NEW p \in Seq(Nat)
  PROVE  /\ IsFiniteSet(Rising3(p))
         /\ SumFunction([j \in 1..(Len(p) - 3 + 1) |-> p[j] * SumOfTwo(p, j + 1)])
              = Cardinality(Rising3(p))
<1> DEFINE A == Rising3(p)
           K == 1..(Len(p) - 3 + 1)
           key == [t \in A |-> Part(t[1])]
           f == [j \in K |-> p[j] * SumOfTwo(p, j + 1)]
<1>0. Len(p) \in Nat /\ DOMAIN p = 1..Len(p) /\ 1 \in 1..(Len(p) + 1)
  OBVIOUS
<1>1. IsFiniteSet(A)
  <2>1. A \in SUBSET (Vertices(p) \X Rising2(p, 1))
    BY DEF Rising3
  <2> HIDE DEF A
  <2> QED
    BY <1>0, <2>1, VerticesAreFinite, CountRising2, FS_Product, FS_Subset
<1>2. IsFiniteSet(K)
  BY <1>0, FS_Interval
<1>3. \A t \in A : key[t] \in K
  <2> SUFFICES ASSUME NEW t \in A PROVE Part(t[1]) \in K
    OBVIOUS
  <2>1. /\ t[1] \in Vertices(p) /\ t[2][1] \in Vertices(p)
        /\ t[2][2] \in Vertices(p)
        /\ Part(t[1]) < Part(t[2][1]) /\ Part(t[2][1]) < Part(t[2][2])
    BY DEF Rising2, Rising3
  <2>2. /\ Part(t[1]) \in 1..Len(p) /\ Part(t[2][1]) \in 1..Len(p)
        /\ Part(t[2][2]) \in 1..Len(p)
    BY <1>0, <2>1, VertexFacts
  <2> QED
    BY <1>0, <2>1, <2>2
<1>4. ASSUME NEW c \in K
      PROVE  f[c] = Cardinality(WithKey(A, key, c))
  <2>1. /\ c \in DOMAIN p /\ c \in Nat /\ 1 <= c /\ c + 1 \in 1..(Len(p) + 1)
    BY <1>0
  <2>2. WithKey(A, key, c) = VerticesOf(p, c) \X Rising2(p, c + 1)
    <3>1. ASSUME NEW t \in A, key[t] = c
          PROVE  t \in VerticesOf(p, c) \X Rising2(p, c + 1)
      <4>1. /\ t = <<t[1], t[2]>> /\ t[1] \in Vertices(p)
            /\ t[2] \in Vertices(p) \X Vertices(p)
            /\ Part(t[1]) = c /\ c < Part(t[2][1])
            /\ Part(t[2][1]) < Part(t[2][2])
        BY <3>1 DEF Rising2, Rising3
      <4>2. Part(t[2][1]) \in 1..Len(p)
        BY <1>0, <4>1, VertexFacts
      <4>3. c + 1 <= Part(t[2][1])
        BY <2>1, <4>1, <4>2
      <4>4. t[2] \in Rising2(p, c + 1)
        BY <4>1, <4>3 DEF Rising2
      <4>5. t[1] \in VerticesOf(p, c)
        BY <2>1, <4>1, VerticesOfPart
      <4> QED
        BY <4>1, <4>4, <4>5
    <3>2. ASSUME NEW x \in VerticesOf(p, c), NEW y \in Rising2(p, c + 1)
          PROVE  <<x, y>> \in A /\ key[<<x, y>>] = c
      <4>1. x \in Vertices(p) /\ Part(x) = c
        BY <2>1, VerticesOfPart
      <4>2. /\ y \in Vertices(p) \X Vertices(p)
            /\ c + 1 <= Part(y[1]) /\ Part(y[1]) < Part(y[2])
        BY DEF Rising2
      <4>3. Part(y[1]) \in 1..Len(p)
        BY <1>0, <4>2, VertexFacts
      <4>4. c < Part(y[1]) /\ 1 <= Part(y[1])
        BY <2>1, <4>2, <4>3
      <4>5. <<x, y>> \in A
        BY <4>1, <4>2, <4>4 DEF Rising2, Rising3
      <4> QED
        BY <4>1, <4>5
    <3> HIDE DEF A, key
    <3> QED
      BY <3>1, <3>2 DEF WithKey
  <2>3. /\ IsFiniteSet(VerticesOf(p, c)) /\ Cardinality(VerticesOf(p, c)) = p[c]
    BY <2>1, PartSize
  <2>4. /\ IsFiniteSet(Rising2(p, c + 1))
        /\ SumOfTwo(p, c + 1) = Cardinality(Rising2(p, c + 1))
    BY <2>1, CountRising2
  <2>5. f[c] = p[c] * SumOfTwo(p, c + 1)
    OBVIOUS
  <2> HIDE DEF A, K, key, f
  <2>6. Cardinality(VerticesOf(p, c) \X Rising2(p, c + 1))
          = p[c] * SumOfTwo(p, c + 1)
    BY <2>3, <2>4, FS_Product
  <2> QED
    BY <2>2, <2>5, <2>6
<1>5. SumFunction(f) = SumFunctionOnSet(f, K)
  BY DEF SumFunction
<1>6. SumFunctionOnSet(f, K) = Cardinality(A)
  <2> HIDE DEF A, K, key, f
  <2> QED
    BY <1>1, <1>2, <1>3, <1>4, CountByKey
<1> QED
  BY <1>1, <1>5, <1>6

LEMMA EdgesAreCounted ==
  ASSUME NEW p \in Seq(Nat)
  PROVE  /\ IsFiniteSet(AllEdges(p))
         /\ CompleteI2(p) = Cardinality(AllEdges(p))
<1> DEFINE A == Rising2(p, 1)
           f == [t \in A |-> {t[1], t[2]}]
<1>0. 1 \in 1..(Len(p) + 1) /\ DOMAIN p = 1..Len(p) /\ Len(p) \in Nat
  OBVIOUS
<1>1. ASSUME NEW t \in A
      PROVE  /\ t = <<t[1], t[2]>> /\ t[1] \in Vertices(p) /\ t[2] \in Vertices(p)
             /\ Part(t[1]) \in Nat /\ Part(t[2]) \in Nat /\ Part(t[1]) < Part(t[2])
  <2>1. /\ t = <<t[1], t[2]>> /\ t[1] \in Vertices(p) /\ t[2] \in Vertices(p)
        /\ Part(t[1]) < Part(t[2])
    BY DEF Rising2
  <2>2. Part(t[1]) \in 1..Len(p) /\ Part(t[2]) \in 1..Len(p)
    BY <1>0, <2>1, VertexFacts
  <2> QED
    BY <2>1, <2>2
<1>2. OneToOneOnto(f, A, AllEdges(p))
  <2>1. ASSUME NEW t \in A PROVE f[t] \in AllEdges(p)
    <3>1. Part(t[1]) # Part(t[2])
      BY <1>1
    <3>2. {t[1], t[2]} \in AllEdges(p)
      BY <1>1, <3>1, EdgesArePairs
    <3> QED
      BY <3>2
  <2>2. ASSUME NEW s \in A, NEW t \in A, f[s] = f[t]
        PROVE  s = t
    <3>1. {s[1], s[2]} = {t[1], t[2]}
      BY <2>2
    <3>2. (s[1] = t[1] /\ s[2] = t[2]) \/ (s[1] = t[2] /\ s[2] = t[1])
      BY <3>1
    <3>3. s[1] = t[1] /\ s[2] = t[2]
      BY <1>1, <3>2
    <3>4. s = <<s[1], s[2]>> /\ t = <<t[1], t[2]>>
      BY <1>1
    <3> HIDE DEF A, f
    <3> QED
      BY <3>3, <3>4
  <2>3. ASSUME NEW e \in AllEdges(p) PROVE \E t \in A : f[t] = e
    <3>1. PICK x, y \in Vertices(p) : Part(x) # Part(y) /\ e = {x, y}
      BY EdgesArePairs
    <3>2. Part(x) \in 1..Len(p) /\ Part(y) \in 1..Len(p)
      BY <1>0, VertexFacts
    <3>3. CASE Part(x) < Part(y)
      <4>1. <<x, y>> \in A
        BY <3>2, <3>3 DEF Rising2
      <4>2. f[<<x, y>>] = e
        BY <3>1, <4>1
      <4> QED
        BY <4>1, <4>2
    <3>4. CASE Part(y) < Part(x)
      <4>1. <<y, x>> \in A
        BY <3>2, <3>4 DEF Rising2
      <4>2. f[<<y, x>>] = e
        BY <3>1, <4>1
      <4> QED
        BY <4>1, <4>2
    <3>5. Part(x) < Part(y) \/ Part(y) < Part(x)
      BY <3>1, <3>2
    <3> HIDE DEF A, f
    <3> QED
      BY <3>3, <3>4, <3>5
  <2> HIDE DEF A, f
  <2> QED
    BY <2>1, <2>2, <2>3 DEF OneToOneOnto
<1> HIDE DEF f
<1>3. IsFiniteSet(AllEdges(p)) /\ Cardinality(AllEdges(p)) = Cardinality(A)
  BY <1>0, <1>2, SameSize, CountRising2
<1>4. CompleteI2(p) = Cardinality(A)
  BY <1>0, SumsOfProducts, CountRising2 DEF CompleteI2
<1> QED
  BY <1>3, <1>4

LEMMA TriplesHaveThree ==
  /\ \A x, y, z : x # y /\ y # z /\ x # z =>
        IsFiniteSet({x, y, z}) /\ Cardinality({x, y, z}) = 3
  /\ \A S : IsFiniteSet(S) /\ Cardinality(S) = 3 =>
        \E x, y, z \in S : x # y /\ y # z /\ x # z /\ S = {x, y, z}
<1>1. ASSUME NEW x, NEW y, NEW z, x # y, y # z, x # z
      PROVE  IsFiniteSet({x, y, z}) /\ Cardinality({x, y, z}) = 3
  <2>1. Cardinality({x, y}) = 2
    BY <1>1, PairsHaveTwo
  <2>2. IsFiniteSet({x, y})
    <3>1. IsFiniteSet({x})
      BY FS_Singleton
    <3>2. IsFiniteSet({x} \cup {y})
      BY <3>1, FS_AddElement
    <3>3. {x} \cup {y} = {x, y}
      OBVIOUS
    <3> QED
      BY <3>2, <3>3
  <2>3. z \notin {x, y}
    BY <1>1
  <2>4. IsFiniteSet({x, y} \cup {z}) /\ Cardinality({x, y} \cup {z}) = 2 + 1
    BY <2>1, <2>2, <2>3, FS_AddElement
  <2>5. {x, y} \cup {z} = {x, y, z}
    OBVIOUS
  <2> QED
    BY <2>4, <2>5
<1>2. ASSUME NEW S, IsFiniteSet(S), Cardinality(S) = 3
      PROVE  \E x, y, z \in S : x # y /\ y # z /\ x # z /\ S = {x, y, z}
  <2>1. PICK z \in S : TRUE
    BY <1>2, FS_EmptySet
  <2>2. IsFiniteSet(S \ {z}) /\ Cardinality(S \ {z}) = 2
    BY <1>2, FS_RemoveElement
  <2>3. PICK x, y \in S \ {z} : x # y /\ S \ {z} = {x, y}
    BY <2>2, PairsHaveTwo
  <2>4. S = {x, y, z}
    BY <2>3
  <2> QED
    BY <2>3, <2>4
<1> QED
  BY <1>1, <1>2

AllTriangles(p) == {T \in kSubset(3, Vertices(p)) :
                       \A x, y \in T : x # y => Part(x) # Part(y)}

LEMMA AllTrianglesAreCounted ==
  ASSUME NEW p \in Seq(Nat)
  PROVE  /\ IsFiniteSet(AllTriangles(p))
         /\ CompleteI3(p) = Cardinality(AllTriangles(p))
<1> DEFINE A == Rising3(p)
           f == [t \in A |-> {t[1], t[2][1], t[2][2]}]
<1>0. DOMAIN p = 1..Len(p) /\ Len(p) \in Nat
  OBVIOUS
<1>1. ASSUME NEW t \in A
      PROVE  /\ t = <<t[1], <<t[2][1], t[2][2]>>>>
             /\ t[1] \in Vertices(p) /\ t[2][1] \in Vertices(p)
             /\ t[2][2] \in Vertices(p)
             /\ Part(t[1]) \in Nat /\ Part(t[2][1]) \in Nat
             /\ Part(t[2][2]) \in Nat
             /\ Part(t[1]) < Part(t[2][1]) /\ Part(t[2][1]) < Part(t[2][2])
  <2>1. /\ t = <<t[1], <<t[2][1], t[2][2]>>>>
        /\ t[1] \in Vertices(p) /\ t[2][1] \in Vertices(p)
        /\ t[2][2] \in Vertices(p)
        /\ Part(t[1]) < Part(t[2][1]) /\ Part(t[2][1]) < Part(t[2][2])
    BY DEF Rising2, Rising3
  <2>2. /\ Part(t[1]) \in 1..Len(p) /\ Part(t[2][1]) \in 1..Len(p)
        /\ Part(t[2][2]) \in 1..Len(p)
    BY <1>0, <2>1, VertexFacts
  <2> QED
    BY <2>1, <2>2
<1>2. ASSUME NEW x \in Vertices(p), NEW y \in Vertices(p), NEW z \in Vertices(p),
             Part(x) < Part(y), Part(y) < Part(z)
      PROVE  <<x, <<y, z>>>> \in A /\ f[<<x, <<y, z>>>>] = {x, y, z}
  <2>1. Part(x) \in 1..Len(p) /\ Part(y) \in 1..Len(p) /\ Part(z) \in 1..Len(p)
    BY <1>0, VertexFacts
  <2>2. <<x, <<y, z>>>> \in A
    BY <1>2, <2>1 DEF Rising3, Rising2
  <2> QED
    BY <2>2
<1>3. ASSUME NEW t \in A PROVE f[t] \in AllTriangles(p)
  <2> DEFINE x == t[1]
             y == t[2][1]
             z == t[2][2]
  <2>1. /\ x \in Vertices(p) /\ y \in Vertices(p) /\ z \in Vertices(p)
        /\ Part(x) # Part(y) /\ Part(y) # Part(z) /\ Part(x) # Part(z)
    BY <1>1
  <2>2. f[t] = {x, y, z}
    OBVIOUS
  <2> HIDE DEF x, y, z, f
  <2>3. x # y /\ y # z /\ x # z
    BY <2>1
  <2>4. {x, y, z} \in kSubset(3, Vertices(p))
    BY <2>1, <2>3, TriplesHaveThree DEF kSubset
  <2> QED
    BY <2>1, <2>2, <2>4 DEF AllTriangles
<1>4. ASSUME NEW s \in A, NEW t \in A, f[s] = f[t]
      PROVE  s = t
  <2> DEFINE a == s[1]
             b == s[2][1]
             c == s[2][2]
             x == t[1]
             y == t[2][1]
             z == t[2][2]
  <2>1. /\ s = <<a, <<b, c>>>> /\ t = <<x, <<y, z>>>>
        /\ Part(a) \in Nat /\ Part(b) \in Nat /\ Part(c) \in Nat
        /\ Part(x) \in Nat /\ Part(y) \in Nat /\ Part(z) \in Nat
        /\ Part(a) < Part(b) /\ Part(b) < Part(c)
        /\ Part(x) < Part(y) /\ Part(y) < Part(z)
    BY <1>1
  <2>2. {a, b, c} = {x, y, z}
    BY <1>4
  <2> HIDE DEF a, b, c, x, y, z, A, f
  <2>3. /\ a = x \/ a = y \/ a = z
        /\ b = x \/ b = y \/ b = z
        /\ c = x \/ c = y \/ c = z
    BY <2>2
  <2>4. a = x /\ b = y /\ c = z
    BY <2>1, <2>3
  <2> QED
    BY <2>1, <2>4
<1>5. ASSUME NEW T \in AllTriangles(p) PROVE \E t \in A : f[t] = T
  <2>1. T \in SUBSET Vertices(p) /\ Cardinality(T) = 3
    BY DEF AllTriangles, kSubset
  <2>2. IsFiniteSet(T)
    BY <2>1, VerticesAreFinite, FS_Subset
  <2>3. PICK x, y, z \in T : x # y /\ y # z /\ x # z /\ T = {x, y, z}
    BY <2>1, <2>2, TriplesHaveThree
  <2>4. /\ Part(x) # Part(y) /\ Part(y) # Part(z) /\ Part(x) # Part(z)
        /\ x \in Vertices(p) /\ y \in Vertices(p) /\ z \in Vertices(p)
    BY <2>1, <2>3 DEF AllTriangles
  <2>5. Part(x) \in Nat /\ Part(y) \in Nat /\ Part(z) \in Nat
    BY <1>0, <2>4, VertexFacts
  <2>6. PICK u, v, w \in Vertices(p) :
           T = {u, v, w} /\ Part(u) < Part(v) /\ Part(v) < Part(w)
    <3>1. /\ {x, y, z} = {x, z, y} /\ {x, y, z} = {y, x, z}
          /\ {x, y, z} = {y, z, x} /\ {x, y, z} = {z, x, y}
          /\ {x, y, z} = {z, y, x}
      OBVIOUS
    <3>2. \/ Part(x) < Part(y) /\ Part(y) < Part(z)
          \/ Part(x) < Part(z) /\ Part(z) < Part(y)
          \/ Part(y) < Part(x) /\ Part(x) < Part(z)
          \/ Part(y) < Part(z) /\ Part(z) < Part(x)
          \/ Part(z) < Part(x) /\ Part(x) < Part(y)
          \/ Part(z) < Part(y) /\ Part(y) < Part(x)
      BY <2>4, <2>5
    <3> QED
      BY <2>3, <2>4, <3>1, <3>2, Zenon
  <2>7. /\ <<u, <<v, w>>>> \in A
        /\ f[<<u, <<v, w>>>>] = T
    BY <1>2, <2>6
  <2> HIDE DEF A, f
  <2> QED
    BY <2>7
<1>6. OneToOneOnto(f, A, AllTriangles(p))
  <2> HIDE DEF A, f
  <2> QED
    BY <1>3, <1>4, <1>5 DEF OneToOneOnto
<1> HIDE DEF f
<1>7. IsFiniteSet(AllTriangles(p)) /\ Cardinality(AllTriangles(p)) = Cardinality(A)
  BY <1>6, SameSize, CountRising3
<1>8. CompleteI3(p) = Cardinality(A)
  <2>1. CASE Len(p) < 3
    <3>1. 1..(Len(p) - 3 + 1) = {}
      BY <1>0, <2>1
    <3>2. SumFunction([j \in 1..(Len(p) - 3 + 1) |-> p[j] * SumOfTwo(p, j + 1)]) = 0
      BY <3>1, SumEmpty DEF SumFunction
    <3> QED
      BY <2>1, <3>2, CountRising3 DEF CompleteI3
  <2>2. CASE ~(Len(p) < 3)
    BY <2>2, SumsOfProducts, CountRising3 DEF CompleteI3
  <2> QED
    BY <2>1, <2>2
<1> QED
  BY <1>7, <1>8

-----------------------------------------------------------------------------
(* Triangles of a dense graph                                              *)

\* The deleted edges of a triangle of the complete graph.
Missing(g, T) == {e \in g.deleted : e \subseteq T}

LEMMA GraphFacts ==
  ASSUME NEW g, IsGraph(g)
  PROVE  /\ g.parts \in Seq(Nat) /\ IsFiniteSet(Vertices(g.parts))
         /\ IsFiniteSet(AllEdges(g.parts)) /\ IsFiniteSet(g.deleted)
         /\ \A e \in g.deleted :
               /\ e \in AllEdges(g.parts) /\ e \in SUBSET Vertices(g.parts)
               /\ IsFiniteSet(e) /\ Cardinality(e) = 2
<1>1. g.parts \in Seq(Nat) /\ g.deleted \in SUBSET AllEdges(g.parts)
  BY DEF IsGraph
<1>2. IsFiniteSet(Vertices(g.parts)) /\ IsFiniteSet(AllEdges(g.parts))
  BY <1>1, VerticesAreFinite, EdgesAreCounted
<1>3. IsFiniteSet(g.deleted)
  BY <1>1, <1>2, FS_Subset
<1>4. ASSUME NEW e \in g.deleted
      PROVE  /\ e \in AllEdges(g.parts) /\ e \in SUBSET Vertices(g.parts)
             /\ IsFiniteSet(e) /\ Cardinality(e) = 2
  <2>1. e \in AllEdges(g.parts)
    BY <1>1
  <2>2. e \in SUBSET Vertices(g.parts) /\ Cardinality(e) = 2
    BY <2>1 DEF AllEdges, kSubset
  <2> QED
    BY <1>2, <2>1, <2>2, FS_Subset
<1> QED
  BY <1>1, <1>2, <1>3, <1>4

LEMMA TriangleFacts ==
  ASSUME NEW p \in Seq(Nat), NEW T \in AllTriangles(p)
  PROVE  /\ T \in SUBSET Vertices(p) /\ IsFiniteSet(T) /\ Cardinality(T) = 3
         /\ IsFiniteSet(kSubset(2, T)) /\ Cardinality(kSubset(2, T)) = 3
         /\ \A x, y \in T : x # y => Part(x) # Part(y)
<1>1. /\ T \in SUBSET Vertices(p) /\ Cardinality(T) = 3
      /\ \A x, y \in T : x # y => Part(x) # Part(y)
  BY DEF AllTriangles, kSubset
<1>2. IsFiniteSet(T)
  BY <1>1, VerticesAreFinite, FS_Subset
<1>3. IsFiniteSet(kSubset(2, T)) /\ Cardinality(kSubset(2, T)) = Choose2(3)
  BY <1>1, <1>2, CountPairs
<1>4. Choose2(3) = 3
  BY DEF Choose2
<1> QED
  BY <1>1, <1>2, <1>3, <1>4

LEMMA MissingFacts ==
  ASSUME NEW g, IsGraph(g), NEW T \in AllTriangles(g.parts)
  PROVE  /\ IsFiniteSet(Missing(g, T)) /\ Missing(g, T) \subseteq kSubset(2, T)
         /\ Cardinality(Missing(g, T)) \in 0..3
         /\ Cardinality(Missing(g, T)) = 3 <=> kSubset(2, T) \subseteq g.deleted
         /\ Cardinality(Missing(g, T)) = 0 <=> Missing(g, T) = {}
<1> DEFINE M == Missing(g, T)
<1>1. /\ IsFiniteSet(kSubset(2, T)) /\ Cardinality(kSubset(2, T)) = 3
  BY GraphFacts, TriangleFacts
<1>2. M \subseteq kSubset(2, T)
  BY GraphFacts DEF Missing, kSubset
<1>3. kSubset(2, T) \subseteq g.deleted => M = kSubset(2, T)
  <2>1. \A e \in kSubset(2, T) : e \subseteq T
    BY DEF kSubset
  <2> QED
    BY <1>2, <2>1 DEF Missing
<1>4. M \subseteq g.deleted
  BY DEF Missing
<1> HIDE DEF M
<1>5. /\ IsFiniteSet(M) /\ Cardinality(M) \in Nat /\ Cardinality(M) <= 3
      /\ Cardinality(M) = 3 => M = kSubset(2, T)
      /\ Cardinality(M) = 0 <=> M = {}
  BY <1>1, <1>2, FS_Subset, FS_CardinalityType, FS_EmptySet
<1>6. Cardinality(M) = 3 <=> kSubset(2, T) \subseteq g.deleted
  BY <1>1, <1>3, <1>4, <1>5
<1>7. Cardinality(M) \in 0..3
  BY <1>5
<1> QED
  BY <1>2, <1>5, <1>6, <1>7 DEF M

\* The triangles of the graph are those without a deleted edge.
LEMMA TrianglesAreWhole ==
  ASSUME NEW g, IsGraph(g)
  PROVE  Triangles(Simple(g)) = {T \in AllTriangles(g.parts) :
                                        Missing(g, T) = {}}
<1> DEFINE p == g.parts
           V == Vertices(g.parts)
           E == AllEdges(g.parts) \ g.deleted
<1>0. p \in Seq(Nat)
  BY GraphFacts
<1>1. Triangles(Simple(g))
        = {T \in kSubset(3, V) : \A x, y \in T : x # y => {x, y} \in E}
  BY DEF Triangles, Adjacent, Simple
<1>2. ASSUME NEW T \in kSubset(3, V), \A x, y \in T : x # y => {x, y} \in E
      PROVE  T \in AllTriangles(p) /\ Missing(g, T) = {}
  <2>1. T \in SUBSET V
    BY DEF kSubset
  <2>2. T \in AllTriangles(p)
    BY <1>0, <1>2, <2>1, EdgesArePairs DEF AllTriangles
  <2>3. ASSUME NEW e \in Missing(g, T) PROVE FALSE
    <3>1. e \in g.deleted /\ e \subseteq T
      BY DEF Missing
    <3>2. PICK x, y \in e : x # y /\ e = {x, y}
      BY <3>1, GraphFacts, PairsHaveTwo
    <3> QED
      BY <1>2, <3>1, <3>2
  <2> QED
    BY <2>2, <2>3
<1>3. ASSUME NEW T \in AllTriangles(p), Missing(g, T) = {},
             NEW x \in T, NEW y \in T, x # y
      PROVE  {x, y} \in E
  <2>1. x \in V /\ y \in V /\ Part(x) # Part(y)
    BY <1>0, <1>3, TriangleFacts
  <2>2. {x, y} \in AllEdges(p)
    BY <1>0, <2>1, EdgesArePairs
  <2>3. {x, y} \notin g.deleted
    BY <1>3 DEF Missing
  <2> QED
    BY <2>2, <2>3
<1>4. AllTriangles(p) \subseteq kSubset(3, V)
  BY DEF AllTriangles
<1> HIDE DEF p, V, E
<1> QED
  BY <1>1, <1>2, <1>3, <1>4 DEF p

\* Triangles with a property, as a sum of ones.
LEMMA CountSome ==
  ASSUME NEW S, IsFiniteSet(S), NEW A \in SUBSET S, NEW f,
         \A x \in S : f[x] = IF x \in A THEN 1 ELSE 0
  PROVE  IsSummable(f, S) /\ SumFunctionOnSet(f, S) = Cardinality(A)
<1> DEFINE key == [x \in A |-> x]
<1>1. IsFiniteSet(A) /\ \A a \in A : key[a] \in S
  BY FS_Subset
<1>2. ASSUME NEW x \in S PROVE f[x] = Cardinality(WithKey(A, key, x))
  <2>1. CASE x \in A
    <3>1. WithKey(A, key, x) = {x}
      BY <2>1 DEF WithKey
    <3> QED
      BY <2>1, <3>1, FS_Singleton
  <2>2. CASE x \notin A
    <3>1. WithKey(A, key, x) = {}
      BY <2>2 DEF WithKey
    <3> QED
      BY <2>2, <3>1, FS_EmptySet
  <2> QED
    BY <2>1, <2>2
<1> HIDE DEF key
<1> QED
  BY <1>1, <1>2, CountByKey

\* Pairs of a deleted edge and a triangle of the complete graph through it.
Through(g) == {t \in g.deleted \X AllTriangles(g.parts) : t[1] \subseteq t[2]}

LEMMA ThroughIsFinite ==
  ASSUME NEW g, IsGraph(g)
  PROVE  IsFiniteSet(Through(g))
<1>1. IsFiniteSet(g.deleted) /\ IsFiniteSet(AllTriangles(g.parts))
  BY GraphFacts, AllTrianglesAreCounted
<1>2. Through(g) \in SUBSET (g.deleted \X AllTriangles(g.parts))
  BY DEF Through
<1> QED
  BY <1>1, <1>2, FS_Product, FS_Subset

\* A deleted edge spoils the triangles with a vertex of another part.
LEMMA Xi1CountsThrough ==
  ASSUME NEW g, IsGraph(g)
  PROVE  Xi1(g) = Cardinality(Through(g))
<1> DEFINE p == g.parts
           A == Through(g)
           key == [t \in A |-> t[1]]
           f == [e \in g.deleted |->
                    VerticesCount(p) - SumFunctionOnSet(p, Parts(e))]
<1>0. p \in Seq(Nat) /\ IsFiniteSet(g.deleted)
  BY GraphFacts
<1>1. \A t \in A : key[t] \in g.deleted
  BY DEF Through
<1>2. ASSUME NEW e \in g.deleted
      PROVE  f[e] = Cardinality(WithKey(A, key, e))
  <2> DEFINE C == Parts(e)
             Z == Vertices(p) \ VerticesIn(p, C)
             h == [z \in Z |-> <<e, e \cup {z}>>]
  <2>1. PICK x, y \in Vertices(p) : Part(x) # Part(y) /\ e = {x, y}
    BY <1>0, GraphFacts, EdgesArePairs
  <2>2. C = {Part(x), Part(y)} /\ C \subseteq DOMAIN p
    BY <1>0, <2>1, VertexFacts DEF Parts
  <2>3. /\ IsFiniteSet(VerticesIn(p, C)) /\ IsFiniteSet(Vertices(p))
        /\ SumFunctionOnSet(p, C) = Cardinality(VerticesIn(p, C))
        /\ VerticesCount(p) = Cardinality(Vertices(p))
    BY <1>0, <2>2, CountVertices, VerticesAreCounted, VerticesAreFinite
  <2>4. IsFiniteSet(Z) /\ Cardinality(Z) = f[e]
    <3>1. Vertices(p) \cap VerticesIn(p, C) = VerticesIn(p, C)
      BY DEF VerticesIn
    <3>2. f[e] = Cardinality(Vertices(p)) - Cardinality(VerticesIn(p, C))
      BY <2>3
    <3> HIDE DEF C, f
    <3> QED
      BY <2>3, <3>1, <3>2, FS_Difference
  <2>5. ASSUME NEW z \in Z
        PROVE  /\ z \in Vertices(p) /\ z # x /\ z # y
               /\ e \cup {z} = {x, y, z}
               /\ {x, y, z} \in AllTriangles(p)
    <3>1. z \in Vertices(p) /\ Part(z) # Part(x) /\ Part(z) # Part(y)
      BY <2>2 DEF VerticesIn
    <3>2. x # y /\ z # x /\ z # y
      BY <2>1, <3>1
    <3>3. Cardinality({x, y, z}) = 3
      BY <3>2, TriplesHaveThree
    <3>4. {x, y, z} \in kSubset(3, Vertices(p))
      BY <2>1, <3>1, <3>3 DEF kSubset
    <3>5. {x, y, z} \in AllTriangles(p)
      BY <2>1, <3>1, <3>4 DEF AllTriangles
    <3>6. e \cup {z} = {x, y, z}
      BY <2>1
    <3> QED
      BY <3>1, <3>2, <3>5, <3>6
  <2>6. ASSUME NEW T \in AllTriangles(p), e \subseteq T
        PROVE  \E z \in Z : T = e \cup {z}
    <3>1. /\ T \in SUBSET Vertices(p) /\ IsFiniteSet(T) /\ Cardinality(T) = 3
          /\ \A u, v \in T : u # v => Part(u) # Part(v)
      BY <1>0, TriangleFacts
    <3>2. IsFiniteSet(e) /\ Cardinality(e) = 2
      BY GraphFacts
    <3>3. PICK z \in T : z \notin e
      BY <2>6, <3>1, <3>2
    <3>4. Cardinality(e \cup {z}) = 3
      <4> HIDE DEF C, Z, h, A, key, f
      <4>1. Cardinality(e \cup {z}) = Cardinality(e) + 1
        BY <3>2, <3>3, FS_AddElement
      <4> QED
        BY <3>2, <4>1
    <3>5. e \cup {z} = T
      BY <2>6, <3>1, <3>3, <3>4, FS_Subset
    <3>6. Part(z) # Part(x) /\ Part(z) # Part(y)
      BY <2>1, <2>6, <3>1, <3>3
    <3>7. z \in Z
      BY <2>2, <3>1, <3>6 DEF VerticesIn
    <3> QED
      BY <3>5, <3>7
  <2>7. WithKey(A, key, e) = {<<e, T>> : T \in {U \in AllTriangles(p) :
                                                   e \subseteq U}}
    <3>1. ASSUME NEW t \in A, key[t] = e
          PROVE  t = <<e, t[2]>> /\ t[2] \in AllTriangles(p) /\ e \subseteq t[2]
      BY <3>1 DEF Through
    <3>2. ASSUME NEW T \in AllTriangles(p), e \subseteq T
          PROVE  <<e, T>> \in A /\ key[<<e, T>>] = e
      <4>1. <<e, T>> \in A
        BY <3>2 DEF Through
      <4> QED
        BY <4>1
    <3> HIDE DEF A, key
    <3> QED
      BY <3>1, <3>2 DEF WithKey
  <2>8. OneToOneOnto(h, Z, WithKey(A, key, e))
    <3>1. ASSUME NEW z \in Z PROVE h[z] \in WithKey(A, key, e)
      <4>1. e \cup {z} \in AllTriangles(p)
        BY <2>5
      <4>2. h[z] = <<e, e \cup {z}>>
        OBVIOUS
      <4> QED
        BY <2>7, <4>1, <4>2
    <3>2. ASSUME NEW z \in Z, NEW w \in Z, h[z] = h[w] PROVE z = w
      <4>1. e \cup {z} = e \cup {w}
        BY <3>2
      <4>2. z \notin e /\ w \notin e
        BY <2>1, <2>5
      <4> QED
        BY <4>1, <4>2
    <3>3. ASSUME NEW t \in WithKey(A, key, e) PROVE \E z \in Z : h[z] = t
      <4>1. PICK T \in AllTriangles(p) : e \subseteq T /\ t = <<e, T>>
        BY <2>7
      <4>2. PICK z \in Z : T = e \cup {z}
        BY <2>6, <4>1
      <4> QED
        BY <4>1, <4>2
    <3> HIDE DEF A, key, h, Z
    <3> QED
      BY <3>1, <3>2, <3>3 DEF OneToOneOnto
  <2> HIDE DEF Z, h, A, key, f
  <2> QED
    BY <2>4, <2>8, SameSize
<1>3. Xi1(g) = SumFunctionOnSet(f, g.deleted)
  BY DEF Xi1, SumFunction
<1> HIDE DEF A, key, f
<1>4. SumFunctionOnSet(f, g.deleted) = Cardinality(A)
  BY <1>0, <1>1, <1>2, ThroughIsFinite, CountByKey DEF A
<1> QED
  BY <1>3, <1>4 DEF A

\* Counted by the triangles, they are the missing edges of each.
LEMMA MissingCountThrough ==
  ASSUME NEW g, IsGraph(g), NEW f,
         \A T \in AllTriangles(g.parts) : f[T] = Cardinality(Missing(g, T))
  PROVE  /\ IsSummable(f, AllTriangles(g.parts))
         /\ SumFunctionOnSet(f, AllTriangles(g.parts)) = Cardinality(Through(g))
<1> DEFINE A == Through(g)
           B == AllTriangles(g.parts)
           key == [t \in A |-> t[2]]
<1>1. IsFiniteSet(A) /\ IsFiniteSet(B)
  BY GraphFacts, ThroughIsFinite, AllTrianglesAreCounted
<1>2. \A t \in A : key[t] \in B
  BY DEF Through
<1>3. ASSUME NEW T \in B PROVE f[T] = Cardinality(WithKey(A, key, T))
  <2> DEFINE h == [e \in Missing(g, T) |-> <<e, T>>]
  <2>1. ASSUME NEW e \in Missing(g, T)
        PROVE  <<e, T>> \in A /\ key[<<e, T>>] = T
    <3>1. <<e, T>> \in A
      BY DEF Missing, Through
    <3> QED
      BY <3>1
  <2>2. ASSUME NEW t \in A, key[t] = T
        PROVE  t[1] \in Missing(g, T) /\ t = <<t[1], T>>
    BY <2>2 DEF Missing, Through
  <2>3. OneToOneOnto(h, Missing(g, T), WithKey(A, key, T))
    <3> HIDE DEF A, key
    <3> QED
      BY <2>1, <2>2 DEF OneToOneOnto, WithKey
  <2>4. IsFiniteSet(Missing(g, T))
    BY MissingFacts
  <2> HIDE DEF h, A, key
  <2> QED
    BY <2>3, <2>4, SameSize
<1> HIDE DEF A, B, key
<1>4. \A T \in B : f[T] = Cardinality(WithKey(A, key, T))
  BY <1>3
<1> QED
  BY <1>1, <1>2, <1>4, CountByKey DEF A, B

LEMMA PartsDiffer ==
  ASSUME NEW T, IsFiniteSet(T)
  PROVE  /\ IsFiniteSet(Parts(T)) /\ Cardinality(Parts(T)) <= Cardinality(T)
         /\ Cardinality(Parts(T)) = Cardinality(T) <=>
               \A x, y \in T : x # y => Part(x) # Part(y)
<1> DEFINE f == [x \in T |-> Part(x)]
<1>1. f \in Surjection(T, Parts(T))
  BY DEF Surjection, Parts
<1>2. f \in Injection(T, Parts(T)) <=>
         \A x, y \in T : x # y => Part(x) # Part(y)
  <2>1. f \in [T -> Parts(T)]
    BY DEF Parts
  <2> QED
    BY <2>1 DEF Injection, IsInjective
<1> HIDE DEF f
<1> QED
  BY <1>1, <1>2, FS_Surjection

\* The pairs that ComputeXi2AndXi3 looks for are two edges of a triangle.
LEMMA Xi2AreInTriangles ==
  ASSUME NEW g, IsGraph(g), NEW s \in kSubset(2, g.deleted)
  PROVE  s \in Xi2Subgraphs(g) <=> UNION s \in AllTriangles(g.parts)
<1> DEFINE T == UNION s
           V == Vertices(g.parts)
<1>1. T \in SUBSET V
  BY GraphFacts DEF kSubset
<1>2. IsFiniteSet(T)
  BY <1>1, GraphFacts, FS_Subset
<1>3. s \in Xi2Subgraphs(g) <=> Cardinality(T) = 3 /\ Cardinality(Parts(T)) = 3
  BY DEF Xi2Subgraphs, Parts
<1>4. T \in AllTriangles(g.parts) <=>
         /\ Cardinality(T) = 3
         /\ \A x, y \in T : x # y => Part(x) # Part(y)
  BY <1>1 DEF AllTriangles, kSubset
<1> HIDE DEF T, V
<1>5. Cardinality(T) = 3 => (Cardinality(Parts(T)) = 3 <=>
         \A x, y \in T : x # y => Part(x) # Part(y))
  BY <1>2, PartsDiffer
<1> QED
  BY <1>3, <1>4, <1>5 DEF T

LEMMA Xi2OfTriangle ==
  ASSUME NEW g, IsGraph(g), NEW T \in AllTriangles(g.parts), NEW s
  PROVE  s \in Xi2Subgraphs(g) /\ UNION s = T <=> s \in kSubset(2, Missing(g, T))
<1>1. ASSUME s \in Xi2Subgraphs(g), UNION s = T
      PROVE  s \in kSubset(2, Missing(g, T))
  <2>1. s \in SUBSET g.deleted /\ Cardinality(s) = 2
    BY <1>1 DEF Xi2Subgraphs, kSubset
  <2>2. s \in SUBSET Missing(g, T)
    BY <1>1, <2>1 DEF Missing
  <2> QED
    BY <2>1, <2>2 DEF kSubset
<1>2. ASSUME s \in kSubset(2, Missing(g, T))
      PROVE  s \in Xi2Subgraphs(g) /\ UNION s = T
  <2>1. /\ s \in SUBSET Missing(g, T) /\ Cardinality(s) = 2
        /\ Missing(g, T) \subseteq g.deleted
    BY <1>2 DEF Missing, kSubset
  <2>2. IsFiniteSet(s)
    BY <2>1, MissingFacts, FS_Subset
  <2>3. PICK d, e \in s : d # e /\ s = {d, e}
    BY <2>1, <2>2, PairsHaveTwo
  <2> DEFINE U == UNION s
  <2>4. /\ d \subseteq T /\ e \subseteq T /\ d \subseteq U /\ e \subseteq U
        /\ U \subseteq T
    BY <2>1, <2>3 DEF Missing
  <2>5. /\ IsFiniteSet(d) /\ IsFiniteSet(e)
        /\ Cardinality(d) = 2 /\ Cardinality(e) = 2
    BY <2>1, GraphFacts
  <2>6. IsFiniteSet(T) /\ Cardinality(T) = 3
    BY GraphFacts, TriangleFacts
  <2> HIDE DEF U
  <2>7. IsFiniteSet(U) /\ Cardinality(U) <= 3 /\ Cardinality(U) \in Nat
        /\ (Cardinality(U) = 3 => U = T)
    BY <2>4, <2>6, FS_Subset, FS_CardinalityType
  <2>8. Cardinality(U) # 2
    <3> SUFFICES ASSUME Cardinality(U) = 2 PROVE FALSE
      OBVIOUS
    <3>1. d = U /\ e = U
      BY <2>4, <2>5, <2>7, FS_Subset
    <3> QED
      BY <2>3, <3>1
  <2>9. Cardinality(U) >= 2
    BY <2>4, <2>5, <2>7, FS_Subset
  <2>10. U = T
    BY <2>7, <2>8, <2>9
  <2>11. s \in kSubset(2, g.deleted)
    BY <2>1 DEF kSubset
  <2> QED
    BY <2>10, <2>11, Xi2AreInTriangles DEF U
<1> QED
  BY <1>1, <1>2

\* The pairs of missing edges of each triangle.
LEMMA PairsCountXi2 ==
  ASSUME NEW g, IsGraph(g), NEW f,
         \A T \in AllTriangles(g.parts) :
            f[T] = Choose2(Cardinality(Missing(g, T)))
  PROVE  /\ IsFiniteSet(Xi2Subgraphs(g))
         /\ IsSummable(f, AllTriangles(g.parts))
         /\ SumFunctionOnSet(f, AllTriangles(g.parts))
              = Cardinality(Xi2Subgraphs(g))
<1> DEFINE A == Xi2Subgraphs(g)
           B == AllTriangles(g.parts)
           key == [s \in A |-> UNION s]
<1>1. IsFiniteSet(A) /\ IsFiniteSet(B)
  <2>1. A \in SUBSET kSubset(2, g.deleted)
    BY DEF Xi2Subgraphs
  <2>2. IsFiniteSet(kSubset(2, g.deleted))
    BY GraphFacts, CountPairs
  <2> HIDE DEF A
  <2> QED
    BY <2>1, <2>2, FS_Subset, GraphFacts, AllTrianglesAreCounted
<1>2. \A s \in A : key[s] \in B
  BY Xi2AreInTriangles DEF Xi2Subgraphs
<1>3. ASSUME NEW T \in B PROVE f[T] = Cardinality(WithKey(A, key, T))
  <2>1. WithKey(A, key, T) = kSubset(2, Missing(g, T))
    BY Xi2OfTriangle DEF WithKey
  <2>2. Cardinality(kSubset(2, Missing(g, T))) = Choose2(Cardinality(Missing(g, T)))
    BY MissingFacts, CountPairs
  <2> QED
    BY <2>1, <2>2
<1> HIDE DEF A, B, key
<1>4. IsSummable(f, B) /\ SumFunctionOnSet(f, B) = Cardinality(A)
  <2>1. \A T \in B : f[T] = Cardinality(WithKey(A, key, T))
    BY <1>3
  <2> QED
    BY <1>1, <1>2, <2>1, CountByKey
<1> QED
  BY <1>1, <1>4 DEF A, B

\* Triangles all of whose edges are deleted.
Gaps(g) == {T \in AllTriangles(g.parts) : Cardinality(Missing(g, T)) = 3}

LEMMA ClosedCountGaps ==
  ASSUME NEW g, IsGraph(g)
  PROVE  /\ IsFiniteSet(Gaps(g))
         /\ Cardinality({s \in Xi2Subgraphs(g) : Closed(g, s)})
              = 3 * Cardinality(Gaps(g))
<1> DEFINE A == {s \in Xi2Subgraphs(g) : Closed(g, s)}
           B == Gaps(g)
           key == [s \in A |-> UNION s]
<1>1. IsFiniteSet(A) /\ IsFiniteSet(B)
  <2>1. A \in SUBSET kSubset(2, g.deleted) /\ B \in SUBSET AllTriangles(g.parts)
    BY DEF Xi2Subgraphs, Gaps
  <2>2. /\ IsFiniteSet(kSubset(2, g.deleted))
        /\ IsFiniteSet(AllTriangles(g.parts))
    BY GraphFacts, CountPairs, AllTrianglesAreCounted
  <2> HIDE DEF A, B
  <2> QED
    BY <2>1, <2>2, FS_Subset
<1>2. \A s \in A : key[s] \in B
  <2> SUFFICES ASSUME NEW s \in A PROVE UNION s \in B
    OBVIOUS
  <2>1. s \in kSubset(2, g.deleted) /\ s \in Xi2Subgraphs(g)
    BY DEF Xi2Subgraphs
  <2>2. UNION s \in AllTriangles(g.parts)
    BY <2>1, Xi2AreInTriangles
  <2>3. kSubset(2, UNION s) \subseteq g.deleted
    BY DEF Closed
  <2> QED
    BY <2>2, <2>3, MissingFacts DEF Gaps
<1>3. ASSUME NEW T \in B PROVE Cardinality(WithKey(A, key, T)) = 3
  <2>1. T \in AllTriangles(g.parts) /\ Cardinality(Missing(g, T)) = 3
    BY DEF Gaps
  <2>2. kSubset(2, T) \subseteq g.deleted
    BY <2>1, MissingFacts
  <2>3. WithKey(A, key, T) = {s \in Xi2Subgraphs(g) : UNION s = T}
    BY <2>2 DEF WithKey, Closed
  <2>4. WithKey(A, key, T) = kSubset(2, Missing(g, T))
    BY <2>1, <2>3, Xi2OfTriangle
  <2>5. Cardinality(kSubset(2, Missing(g, T))) = Choose2(3)
    BY <2>1, MissingFacts, CountPairs
  <2>6. Choose2(3) = 3
    BY DEF Choose2
  <2> HIDE DEF A, B, key
  <2> QED
    BY <2>4, <2>5, <2>6
<1> HIDE DEF A, B, key
<1>4. Cardinality(A) = 3 * Cardinality(B)
  <2>1. \A T \in B : Cardinality(WithKey(A, key, T)) = 3
    BY <1>3
  <2>2. PICK n \in Nat : n = 3
    OBVIOUS
  <2> QED
    BY <1>1, <1>2, <2>1, <2>2, CountWithMultiplicity
<1> QED
  BY <1>1, <1>4 DEF A, B

\* Inclusion and exclusion over the missing edges.
LEMMA I3CountsTriangles ==
  ASSUME NEW g, IsGraph(g)
  PROVE  I3Invariant(g) = Cardinality(Triangles(Simple(g)))
<1> DEFINE B == AllTriangles(g.parts)
           m(T) == Cardinality(Missing(g, T))
           one == [T \in B |-> 1]
           missing == [T \in B |-> m(T)]
           pairs == [T \in B |-> Choose2(m(T))]
           gap == [T \in B |-> IF T \in Gaps(g) THEN 1 ELSE 0]
           whole == [T \in B |-> IF T \in Triangles(Simple(g)) THEN 1 ELSE 0]
           less == [T \in B |-> one[T] + (-1) * missing[T]]
           more == [T \in B |-> less[T] + 1 * pairs[T]]
<1>0. /\ g.parts \in Seq(Nat) /\ IsFiniteSet(B)
      /\ CompleteI3(g.parts) = Cardinality(B)
  BY GraphFacts, AllTrianglesAreCounted
<1>1. Triangles(Simple(g)) \in SUBSET B /\ Gaps(g) \in SUBSET B
  BY TrianglesAreWhole DEF Gaps
<1>2. IsSummable(one, B) /\ SumFunctionOnSet(one, B) = Cardinality(B)
  <2>1. \A T \in B : one[T] = 1
    OBVIOUS
  <2> HIDE DEF one
  <2>2. SumFunctionOnSet(one, B) = 1 * Cardinality(B)
    BY <1>0, <2>1, SumOfConstant
  <2>3. Cardinality(B) \in Nat
    BY <1>0, FS_CardinalityType
  <2> QED
    BY <1>0, <2>1, <2>2, <2>3 DEF IsSummable
<1>3. /\ IsSummable(missing, B)
      /\ SumFunctionOnSet(missing, B) = Xi1(g)
  <2>1. \A T \in B : missing[T] = Cardinality(Missing(g, T))
    OBVIOUS
  <2> HIDE DEF missing
  <2> QED
    BY <2>1, MissingCountThrough, Xi1CountsThrough
<1>4. /\ IsSummable(pairs, B)
      /\ SumFunctionOnSet(pairs, B) = Cardinality(Xi2Subgraphs(g))
      /\ IsFiniteSet(Xi2Subgraphs(g))
  <2>1. \A T \in B : pairs[T] = Choose2(Cardinality(Missing(g, T)))
    OBVIOUS
  <2> HIDE DEF pairs
  <2> QED
    BY <2>1, PairsCountXi2
<1>5. IsSummable(gap, B) /\ SumFunctionOnSet(gap, B) = Cardinality(Gaps(g))
  <2>1. \A T \in B : gap[T] = IF T \in Gaps(g) THEN 1 ELSE 0
    OBVIOUS
  <2> HIDE DEF gap, B
  <2> QED
    BY <1>0, <1>1, <2>1, CountSome
<1>6. SumFunctionOnSet(whole, B) = Cardinality(Triangles(Simple(g)))
  <2>1. \A T \in B : whole[T] = IF T \in Triangles(Simple(g)) THEN 1 ELSE 0
    OBVIOUS
  <2> HIDE DEF whole, B
  <2> QED
    BY <1>0, <1>1, <2>1, CountSome
<1>7. \A T \in B : whole[T] = more[T] + (-1) * gap[T]
  <2> SUFFICES ASSUME NEW T \in B PROVE whole[T] = more[T] + (-1) * gap[T]
    OBVIOUS
  <2>1. m(T) \in 0..3 /\ (m(T) = 0 <=> Missing(g, T) = {})
    BY MissingFacts
  <2>2. whole[T] = IF m(T) = 0 THEN 1 ELSE 0
    BY <2>1, TrianglesAreWhole
  <2>3. gap[T] = IF m(T) = 3 THEN 1 ELSE 0
    BY DEF Gaps
  <2>4. more[T] = 1 + (-1) * m(T) + 1 * Choose2(m(T))
    OBVIOUS
  <2>5. Choose2(0) = 0 /\ Choose2(1) = 0 /\ Choose2(2) = 1 /\ Choose2(3) = 3
    BY DEF Choose2
  <2> HIDE DEF m, more, gap, whole
  <2>6. m(T) = 0 \/ m(T) = 1 \/ m(T) = 2 \/ m(T) = 3
    BY <2>1
  <2> QED
    BY <2>2, <2>3, <2>4, <2>5, <2>6
<1>8. /\ SumFunctionOnSet(less, B)
           = SumFunctionOnSet(one, B) + (-1) * SumFunctionOnSet(missing, B)
      /\ IsSummable(less, B)
  <2>1. \A T \in B : less[T] = one[T] + (-1) * missing[T]
    OBVIOUS
  <2> HIDE DEF less, one, missing, B
  <2> QED
    BY <1>2, <1>3, <2>1, SumLinear
<1>9. /\ SumFunctionOnSet(more, B)
           = SumFunctionOnSet(less, B) + 1 * SumFunctionOnSet(pairs, B)
      /\ IsSummable(more, B)
  <2>1. \A T \in B : more[T] = less[T] + 1 * pairs[T]
    OBVIOUS
  <2> HIDE DEF more, less, pairs, B
  <2> QED
    BY <1>4, <1>8, <2>1, SumLinear
<1>10. SumFunctionOnSet(whole, B)
         = SumFunctionOnSet(more, B) + (-1) * SumFunctionOnSet(gap, B)
  <2> HIDE DEF whole, more, gap, B
  <2> QED
    BY <1>5, <1>7, <1>9, SumLinear
<1> DEFINE t == Cardinality(Triangles(Simple(g)))
           all == Cardinality(B)
           two == Cardinality(Xi2Subgraphs(g))
           three == Cardinality(Gaps(g))
<1>11. t = all - Xi1(g) + two - three /\ Xi1(g) \in Int
  <2>1. /\ all \in Int /\ two \in Int /\ three \in Int /\ Xi1(g) \in Int
    BY <1>2, <1>3, <1>4, <1>5, SumIsInt
  <2> HIDE DEF one, missing, pairs, gap, whole, less, more, B, t
  <2> QED
    BY <1>2, <1>3, <1>4, <1>5, <1>6, <1>8, <1>9, <1>10, <2>1 DEF t
<1>12. Xi2AndXi3(g) = two - three
  <2> DEFINE closed == Cardinality({s \in Xi2Subgraphs(g) : Closed(g, s)})
  <2>1. closed = 3 * three /\ three \in Nat /\ two \in Nat
    BY <1>4, ClosedCountGaps, FS_CardinalityType
  <2>2. Xi2AndXi3(g) = 2 * (closed \div 3) + (two - closed)
    BY DEF Xi2AndXi3
  <2> HIDE DEF closed, two, three
  <2>3. closed \div 3 = three
    BY <2>1
  <2> QED
    BY <2>1, <2>2, <2>3
<1>13. CASE Len(g.parts) < 3
  <2>1. all = 0
    BY <1>0, <1>13 DEF CompleteI3
  <2>2. t = 0
    <3>1. B = {}
      BY <1>0, <2>1, FS_EmptySet
    <3> QED
      BY <1>1, <3>1, FS_EmptySet
  <2>3. I3Invariant(g) = 0
    BY <1>13 DEF I3Invariant
  <2> QED
    BY <2>2, <2>3
<1>14. CASE ~(Len(g.parts) < 3)
  <2>1. I3Invariant(g) = all - Xi1(g) + (two - three)
    BY <1>0, <1>12, <1>14 DEF I3Invariant
  <2>2. all \in Int /\ two \in Int /\ three \in Int
    BY <1>2, <1>4, <1>5, SumIsInt
  <2> HIDE DEF all, two, three, t
  <2>3. I3Invariant(g) = t
    BY <1>11, <2>1, <2>2
  <2> QED
    BY <2>3 DEF t
<1> QED
  BY <1>13, <1>14

-----------------------------------------------------------------------------
(* Cycles of length four                                                   *)

LEMMA AdjacentIsEdge ==
  ASSUME NEW g, IsGraph(g), NEW u \in Vertices(g.parts), NEW v \in Vertices(g.parts)
  PROVE  Adjacent(Simple(g), u, v) <=> IsAdjacent(g, u, v)
<1>1. {u, v} \in AllEdges(g.parts) <=> Part(u) # Part(v)
  BY GraphFacts, EdgesArePairs
<1> QED
  BY <1>1 DEF Adjacent, Simple, IsAdjacent

\* a and b on one diagonal, c and d on the other.
Square(g, a, b, c, d) ==
    /\ {a, b, c, d} \subseteq Vertices(g.parts) /\ a # b /\ c # d
    /\ IsAdjacent(g, a, c) /\ IsAdjacent(g, a, d)
    /\ IsAdjacent(g, b, c) /\ IsAdjacent(g, b, d)
    /\ ~IsAdjacent(g, a, b) /\ ~IsAdjacent(g, c, d)

LEMMA SquareFacts ==
  ASSUME NEW g, IsGraph(g), NEW a, NEW b, NEW c, NEW d, Square(g, a, b, c, d)
  PROVE  /\ a # c /\ a # d /\ b # c /\ b # d
         /\ Part(a) # Part(c) /\ Part(a) # Part(d)
         /\ Part(b) # Part(c) /\ Part(b) # Part(d)
         /\ Part(a) = Part(b) \/ {a, b} \in g.deleted
         /\ Part(c) = Part(d) \/ {c, d} \in g.deleted
BY DEF Square, IsAdjacent

LEMMA FourHaveFour ==
  ASSUME NEW a, NEW b, NEW c, NEW d,
         a # b, a # c, a # d, b # c, b # d, c # d
  PROVE  IsFiniteSet({a, b, c, d}) /\ Cardinality({a, b, c, d}) = 4
<1>1. IsFiniteSet({a, b, c}) /\ Cardinality({a, b, c}) = 3
  BY TriplesHaveThree
<1>2. d \notin {a, b, c}
  OBVIOUS
<1>3. IsFiniteSet({a, b, c} \cup {d}) /\ Cardinality({a, b, c} \cup {d}) = 3 + 1
  BY <1>1, <1>2, FS_AddElement
<1>4. {a, b, c} \cup {d} = {a, b, c, d}
  OBVIOUS
<1> QED
  BY <1>3, <1>4

LEMMA CyclesAreSquares ==
  ASSUME NEW g, IsGraph(g)
  PROVE  /\ \A Q \in InducedFourCycles(Simple(g)) :
               \E a, b, c, d \in Q : Square(g, a, b, c, d) /\ Q = {a, b, c, d}
         /\ \A a, b, c, d : Square(g, a, b, c, d) =>
               {a, b, c, d} \in InducedFourCycles(Simple(g))
<1> DEFINE V == Vertices(g.parts)
           G == Simple(g)
<1>0. G.node = V
  BY DEF Simple
<1>1. ASSUME NEW Q \in InducedFourCycles(G)
      PROVE  \E a, b, c, d \in Q : Square(g, a, b, c, d) /\ Q = {a, b, c, d}
  <2>1. Q \in SUBSET V /\ Cardinality(Q) = 4
    BY <1>0 DEF InducedFourCycles, kSubset
  <2>2. PICK P \in kSubset(2, Q) :
           /\ Stable(G, P) /\ Stable(G, Q \ P)
           /\ \A u \in P, v \in Q \ P : Adjacent(G, u, v)
    BY DEF InducedFourCycles
  <2>3. P \in SUBSET Q /\ Cardinality(P) = 2
    BY DEF kSubset
  <2>4. IsFiniteSet(Q) /\ IsFiniteSet(P)
    BY <2>1, <2>3, GraphFacts, FS_Subset
  <2>5. IsFiniteSet(Q \ P) /\ Cardinality(Q \ P) = 2
    <3>1. Q \cap P = P
      BY <2>3
    <3>2. /\ IsFiniteSet(Q \ P)
          /\ Cardinality(Q \ P) = Cardinality(Q) - Cardinality(Q \cap P)
      BY <2>4, FS_Difference
    <3>3. Cardinality(Q) - Cardinality(Q \cap P) = 4 - 2
      BY <2>1, <2>3, <3>1, Zenon
    <3> QED
      BY <3>2, <3>3
  <2>6. PICK a, b \in P : a # b /\ P = {a, b}
    BY <2>3, <2>4, PairsHaveTwo
  <2>7. PICK c, d \in Q \ P : c # d /\ Q \ P = {c, d}
    BY <2>5, PairsHaveTwo
  <2>8. Q = {a, b, c, d} /\ {a, b, c, d} \subseteq V
    BY <2>1, <2>3, <2>6, <2>7
  <2>9. a \in V /\ b \in V /\ c \in V /\ d \in V
    BY <2>8
  <2>10. /\ Adjacent(G, a, c) /\ Adjacent(G, a, d)
         /\ Adjacent(G, b, c) /\ Adjacent(G, b, d)
         /\ ~Adjacent(G, a, b) /\ ~Adjacent(G, c, d)
    BY <2>2, <2>6, <2>7 DEF Stable
  <2>11. Square(g, a, b, c, d)
    BY <2>6, <2>7, <2>8, <2>9, <2>10, AdjacentIsEdge DEF Square
  <2> QED
    BY <2>3, <2>8, <2>11
<1>2. ASSUME NEW a, NEW b, NEW c, NEW d, Square(g, a, b, c, d)
      PROVE  {a, b, c, d} \in InducedFourCycles(G)
  <2> DEFINE Q == {a, b, c, d}
             P == {a, b}
  <2>1. /\ a \in V /\ b \in V /\ c \in V /\ d \in V /\ a # b /\ c # d
        /\ a # c /\ a # d /\ b # c /\ b # d
    <3>1. {a, b, c, d} \subseteq V /\ a # b /\ c # d
      BY <1>2 DEF Square
    <3>2. a # c /\ a # d /\ b # c /\ b # d
      BY <1>2, SquareFacts
    <3> QED
      BY <3>1, <3>2
  <2>2. /\ Adjacent(G, a, c) /\ Adjacent(G, a, d)
        /\ Adjacent(G, b, c) /\ Adjacent(G, b, d)
        /\ ~Adjacent(G, a, b) /\ ~Adjacent(G, c, d)
    BY <1>2, <2>1, AdjacentIsEdge DEF Square
  <2>3. \A u \in V : ~Adjacent(G, u, u)
    <3>1. \A u \in V : ~IsAdjacent(g, u, u)
      BY DEF IsAdjacent
    <3> QED
      BY <3>1, AdjacentIsEdge
  <2>4. \A u, v : Adjacent(G, u, v) <=> Adjacent(G, v, u)
    <3>1. \A u, v : {u, v} = {v, u}
      OBVIOUS
    <3> QED
      BY <3>1 DEF Adjacent
  <2>5. Q \ P = {c, d}
    BY <2>1
  <2>6. Stable(G, P) /\ Stable(G, Q \ P)
    BY <2>1, <2>2, <2>3, <2>4, <2>5 DEF Stable
  <2>7. \A u \in P, v \in Q \ P : Adjacent(G, u, v)
    BY <2>2, <2>5
  <2>8. Q \in kSubset(4, V)
    BY <2>1, FourHaveFour DEF kSubset
  <2>9. P \in kSubset(2, Q)
    BY <2>1, PairsHaveTwo DEF kSubset
  <2> HIDE DEF P, Q, G
  <2> QED
    BY <1>0, <2>6, <2>7, <2>8, <2>9 DEF InducedFourCycles, Q
<1> QED
  BY <1>1, <1>2

\* How many parts a square meets.
LEMMA PartsOfSquare ==
  ASSUME NEW g, IsGraph(g), NEW a, NEW b, NEW c, NEW d, Square(g, a, b, c, d)
  PROVE  LET n == Cardinality(Parts({a, b, c, d})) IN
         \/ n = 2 /\ Part(a) = Part(b) /\ Part(c) = Part(d)
         \/ n = 3 /\ Part(a) # Part(b) /\ Part(c) = Part(d)
         \/ n = 3 /\ Part(a) = Part(b) /\ Part(c) # Part(d)
         \/ n = 4 /\ Part(a) # Part(b) /\ Part(c) # Part(d)
<1>1. Parts({a, b, c, d}) = {Part(a), Part(b), Part(c), Part(d)}
  BY DEF Parts
<1>2. /\ Part(a) # Part(c) /\ Part(a) # Part(d)
      /\ Part(b) # Part(c) /\ Part(b) # Part(d)
  BY SquareFacts
<1>3. CASE Part(a) = Part(b) /\ Part(c) = Part(d)
  <2>1. Parts({a, b, c, d}) = {Part(a), Part(c)}
    BY <1>1, <1>3
  <2>2. Cardinality({Part(a), Part(c)}) = 2
    BY <1>2, PairsHaveTwo, Zenon
  <2> QED
    BY <1>3, <2>1, <2>2
<1>4. CASE Part(a) # Part(b) /\ Part(c) = Part(d)
  <2>1. Parts({a, b, c, d}) = {Part(a), Part(b), Part(c)}
    BY <1>1, <1>4
  <2>2. Cardinality({Part(a), Part(b), Part(c)}) = 3
    BY <1>2, <1>4, TriplesHaveThree, Zenon
  <2> QED
    BY <1>4, <2>1, <2>2
<1>5. CASE Part(a) = Part(b) /\ Part(c) # Part(d)
  <2>1. Parts({a, b, c, d}) = {Part(a), Part(c), Part(d)}
    BY <1>1, <1>5
  <2>2. Cardinality({Part(a), Part(c), Part(d)}) = 3
    BY <1>2, <1>5, TriplesHaveThree, Zenon
  <2> QED
    BY <1>5, <2>1, <2>2
<1>6. CASE Part(a) # Part(b) /\ Part(c) # Part(d)
  <2>1. Cardinality({Part(a), Part(b), Part(c), Part(d)}) = 4
    BY <1>2, <1>6, FourHaveFour
  <2> QED
    BY <1>1, <1>6, <2>1
<1> QED
  BY <1>3, <1>4, <1>5, <1>6

-----------------------------------------------------------------------------
(* Sums of numbers of elements                                             *)

Tagged(K, F) == UNION {{<<k, x>> : x \in F[k]} : k \in K}

LEMMA TaggedPairs ==
  ASSUME NEW K, NEW F
  PROVE  /\ \A k \in K : \A x \in F[k] : <<k, x>> \in Tagged(K, F)
         /\ \A t \in Tagged(K, F) : /\ t = <<t[1], t[2]>> /\ t[1] \in K
                                    /\ t[2] \in F[t[1]]
BY DEF Tagged

LEMMA CountTagged ==
  ASSUME NEW K, IsFiniteSet(K), NEW F, \A k \in K : IsFiniteSet(F[k]),
         NEW f, \A k \in K : f[k] = Cardinality(F[k])
  PROVE  /\ IsFiniteSet(Tagged(K, F)) /\ IsSummable(f, K)
         /\ SumFunctionOnSet(f, K) = Cardinality(Tagged(K, F))
<1> DEFINE A == Tagged(K, F)
           one(k) == {<<k, x>> : x \in F[k]}
           sets == {one(k) : k \in K}
           key == [t \in A |-> t[1]]
<1>1. ASSUME NEW k \in K
      PROVE  IsFiniteSet(one(k)) /\ Cardinality(one(k)) = Cardinality(F[k])
  <2> DEFINE h == [x \in F[k] |-> <<k, x>>]
  <2>1. OneToOneOnto(h, F[k], one(k))
    BY DEF OneToOneOnto
  <2> HIDE DEF h, one
  <2> QED
    BY <2>1, SameSize
<1>2. IsFiniteSet(A)
  <2> DEFINE h == [k \in K |-> one(k)]
  <2>1. h \in Surjection(K, sets)
    BY DEF Surjection
  <2>2. \A T \in sets : IsFiniteSet(T)
    BY <1>1
  <2>3. A = UNION sets
    BY DEF Tagged
  <2> HIDE DEF h, sets, A
  <2>4. IsFiniteSet(sets)
    BY <2>1, FS_Surjection
  <2> QED
    BY <2>2, <2>3, <2>4, FS_UNION
<1>3. \A t \in A : key[t] \in K
  BY TaggedPairs
<1>4. ASSUME NEW k \in K PROVE f[k] = Cardinality(WithKey(A, key, k))
  <2>1. WithKey(A, key, k) = one(k)
    <3>1. ASSUME NEW t \in A, key[t] = k PROVE t \in one(k)
      BY <3>1, TaggedPairs
    <3>2. ASSUME NEW x \in F[k] PROVE <<k, x>> \in A /\ key[<<k, x>>] = k
      <4>1. <<k, x>> \in A
        BY TaggedPairs
      <4> QED
        BY <4>1
    <3> HIDE DEF A, key
    <3> QED
      BY <3>1, <3>2 DEF WithKey
  <2> HIDE DEF A, key, one
  <2> QED
    BY <1>1, <2>1
<1> HIDE DEF A, key
<1>5. \A k \in K : f[k] = Cardinality(WithKey(A, key, k))
  BY <1>4
<1> QED
  BY <1>2, <1>3, <1>5, CountByKey DEF A

-----------------------------------------------------------------------------
(* I4 counts cycles                                                        *)

LEMMA TwoOfPart ==
  ASSUME NEW p \in Seq(Nat), NEW c \in DOMAIN p
  PROVE  /\ \A q \in kSubset(2, VerticesOf(p, c)) : \E a, b \in Vertices(p) :
               a # b /\ Part(a) = c /\ Part(b) = c /\ q = {a, b}
         /\ \A a, b \in Vertices(p) : a # b /\ Part(a) = c /\ Part(b) = c =>
               {a, b} \in kSubset(2, VerticesOf(p, c))
<1>1. VerticesOf(p, c) = {x \in Vertices(p) : Part(x) = c}
  BY VerticesOfPart
<1>2. ASSUME NEW q \in kSubset(2, VerticesOf(p, c))
      PROVE  \E a, b \in Vertices(p) :
                a # b /\ Part(a) = c /\ Part(b) = c /\ q = {a, b}
  <2>1. q \in SUBSET VerticesOf(p, c) /\ Cardinality(q) = 2
    BY DEF kSubset
  <2>2. IsFiniteSet(q)
    BY <2>1, PartSize, FS_Subset
  <2>3. PICK a, b \in q : a # b /\ q = {a, b}
    BY <2>1, <2>2, PairsHaveTwo
  <2> QED
    BY <1>1, <2>1, <2>3
<1>3. ASSUME NEW a \in Vertices(p), NEW b \in Vertices(p),
             a # b, Part(a) = c, Part(b) = c
      PROVE  {a, b} \in kSubset(2, VerticesOf(p, c))
  <2>1. {a, b} \in SUBSET VerticesOf(p, c)
    BY <1>1, <1>3
  <2>2. Cardinality({a, b}) = 2
    BY <1>3, PairsHaveTwo
  <2> QED
    BY <2>1, <2>2 DEF kSubset
<1> QED
  BY <1>2, <1>3

LEMMA PairsBelowAreFinite ==
  ASSUME NEW n \in Nat
  PROVE  IsFiniteSet(PairsBelow(n))
<1>1. IsFiniteSet(1..n)
  BY FS_Interval
<1>2. PairsBelow(n) \in SUBSET ((1..n) \X (1..n))
  BY DEF PairsBelow
<1> QED
  BY <1>1, <1>2, FS_Product, FS_Subset

Cycles(g, n) == {Q \in InducedFourCycles(Simple(g)) : Cardinality(Parts(Q)) = n}

LEMMA CyclesAreFinite ==
  ASSUME NEW g, IsGraph(g)
  PROVE  IsFiniteSet(InducedFourCycles(Simple(g)))
<1>1. InducedFourCycles(Simple(g)) \in SUBSET (SUBSET Vertices(g.parts))
  BY DEF InducedFourCycles, kSubset, Simple
<1> QED
  BY <1>1, GraphFacts, FS_SUBSET, FS_Subset

\* What I4TwoParts counts for a pair of parts.
OfTwoParts(g) ==
    [p \in PairsBelow(Len(g.parts)) |->
        {q \in kSubset(2, VerticesOf(g.parts, p[1]))
                   \X kSubset(2, VerticesOf(g.parts, p[2])) :
            AllPresent(g, q[1], q[2])}]

LEMMA TwoPartsFacts ==
  ASSUME NEW g, IsGraph(g), NEW t
  PROVE  t \in Tagged(PairsBelow(Len(g.parts)), OfTwoParts(g)) <=>
           \E a, b, c, d :
              /\ Square(g, a, b, c, d)
              /\ Part(a) = Part(b) /\ Part(c) = Part(d) /\ Part(a) < Part(c)
              /\ t = <<<<Part(a), Part(c)>>, <<{a, b}, {c, d}>>>>
<1> DEFINE p == g.parts
           K == PairsBelow(Len(p))
           F == OfTwoParts(g)
           V == Vertices(p)
<1>0. p \in Seq(Nat) /\ DOMAIN p = 1..Len(p)
  BY GraphFacts
<1>1. ASSUME t \in Tagged(K, F)
      PROVE  \E a, b, c, d :
                /\ Square(g, a, b, c, d)
                /\ Part(a) = Part(b) /\ Part(c) = Part(d) /\ Part(a) < Part(c)
                /\ t = <<<<Part(a), Part(c)>>, <<{a, b}, {c, d}>>>>
  <2>1. t = <<t[1], t[2]>> /\ t[1] \in K /\ t[2] \in F[t[1]]
    BY <1>1, TaggedPairs
  <2>2. PICK i, j \in 1..Len(p) : t[1] = <<i, j>> /\ i < j
    BY <2>1 DEF PairsBelow
  <2>3. /\ t[2] \in kSubset(2, VerticesOf(p, i)) \X kSubset(2, VerticesOf(p, j))
        /\ AllPresent(g, t[2][1], t[2][2])
    BY <2>1, <2>2 DEF OfTwoParts
  <2> DEFINE left == t[2][1]
             right == t[2][2]
  <2>30. /\ left \in kSubset(2, VerticesOf(p, i))
         /\ right \in kSubset(2, VerticesOf(p, j))
         /\ t[2] = <<left, right>>
    BY <2>3
  <2>31. AllPresent(g, left, right)
    BY <2>3
  <2> HIDE DEF left, right
  <2>4. PICK a, b \in V :
           a # b /\ Part(a) = i /\ Part(b) = i /\ left = {a, b}
    BY <1>0, <2>2, <2>30, TwoOfPart
  <2>5. PICK c, d \in V :
           c # d /\ Part(c) = j /\ Part(d) = j /\ right = {c, d}
    BY <1>0, <2>2, <2>30, TwoOfPart
  <2>6. i # j
    BY <2>2
  <2>7. Square(g, a, b, c, d)
    <3>1. {a, b, c, d} \subseteq V
      OBVIOUS
    <3>2. /\ {a, c} \notin g.deleted /\ {a, d} \notin g.deleted
          /\ {b, c} \notin g.deleted /\ {b, d} \notin g.deleted
      BY <2>31, <2>4, <2>5 DEF AllPresent
    <3> QED
      BY <2>4, <2>5, <2>6, <3>1, <3>2 DEF Square, IsAdjacent
  <2>8. t = <<<<i, j>>, <<{a, b}, {c, d}>>>>
    BY <2>1, <2>2, <2>30, <2>4, <2>5
  <2> QED
    BY <2>2, <2>4, <2>5, <2>7, <2>8
<1>2. ASSUME NEW a, NEW b, NEW c, NEW d, Square(g, a, b, c, d),
             Part(a) = Part(b), Part(c) = Part(d), Part(a) < Part(c),
             t = <<<<Part(a), Part(c)>>, <<{a, b}, {c, d}>>>>
      PROVE  t \in Tagged(K, F)
  <2>1. a \in V /\ b \in V /\ c \in V /\ d \in V /\ a # b /\ c # d
    <3>1. {a, b, c, d} \subseteq V /\ a # b /\ c # d
      BY <1>2 DEF Square
    <3> QED
      BY <3>1
  <2>2. Part(a) \in 1..Len(p) /\ Part(c) \in 1..Len(p)
    BY <1>0, <2>1, VertexFacts
  <2>3. <<Part(a), Part(c)>> \in K
    BY <1>2, <2>2 DEF PairsBelow
  <2>4. /\ {a, b} \in kSubset(2, VerticesOf(p, Part(a)))
        /\ {c, d} \in kSubset(2, VerticesOf(p, Part(c)))
    BY <1>0, <1>2, <2>1, <2>2, TwoOfPart
  <2>5. AllPresent(g, {a, b}, {c, d})
    BY <1>2 DEF Square, IsAdjacent, AllPresent
  <2>6. <<{a, b}, {c, d}>> \in F[<<Part(a), Part(c)>>]
    BY <2>3, <2>4, <2>5 DEF OfTwoParts
  <2> HIDE DEF K, F
  <2> QED
    BY <1>2, <2>3, <2>6, TaggedPairs
<1> QED
  BY <1>1, <1>2

\* The diagonals of a square can be exchanged, and are nobody else's.
LEMMA SquareTurns ==
  ASSUME NEW g, NEW a, NEW b, NEW c, NEW d, Square(g, a, b, c, d)
  PROVE  Square(g, c, d, a, b) /\ {c, d, a, b} = {a, b, c, d}
<1>1. \A x, y : {x, y} = {y, x}
  OBVIOUS
<1>2. \A x, y : IsAdjacent(g, x, y) <=> IsAdjacent(g, y, x)
  BY <1>1 DEF IsAdjacent
<1>3. {c, d, a, b} = {a, b, c, d}
  OBVIOUS
<1> QED
  BY <1>2, <1>3 DEF Square

LEMMA TwoPartsCount ==
  ASSUME NEW g, IsGraph(g)
  PROVE  I4TwoParts(g) = Cardinality(Cycles(g, 2))
<1> DEFINE p == g.parts
           K == PairsBelow(Len(p))
           F == OfTwoParts(g)
           A == Tagged(K, F)
           f == [k \in K |-> Cardinality(F[k])]
           h == [t \in A |-> t[2][1] \cup t[2][2]]
<1>0. p \in Seq(Nat) /\ DOMAIN p = 1..Len(p) /\ Len(p) \in Nat
  BY GraphFacts
<1>1. IsFiniteSet(K)
  BY <1>0, PairsBelowAreFinite
<1>2. ASSUME NEW k \in K PROVE IsFiniteSet(F[k])
  <2> DEFINE S == kSubset(2, VerticesOf(p, k[1])) \X kSubset(2, VerticesOf(p, k[2]))
  <2>1. k[1] \in DOMAIN p /\ k[2] \in DOMAIN p
    BY <1>0 DEF PairsBelow
  <2>2. /\ IsFiniteSet(kSubset(2, VerticesOf(p, k[1])))
        /\ IsFiniteSet(kSubset(2, VerticesOf(p, k[2])))
    BY <1>0, <2>1, PartSize, CountPairs
  <2>3. F[k] \in SUBSET S
    BY DEF OfTwoParts
  <2>4. IsFiniteSet(S)
    BY <2>2, FS_Product
  <2> HIDE DEF S, F
  <2> QED
    BY <2>3, <2>4, FS_Subset
<1>3. I4TwoParts(g) = SumFunctionOnSet(f, K)
  <2>1. I4TwoParts(g) = SumFunction(f)
    BY DEF I4TwoParts, OfTwoParts
  <2> QED
    BY <2>1 DEF SumFunction
<1>4. IsFiniteSet(A) /\ SumFunctionOnSet(f, K) = Cardinality(A)
  <2>1. \A k \in K : f[k] = Cardinality(F[k])
    OBVIOUS
  <2>2. \A k \in K : IsFiniteSet(F[k])
    BY <1>2
  <2> HIDE DEF K, F, f
  <2> QED
    BY <1>1, <2>1, <2>2, CountTagged
<1>5. ASSUME NEW t \in A
      PROVE  \E a, b, c, d :
                /\ Square(g, a, b, c, d)
                /\ Part(a) = Part(b) /\ Part(c) = Part(d) /\ Part(a) < Part(c)
                /\ Part(a) \in Nat /\ Part(c) \in Nat
                /\ t = <<<<Part(a), Part(c)>>, <<{a, b}, {c, d}>>>>
                /\ h[t] = {a, b, c, d}
  <2>1. PICK a, b, c, d :
           /\ Square(g, a, b, c, d)
           /\ Part(a) = Part(b) /\ Part(c) = Part(d) /\ Part(a) < Part(c)
           /\ t = <<<<Part(a), Part(c)>>, <<{a, b}, {c, d}>>>>
    BY TwoPartsFacts
  <2>2. h[t] = {a, b} \cup {c, d}
    BY <2>1
  <2>3. {a, b} \cup {c, d} = {a, b, c, d}
    OBVIOUS
  <2>4. Part(a) \in Nat /\ Part(c) \in Nat
    <3>1. {a, b, c, d} \subseteq Vertices(p)
      BY <2>1 DEF Square
    <3>2. Part(a) \in 1..Len(p) /\ Part(c) \in 1..Len(p)
      BY <1>0, <3>1, VertexFacts
    <3> QED
      BY <3>2
  <2> HIDE DEF h, A
  <2> QED
    BY <2>1, <2>2, <2>3, <2>4
<1>6. ASSUME NEW t \in A PROVE h[t] \in Cycles(g, 2)
  <2>1. PICK a, b, c, d :
           /\ Square(g, a, b, c, d)
           /\ Part(a) = Part(b) /\ Part(c) = Part(d)
           /\ h[t] = {a, b, c, d}
    BY <1>5
  <2>2. {a, b, c, d} \in InducedFourCycles(Simple(g))
    BY <2>1, CyclesAreSquares
  <2>3. Cardinality(Parts({a, b, c, d})) = 2
    BY <2>1, PartsOfSquare
  <2> HIDE DEF h, A
  <2> QED
    BY <2>1, <2>2, <2>3 DEF Cycles
<1>7. ASSUME NEW s \in A, NEW t \in A, h[s] = h[t] PROVE s = t
  <2>1. PICK a, b, c, d :
           /\ Part(a) = Part(b) /\ Part(c) = Part(d) /\ Part(a) < Part(c)
           /\ Part(a) \in Nat /\ Part(c) \in Nat
           /\ s = <<<<Part(a), Part(c)>>, <<{a, b}, {c, d}>>>>
           /\ h[s] = {a, b, c, d}
    BY <1>5
  <2>2. PICK x, y, z, w :
           /\ Part(x) = Part(y) /\ Part(z) = Part(w) /\ Part(x) < Part(z)
           /\ Part(x) \in Nat /\ Part(z) \in Nat
           /\ t = <<<<Part(x), Part(z)>>, <<{x, y}, {z, w}>>>>
           /\ h[t] = {x, y, z, w}
    BY <1>5
  <2>3. {a, b, c, d} = {x, y, z, w}
    BY <1>7, <2>1, <2>2
  <2> HIDE DEF h, A
  <2>4. Part(a) = Part(x) /\ Part(c) = Part(z)
    <3>1. /\ Part(a) = Part(x) \/ Part(a) = Part(z)
          /\ Part(c) = Part(x) \/ Part(c) = Part(z)
      BY <2>1, <2>2, <2>3
    <3> QED
      BY <2>1, <2>2, <3>1
  <2>5. Part(a) # Part(c)
    BY <2>1
  <2>6. {a, b} = {x, y} /\ {c, d} = {z, w}
    <3>1. {a, b} = {v \in {a, b, c, d} : Part(v) = Part(a)}
      BY <2>1, <2>5
    <3>2. {x, y} = {v \in {x, y, z, w} : Part(v) = Part(x)}
      BY <2>2, <2>4, <2>5
    <3>3. {c, d} = {v \in {a, b, c, d} : Part(v) = Part(c)}
      BY <2>1, <2>5
    <3>4. {z, w} = {v \in {x, y, z, w} : Part(v) = Part(z)}
      BY <2>2, <2>4, <2>5
    <3>5. {a, b} = {x, y}
      BY <2>3, <2>4, <3>1, <3>2, Zenon
    <3>6. {c, d} = {z, w}
      BY <2>3, <2>4, <3>3, <3>4, Zenon
    <3> QED
      BY <3>5, <3>6
  <2> QED
    BY <2>1, <2>2, <2>4, <2>6
<1>8. ASSUME NEW Q \in Cycles(g, 2) PROVE \E t \in A : h[t] = Q
  <2>1. Q \in InducedFourCycles(Simple(g)) /\ Cardinality(Parts(Q)) = 2
    BY DEF Cycles
  <2>2. PICK a, b, c, d : Square(g, a, b, c, d) /\ Q = {a, b, c, d}
    BY <2>1, CyclesAreSquares
  <2>3. Part(a) = Part(b) /\ Part(c) = Part(d)
    BY <2>1, <2>2, PartsOfSquare
  <2>4. Part(a) \in Nat /\ Part(c) \in Nat /\ Part(a) # Part(c)
    <3>1. {a, b, c, d} \subseteq Vertices(p)
      BY <2>2 DEF Square
    <3>2. Part(a) \in 1..Len(p) /\ Part(c) \in 1..Len(p)
      BY <1>0, <3>1, VertexFacts
    <3>3. Part(a) # Part(c)
      BY <2>2, SquareFacts
    <3> HIDE DEF h, A
    <3> QED
      BY <1>0, <3>2, <3>3
  <2>5. ASSUME NEW x, NEW y, NEW z, NEW w, Square(g, x, y, z, w),
               Part(x) = Part(y), Part(z) = Part(w), Part(x) < Part(z)
        PROVE  \E t \in A : h[t] = {x, y, z, w}
    <3> DEFINE w0 == <<<<Part(x), Part(z)>>, <<{x, y}, {z, w}>>>>
    <3>1. w0 \in A
      <4>1. \E a1, b1, c1, d1 :
               /\ Square(g, a1, b1, c1, d1)
               /\ Part(a1) = Part(b1) /\ Part(c1) = Part(d1)
               /\ Part(a1) < Part(c1)
               /\ w0 = <<<<Part(a1), Part(c1)>>, <<{a1, b1}, {c1, d1}>>>>
        BY <2>5
      <4> HIDE DEF w0
      <4> QED
        BY <4>1, TwoPartsFacts
    <3>2. h[w0] = {x, y} \cup {z, w}
      BY <3>1
    <3>3. {x, y} \cup {z, w} = {x, y, z, w}
      OBVIOUS
    <3> HIDE DEF h, A, w0
    <3> QED
      BY <3>1, <3>2, <3>3
  <2> HIDE DEF h, A
  <2>6. CASE Part(a) < Part(c)
    BY <2>2, <2>3, <2>5, <2>6
  <2>7. CASE Part(c) < Part(a)
    <3>1. Square(g, c, d, a, b) /\ {c, d, a, b} = Q
      BY <2>2, SquareTurns
    <3>2. \E t \in A : h[t] = {c, d, a, b}
      BY <2>3, <2>5, <2>7, <3>1
    <3> QED
      BY <3>1, <3>2
  <2> QED
    BY <2>4, <2>6, <2>7
<1> HIDE DEF A, h, f, K
<1>9. OneToOneOnto(h, A, Cycles(g, 2))
  BY <1>6, <1>7, <1>8 DEF OneToOneOnto
<1> QED
  BY <1>3, <1>4, <1>9, SameSize

\* What I4ThreeParts counts for a deleted edge, by the third part.
OfEdge(g, e) ==
    [c \in DOMAIN g.parts \ Parts(e) |->
        {q \in kSubset(2, VerticesOf(g.parts, c)) : AllPresent(g, e, q)}]
OfThreeParts(g) ==
    [e \in g.deleted |-> Tagged(DOMAIN g.parts \ Parts(e), OfEdge(g, e))]

LEMMA ThreePartsFacts ==
  ASSUME NEW g, IsGraph(g), NEW t
  PROVE  t \in Tagged(g.deleted, OfThreeParts(g)) <=>
           \E a, b, c, d :
              /\ Square(g, a, b, c, d)
              /\ Part(a) # Part(b) /\ Part(c) = Part(d)
              /\ t = <<{a, b}, <<Part(c), {c, d}>>>>
<1> DEFINE p == g.parts
           V == Vertices(p)
           A == Tagged(g.deleted, OfThreeParts(g))
<1>0. p \in Seq(Nat)
  BY GraphFacts
<1>1. ASSUME t \in A
      PROVE  \E a, b, c, d :
                /\ Square(g, a, b, c, d)
                /\ Part(a) # Part(b) /\ Part(c) = Part(d)
                /\ t = <<{a, b}, <<Part(c), {c, d}>>>>
  <2> DEFINE e == t[1]
             s == t[2]
             i == s[1]
             q == s[2]
  <2>1. t = <<e, s>> /\ e \in g.deleted /\ s \in OfThreeParts(g)[e]
    BY <1>1, TaggedPairs
  <2>2. s \in Tagged(DOMAIN p \ Parts(e), OfEdge(g, e))
    BY <2>1 DEF OfThreeParts
  <2> HIDE DEF A, e, s
  <2>3. s = <<i, q>> /\ i \in DOMAIN p \ Parts(e) /\ q \in OfEdge(g, e)[i]
    BY <2>2, TaggedPairs
  <2> HIDE DEF i, q
  <2>4. q \in kSubset(2, VerticesOf(p, i)) /\ AllPresent(g, e, q)
    BY <2>3 DEF OfEdge
  <2>5. PICK a, b \in V : Part(a) # Part(b) /\ e = {a, b}
    BY <1>0, <2>1, GraphFacts, EdgesArePairs
  <2>6. PICK c, d \in V :
           c # d /\ Part(c) = i /\ Part(d) = i /\ q = {c, d}
    BY <1>0, <2>3, <2>4, TwoOfPart
  <2>7. Part(a) # i /\ Part(b) # i
    BY <2>3, <2>5 DEF Parts
  <2>8. Square(g, a, b, c, d)
    <3>1. {a, b, c, d} \subseteq V /\ a # b
      BY <2>5
    <3>2. /\ {a, c} \notin g.deleted /\ {a, d} \notin g.deleted
          /\ {b, c} \notin g.deleted /\ {b, d} \notin g.deleted
      BY <2>4, <2>5, <2>6 DEF AllPresent
    <3>3. {a, b} \in g.deleted
      BY <2>1, <2>5
    <3> QED
      BY <2>6, <2>7, <3>1, <3>2, <3>3 DEF Square, IsAdjacent
  <2>9. t = <<{a, b}, <<Part(c), {c, d}>>>>
    BY <2>1, <2>3, <2>5, <2>6
  <2> QED
    BY <2>5, <2>6, <2>8, <2>9
<1>2. ASSUME NEW a, NEW b, NEW c, NEW d, Square(g, a, b, c, d),
             Part(a) # Part(b), Part(c) = Part(d),
             t = <<{a, b}, <<Part(c), {c, d}>>>>
      PROVE  t \in A
  <2> DEFINE e == {a, b}
             i == Part(c)
             q == {c, d}
  <2>1. c \in V /\ d \in V /\ c # d
    <3>1. {a, b, c, d} \subseteq V /\ c # d
      BY <1>2 DEF Square
    <3> QED
      BY <3>1
  <2>2. e \in g.deleted /\ Part(a) # i /\ Part(b) # i
    BY <1>2, SquareFacts
  <2>3. i \in DOMAIN p \ Parts(e)
    <3>1. i \in DOMAIN p
      BY <2>1, VertexFacts
    <3>2. i \notin Parts(e)
      BY <2>2 DEF Parts
    <3> QED
      BY <3>1, <3>2
  <2>4. q \in kSubset(2, VerticesOf(p, i))
    BY <1>0, <1>2, <2>1, <2>3, TwoOfPart
  <2>5. AllPresent(g, e, q)
    BY <1>2 DEF Square, IsAdjacent, AllPresent
  <2> HIDE DEF e, i, q, A
  <2>6. q \in OfEdge(g, e)[i]
    BY <2>3, <2>4, <2>5 DEF OfEdge
  <2>7. <<i, q>> \in Tagged(DOMAIN p \ Parts(e), OfEdge(g, e))
    BY <2>3, <2>6, TaggedPairs
  <2>8. <<i, q>> \in OfThreeParts(g)[e]
    BY <2>2, <2>7 DEF OfThreeParts
  <2>9. <<e, <<i, q>>>> \in A
    BY <2>2, <2>8, TaggedPairs DEF A
  <2> QED
    BY <1>2, <2>9 DEF e, i, q
<1> QED
  BY <1>1, <1>2

LEMMA ThreePartsSum ==
  ASSUME NEW g, IsGraph(g)
  PROVE  LET A == Tagged(g.deleted, OfThreeParts(g)) IN
         IsFiniteSet(A) /\ I4ThreeParts(g) = Cardinality(A)
<1> DEFINE p == g.parts
           K(e) == DOMAIN p \ Parts(e)
           F == OfThreeParts(g)
           inner(e) == [c \in K(e) |-> Cardinality(OfEdge(g, e)[c])]
           f == [e \in g.deleted |-> Cardinality(F[e])]
<1>0. /\ p \in Seq(Nat) /\ IsFiniteSet(DOMAIN p) /\ IsFiniteSet(g.deleted)
  <2>1. p \in Seq(Nat) /\ IsFiniteSet(g.deleted)
    BY GraphFacts
  <2>2. DOMAIN p = 1..Len(p) /\ Len(p) \in Nat
    BY <2>1
  <2>3. IsFiniteSet(1..Len(p))
    BY <2>2, FS_Interval
  <2> HIDE DEF p
  <2> QED
    BY <2>1, <2>2, <2>3
<1>1. ASSUME NEW e \in g.deleted
      PROVE  /\ IsFiniteSet(F[e])
             /\ SumFunctionOnSet(inner(e), K(e)) = Cardinality(F[e])
  <2>1. IsFiniteSet(K(e))
    BY <1>0, FS_Subset
  <2>2. ASSUME NEW c \in K(e) PROVE IsFiniteSet(OfEdge(g, e)[c])
    <3> DEFINE S == kSubset(2, VerticesOf(p, c))
    <3>1. OfEdge(g, e)[c] \in SUBSET S
      BY DEF OfEdge
    <3>2. IsFiniteSet(S)
      BY <1>0, PartSize, CountPairs
    <3> HIDE DEF S
    <3> QED
      BY <3>1, <3>2, FS_Subset
  <2>3. \A c \in K(e) : IsFiniteSet(OfEdge(g, e)[c])
    BY <2>2
  <2>4. \A c \in K(e) : inner(e)[c] = Cardinality(OfEdge(g, e)[c])
    OBVIOUS
  <2>5. F[e] = Tagged(K(e), OfEdge(g, e))
    BY DEF OfThreeParts
  <2> HIDE DEF K, F, inner
  <2> QED
    BY <2>1, <2>3, <2>4, <2>5, CountTagged
<1>2. I4ThreeParts(g) = SumFunctionOnSet(f, g.deleted)
  <2>1. \A e : SumFunction(inner(e)) = SumFunctionOnSet(inner(e), K(e))
    BY DEF SumFunction
  <2>2. I4ThreeParts(g) = SumFunction([e \in g.deleted |-> SumFunction(inner(e))])
    BY DEF I4ThreeParts, OfEdge
  <2>3. [e \in g.deleted |-> SumFunction(inner(e))] = f
    <3> HIDE DEF F, inner, K
    <3> QED
      BY <1>1, <2>1
  <2>4. SumFunction(f) = SumFunctionOnSet(f, g.deleted)
    BY DEF SumFunction
  <2> HIDE DEF f, inner
  <2> QED
    BY <2>2, <2>3, <2>4
<1>3. \A e \in g.deleted : IsFiniteSet(F[e])
  BY <1>1
<1>4. \A e \in g.deleted : f[e] = Cardinality(F[e])
  OBVIOUS
<1> HIDE DEF F, f
<1> QED
  BY <1>0, <1>2, <1>3, <1>4, CountTagged DEF F

LEMMA ThreePartsCount ==
  ASSUME NEW g, IsGraph(g)
  PROVE  I4ThreeParts(g) = Cardinality(Cycles(g, 3))
<1> DEFINE A == Tagged(g.deleted, OfThreeParts(g))
           h == [t \in A |-> t[1] \cup t[2][2]]
<1>1. IsFiniteSet(A) /\ I4ThreeParts(g) = Cardinality(A)
  BY ThreePartsSum
<1>2. ASSUME NEW t \in A
      PROVE  \E a, b, c, d :
                /\ Square(g, a, b, c, d)
                /\ Part(a) # Part(b) /\ Part(c) = Part(d)
                /\ t = <<{a, b}, <<Part(c), {c, d}>>>>
                /\ h[t] = {a, b, c, d}
  <2>1. PICK a, b, c, d :
           /\ Square(g, a, b, c, d)
           /\ Part(a) # Part(b) /\ Part(c) = Part(d)
           /\ t = <<{a, b}, <<Part(c), {c, d}>>>>
    BY ThreePartsFacts
  <2>2. h[t] = {a, b} \cup {c, d}
    BY <2>1
  <2>3. {a, b} \cup {c, d} = {a, b, c, d}
    OBVIOUS
  <2> HIDE DEF h, A
  <2> QED
    BY <2>1, <2>2, <2>3
<1>3. ASSUME NEW a, NEW b, NEW c, NEW d, Square(g, a, b, c, d),
             Part(a) # Part(b), Part(c) = Part(d)
      PROVE  \E t \in A : h[t] = {a, b, c, d}
  <2> DEFINE w == <<{a, b}, <<Part(c), {c, d}>>>>
  <2>1. w \in A
    <3>1. \E x, y, u, v :
             /\ Square(g, x, y, u, v)
             /\ Part(x) # Part(y) /\ Part(u) = Part(v)
             /\ w = <<{x, y}, <<Part(u), {u, v}>>>>
      BY <1>3
    <3> HIDE DEF w
    <3> QED
      BY <3>1, ThreePartsFacts
  <2>2. h[w] = {a, b} \cup {c, d}
    BY <2>1
  <2>3. {a, b} \cup {c, d} = {a, b, c, d}
    OBVIOUS
  <2> HIDE DEF h, A, w
  <2> QED
    BY <2>1, <2>2, <2>3
<1> HIDE DEF h, A
<1>4. ASSUME NEW t \in A PROVE h[t] \in Cycles(g, 3)
  <2>1. PICK a, b, c, d :
           /\ Square(g, a, b, c, d)
           /\ Part(a) # Part(b) /\ Part(c) = Part(d)
           /\ h[t] = {a, b, c, d}
    BY <1>2
  <2>2. {a, b, c, d} \in InducedFourCycles(Simple(g))
    BY <2>1, CyclesAreSquares
  <2>3. Cardinality(Parts({a, b, c, d})) = 3
    BY <2>1, PartsOfSquare
  <2> QED
    BY <2>1, <2>2, <2>3 DEF Cycles
<1>5. ASSUME NEW s \in A, NEW t \in A, h[s] = h[t] PROVE s = t
  <2>1. PICK a, b, c, d :
           /\ Square(g, a, b, c, d)
           /\ Part(a) # Part(b) /\ Part(c) = Part(d)
           /\ s = <<{a, b}, <<Part(c), {c, d}>>>>
           /\ h[s] = {a, b, c, d}
    BY <1>2
  <2>2. PICK x, y, z, w :
           /\ Square(g, x, y, z, w)
           /\ Part(x) # Part(y) /\ Part(z) = Part(w)
           /\ t = <<{x, y}, <<Part(z), {z, w}>>>>
           /\ h[t] = {x, y, z, w}
    BY <1>2
  <2>3. {a, b, c, d} = {x, y, z, w}
    BY <1>5, <2>1, <2>2
  <2>4. /\ a # c /\ a # d /\ b # c /\ b # d
        /\ Part(a) # Part(c) /\ Part(b) # Part(c)
    BY <2>1, SquareFacts
  <2>5. x # z /\ x # w /\ y # z /\ y # w
    BY <2>2, SquareFacts
  <2>6. z # w /\ c # d
    BY <2>1, <2>2 DEF Square
  <2>7. {z, w} = {c, d}
    <3>1. z \in {a, b, c, d} /\ w \in {a, b, c, d}
      BY <2>3
    <3> QED
      BY <2>1, <2>2, <2>4, <2>6, <3>1
  <2>8. {x, y} = {a, b}
    <3>1. {x, y} = {x, y, z, w} \ {z, w}
      BY <2>5
    <3>2. {a, b} = {a, b, c, d} \ {c, d}
      BY <2>4
    <3> QED
      BY <2>3, <2>7, <3>1, <3>2, Zenon
  <2>9. Part(z) = Part(c)
    BY <2>1, <2>7
  <2> QED
    BY <2>1, <2>2, <2>7, <2>8, <2>9
<1>6. ASSUME NEW Q \in Cycles(g, 3) PROVE \E t \in A : h[t] = Q
  <2>1. Q \in InducedFourCycles(Simple(g)) /\ Cardinality(Parts(Q)) = 3
    BY DEF Cycles
  <2>2. PICK a, b, c, d : Square(g, a, b, c, d) /\ Q = {a, b, c, d}
    BY <2>1, CyclesAreSquares
  <2>3. \/ Part(a) # Part(b) /\ Part(c) = Part(d)
        \/ Part(a) = Part(b) /\ Part(c) # Part(d)
    BY <2>1, <2>2, PartsOfSquare
  <2>4. CASE Part(a) # Part(b) /\ Part(c) = Part(d)
    BY <1>3, <2>2, <2>4
  <2>5. CASE Part(a) = Part(b) /\ Part(c) # Part(d)
    <3>1. Square(g, c, d, a, b) /\ {c, d, a, b} = Q
      BY <2>2, SquareTurns
    <3>2. \E t \in A : h[t] = {c, d, a, b}
      BY <1>3, <2>5, <3>1
    <3> QED
      BY <3>1, <3>2
  <2> QED
    BY <2>3, <2>4, <2>5
<1>7. OneToOneOnto(h, A, Cycles(g, 3))
  BY <1>4, <1>5, <1>6 DEF OneToOneOnto
<1> QED
  BY <1>1, <1>7, SameSize

LEMMA I4CountsCycles ==
  ASSUME NEW g, IsGraph(g)
  PROVE  I4Invariant(g) =
           Cardinality({Q \in InducedFourCycles(Simple(g)) :
                           Cardinality(Parts(Q)) <= 3})
<1> DEFINE C == InducedFourCycles(Simple(g))
           D == {Q \in C : Cardinality(Parts(Q)) <= 3}
<1>1. IsFiniteSet(Cycles(g, 2)) /\ IsFiniteSet(Cycles(g, 3))
  <2>1. Cycles(g, 2) \in SUBSET C /\ Cycles(g, 3) \in SUBSET C
    BY DEF Cycles
  <2> QED
    BY <2>1, CyclesAreFinite, FS_Subset
<1>2. Cycles(g, 2) \cap Cycles(g, 3) = {}
  BY DEF Cycles
<1>3. D = Cycles(g, 2) \cup Cycles(g, 3)
  <2>1. ASSUME NEW Q \in C
        PROVE  Cardinality(Parts(Q)) \in {2, 3, 4}
    <3>1. PICK a, b, c, d : Square(g, a, b, c, d) /\ Q = {a, b, c, d}
      BY CyclesAreSquares
    <3> QED
      BY <3>1, PartsOfSquare
  <2> HIDE DEF C
  <2>2. \A Q \in C : Cardinality(Parts(Q)) <= 3 <=>
                       Cardinality(Parts(Q)) = 2 \/ Cardinality(Parts(Q)) = 3
    BY <2>1
  <2> QED
    BY <2>2 DEF Cycles, C
<1>4. Cardinality(D) = Cardinality(Cycles(g, 2)) + Cardinality(Cycles(g, 3))
  <2>1. Cardinality(Cycles(g, 2) \cup Cycles(g, 3))
           = Cardinality(Cycles(g, 2)) + Cardinality(Cycles(g, 3))
               - Cardinality(Cycles(g, 2) \cap Cycles(g, 3))
    BY <1>1, FS_Union
  <2>2. Cardinality(Cycles(g, 2) \cap Cycles(g, 3)) = 0
    BY <1>2, FS_EmptySet
  <2>3. Cardinality(Cycles(g, 2)) \in Nat /\ Cardinality(Cycles(g, 3)) \in Nat
    BY <1>1, FS_CardinalityType
  <2> HIDE DEF D
  <2> QED
    BY <1>3, <2>1, <2>2, <2>3
<1> QED
  BY <1>4, TwoPartsCount, ThreePartsCount DEF I4Invariant

LEMMA I4OfCompleteGraph ==
  ASSUME NEW g, IsGraph(g), g.deleted = {}
  PROVE  I4Invariant(g) = CompleteI4(g.parts)
<1> DEFINE p == g.parts
           K == PairsBelow(Len(p))
           F == OfTwoParts(g)
           f == [k \in K |-> Cardinality(F[k])]
           n == [k \in K |-> Choose2(p[k[1]]) * Choose2(p[k[2]])]
<1>0. p \in Seq(Nat) /\ DOMAIN p = 1..Len(p) /\ Len(p) \in Nat
  BY GraphFacts
<1>1. ASSUME NEW k \in K PROVE f[k] = n[k]
  <2> DEFINE S == kSubset(2, VerticesOf(p, k[1]))
             T == kSubset(2, VerticesOf(p, k[2]))
  <2>1. k[1] \in DOMAIN p /\ k[2] \in DOMAIN p
    BY <1>0 DEF PairsBelow
  <2>2. /\ IsFiniteSet(S) /\ Cardinality(S) = Choose2(p[k[1]])
        /\ IsFiniteSet(T) /\ Cardinality(T) = Choose2(p[k[2]])
    BY <1>0, <2>1, PartSize, CountPairs
  <2>3. \A A, B : AllPresent(g, A, B)
    BY DEF AllPresent
  <2>4. F[k] = S \X T
    BY <2>3 DEF OfTwoParts
  <2>5. Cardinality(S \X T) = Cardinality(S) * Cardinality(T)
    <3> HIDE DEF S, T
    <3> QED
      BY <2>2, FS_Product
  <2> HIDE DEF S, T, F
  <2> QED
    BY <2>2, <2>4, <2>5
<1>2. f = n
  <2>1. DOMAIN f = K /\ DOMAIN n = K /\ f = [k \in K |-> f[k]]
    OBVIOUS
  <2>2. n = [k \in K |-> n[k]]
    OBVIOUS
  <2> HIDE DEF f, n, K
  <2> QED
    BY <1>1, <2>1, <2>2
<1>3. I4TwoParts(g) = SumFunction(f)
  BY DEF I4TwoParts, OfTwoParts
<1>4. I4ThreeParts(g) = 0
  <2> DEFINE z == [e \in g.deleted |->
                     SumFunction([c \in DOMAIN g.parts \ Parts(e) |-> Cardinality(
                       {q \in kSubset(2, VerticesOf(g.parts, c)) :
                           AllPresent(g, e, q)})])]
  <2>1. I4ThreeParts(g) = SumFunction(z)
    BY DEF I4ThreeParts
  <2>2. DOMAIN z = {}
    OBVIOUS
  <2> HIDE DEF z
  <2> QED
    BY <2>1, <2>2, SumEmpty DEF SumFunction
<1>5. I4Invariant(g) = SumFunction(f)
  <2>1. SumFunction(f) \in Int
    <3>1. I4TwoParts(g) = Cardinality(Cycles(g, 2))
      BY TwoPartsCount
    <3>2. Cycles(g, 2) \in SUBSET InducedFourCycles(Simple(g))
      BY DEF Cycles
    <3>3. IsFiniteSet(Cycles(g, 2))
      BY <3>2, CyclesAreFinite, FS_Subset
    <3>4. Cardinality(Cycles(g, 2)) \in Nat
      BY <3>3, FS_CardinalityType
    <3> HIDE DEF f
    <3> QED
      BY <1>3, <3>1, <3>4
  <2> HIDE DEF f
  <2> QED
    BY <1>3, <1>4, <2>1 DEF I4Invariant
<1>6. CASE Len(p) < 2
  <2>1. K = {}
    BY <1>0, <1>6 DEF PairsBelow
  <2>2. DOMAIN f = {}
    BY <2>1
  <2> HIDE DEF f
  <2> QED
    BY <1>5, <1>6, <2>2, SumEmpty DEF SumFunction, CompleteI4
<1>7. CASE ~(Len(p) < 2)
  <2>1. CompleteI4(p) = SumFunction(n)
    BY <1>7 DEF CompleteI4
  <2> HIDE DEF f, n
  <2> QED
    BY <1>2, <1>5, <2>1
<1> QED
  BY <1>6, <1>7

LEMMA I2CountsEdges ==
  ASSUME NEW g, IsGraph(g)
  PROVE  I2Invariant(g) = Cardinality(Simple(g).edge)
<1> DEFINE E == AllEdges(g.parts)
<1>1. IsFiniteSet(E) /\ CompleteI2(g.parts) = Cardinality(E)
  BY GraphFacts, EdgesAreCounted
<1>2. E \cap g.deleted = g.deleted
  BY DEF IsGraph
<1>3. Cardinality(E \ g.deleted) = Cardinality(E) - Cardinality(E \cap g.deleted)
  BY <1>1, FS_Difference
<1>4. Simple(g).edge = E \ g.deleted
  BY DEF Simple
<1> QED
  BY <1>1, <1>2, <1>3, <1>4 DEF I2Invariant

-----------------------------------------------------------------------------
(* Graphs that are equal but for the names of the vertices of each part    *)

\* f exchanges vertices within the parts, and g with its vertices exchanged is h.
IsTwin(f, g, h) ==
    /\ IsGraph(g) /\ IsGraph(h) /\ h.parts = g.parts
    /\ \A x \in Vertices(g.parts) :
          f[x] \in Vertices(g.parts) /\ f[f[x]] = x /\ Part(f[x]) = Part(x)
    /\ \A x, y \in Vertices(g.parts) :
          {x, y} \in g.deleted <=> {f[x], f[y]} \in h.deleted

LEMMA TwinsAreMutual ==
  ASSUME NEW f, NEW g, NEW h, IsTwin(f, g, h)
  PROVE  IsTwin(f, h, g)
<1>1. ASSUME NEW x \in Vertices(g.parts), NEW y \in Vertices(g.parts)
      PROVE  {x, y} \in h.deleted <=> {f[x], f[y]} \in g.deleted
  <2>1. {f[x], f[y]} \in g.deleted <=> {f[f[x]], f[f[y]]} \in h.deleted
    BY DEF IsTwin
  <2>2. f[f[x]] = x /\ f[f[y]] = y
    BY DEF IsTwin
  <2> QED
    BY <2>1, <2>2
<1> QED
  BY <1>1 DEF IsTwin

Involution(f, V) == \A x \in V : f[x] \in V /\ f[f[x]] = x

LEMMA RenamesBack ==
  ASSUME NEW V, NEW f, Involution(f, V), NEW S \in SUBSET V
  PROVE  /\ Renames(f, S) \in SUBSET V /\ Renames(f, Renames(f, S)) = S
         /\ IsFiniteSet(S) => /\ IsFiniteSet(Renames(f, S))
                              /\ Cardinality(Renames(f, S)) = Cardinality(S)
<1>1. Renames(f, S) \in SUBSET V /\ Renames(f, Renames(f, S)) = S
  BY DEF Renames, Involution
<1>2. OneToOneOnto(f, S, Renames(f, S))
  BY DEF Renames, Involution, OneToOneOnto
<1> QED
  BY <1>1, <1>2, SameSize

\* What a renaming takes to each other is equally many.
LEMMA RenamedAreAsMany ==
  ASSUME NEW V, NEW f, Involution(f, V),
         NEW A \in SUBSET (SUBSET V), NEW B \in SUBSET (SUBSET V), IsFiniteSet(A),
         \A S \in A : Renames(f, S) \in B, \A S \in B : Renames(f, S) \in A
  PROVE  Cardinality(A) = Cardinality(B)
<1> DEFINE k == [S \in A |-> Renames(f, S)]
<1>1. \A S \in SUBSET V : Renames(f, Renames(f, S)) = S
  BY RenamesBack
<1>2. \A S \in A : k[S] \in B
  OBVIOUS
<1>3. ASSUME NEW S \in A, NEW T \in A, k[S] = k[T] PROVE S = T
  <2>1. Renames(f, S) = Renames(f, T)
    BY <1>3
  <2> HIDE DEF k
  <2> QED
    BY <1>1, <2>1
<1>4. ASSUME NEW T \in B PROVE \E S \in A : k[S] = T
  <2>1. Renames(f, T) \in A /\ k[Renames(f, T)] = Renames(f, Renames(f, T))
    OBVIOUS
  <2> HIDE DEF k
  <2> QED
    BY <1>1, <2>1
<1> HIDE DEF k
<1>5. OneToOneOnto(k, A, B)
  BY <1>2, <1>3, <1>4 DEF OneToOneOnto
<1> QED
  BY <1>5, SameSize

\* So is what it takes to each other member by member.
LEMMA RenamedAllAreAsMany ==
  ASSUME NEW V, NEW f, Involution(f, V),
         NEW A \in SUBSET (SUBSET (SUBSET V)), NEW B \in SUBSET (SUBSET (SUBSET V)),
         IsFiniteSet(A),
         \A S \in A : RenamesAll(f, S) \in B, \A S \in B : RenamesAll(f, S) \in A
  PROVE  Cardinality(A) = Cardinality(B)
<1> DEFINE W == SUBSET V
           F == [S \in W |-> Renames(f, S)]
<1>1. Involution(F, W)
  <2>1. \A S \in W : Renames(f, S) \in W /\ Renames(f, Renames(f, S)) = S
    BY RenamesBack
  <2> QED
    BY <2>1 DEF Involution
<1>2. \A S \in SUBSET W : RenamesAll(f, S) = Renames(F, S)
  BY DEF RenamesAll, Renames
<1> HIDE DEF F
<1>3. /\ \A S \in A : Renames(F, S) \in B
      /\ \A S \in B : Renames(F, S) \in A
  BY <1>2
<1> HIDE DEF W
<1> QED
  BY <1>1, <1>3, RenamedAreAsMany DEF W

LEMMA TwinFacts ==
  ASSUME NEW f, NEW g, NEW h, IsTwin(f, g, h)
  PROVE  /\ Involution(f, Vertices(g.parts)) /\ h.parts = g.parts
         /\ \A x, y \in Vertices(g.parts) :
               IsAdjacent(g, x, y) <=> IsAdjacent(h, f[x], f[y])
         /\ \A S \in SUBSET Vertices(g.parts) : Parts(Renames(f, S)) = Parts(S)
<1>1. \A S \in SUBSET Vertices(g.parts) : Parts(Renames(f, S)) = Parts(S)
  BY DEF IsTwin, Parts, Renames
<1> QED
  BY <1>1 DEF IsTwin, Involution, IsAdjacent

LEMMA TwinTriangles ==
  ASSUME NEW f, NEW g, NEW h, IsTwin(f, g, h), NEW T \in Triangles(Simple(g))
  PROVE  Renames(f, T) \in Triangles(Simple(h))
<1> DEFINE V == Vertices(g.parts)
<1>0. IsGraph(g) /\ IsGraph(h) /\ h.parts = g.parts /\ IsFiniteSet(V)
  BY GraphFacts DEF IsTwin
<1>1. /\ Involution(f, V)
      /\ \A x, y \in V : IsAdjacent(g, x, y) <=> IsAdjacent(h, f[x], f[y])
  BY TwinFacts
<1>2. /\ \A x, y \in V : Adjacent(Simple(g), x, y) <=> IsAdjacent(g, x, y)
      /\ \A x, y \in V : Adjacent(Simple(h), x, y) <=> IsAdjacent(h, x, y)
  BY <1>0, AdjacentIsEdge
<1>3. T \in SUBSET V /\ Cardinality(T) = 3
  BY DEF Triangles, kSubset, Simple
<1>4. \A x, y \in T : x # y => Adjacent(Simple(g), x, y)
  BY DEF Triangles
<1>5. /\ Renames(f, T) \in SUBSET V /\ Cardinality(Renames(f, T)) = 3
  BY <1>0, <1>1, <1>3, RenamesBack, FS_Subset
<1>6. ASSUME NEW u \in Renames(f, T), NEW v \in Renames(f, T), u # v
      PROVE  Adjacent(Simple(h), u, v)
  <2>1. PICK x, y \in T : u = f[x] /\ v = f[y]
    BY DEF Renames
  <2>2. x # y /\ x \in V /\ y \in V /\ f[x] \in V /\ f[y] \in V
    BY <1>1, <1>3, <1>6, <2>1 DEF Involution
  <2> QED
    BY <1>1, <1>2, <1>4, <2>1, <2>2
<1>7. Renames(f, T) \in kSubset(3, Simple(h).node)
  BY <1>0, <1>5 DEF kSubset, Simple
<1> QED
  BY <1>6, <1>7 DEF Triangles

LEMMA TwinCycles ==
  ASSUME NEW f, NEW g, NEW h, IsTwin(f, g, h),
         NEW Q \in InducedFourCycles(Simple(g))
  PROVE  Renames(f, Q) \in InducedFourCycles(Simple(h))
<1> DEFINE V == Vertices(g.parts)
<1>0. IsGraph(g) /\ IsGraph(h) /\ h.parts = g.parts
  BY DEF IsTwin
<1>1. /\ Involution(f, V)
      /\ \A x, y \in V : IsAdjacent(g, x, y) <=> IsAdjacent(h, f[x], f[y])
  BY TwinFacts
<1>2. PICK a, b, c, d : Square(g, a, b, c, d) /\ Q = {a, b, c, d}
  BY <1>0, CyclesAreSquares
<1>3. a \in V /\ b \in V /\ c \in V /\ d \in V /\ a # b /\ c # d
  <2>1. {a, b, c, d} \subseteq V /\ a # b /\ c # d
    BY <1>2 DEF Square
  <2> QED
    BY <2>1
<1>4. Renames(f, Q) = {f[a], f[b], f[c], f[d]}
  BY <1>2 DEF Renames
<1>5. /\ {f[a], f[b], f[c], f[d]} \subseteq V
      /\ f[a] # f[b] /\ f[c] # f[d]
  BY <1>1, <1>3 DEF Involution
<1>6. Square(h, f[a], f[b], f[c], f[d])
  BY <1>0, <1>1, <1>2, <1>3, <1>5 DEF Square
<1> QED
  BY <1>0, <1>4, <1>6, CyclesAreSquares

LEMMA TwinsHaveTheSameCounts ==
  ASSUME NEW f, NEW g, NEW h, IsTwin(f, g, h)
  PROVE  I3Invariant(g) = I3Invariant(h) /\ I4Invariant(g) = I4Invariant(h)
<1> DEFINE V == Vertices(g.parts)
           C(k) == {Q \in InducedFourCycles(Simple(k)) :
                       Cardinality(Parts(Q)) <= 3}
<1>0. /\ IsGraph(g) /\ IsGraph(h) /\ h.parts = g.parts
      /\ IsFiniteSet(SUBSET V) /\ Involution(f, V)
  <2>1. IsGraph(g) /\ IsGraph(h) /\ h.parts = g.parts
    BY DEF IsTwin
  <2>2. IsFiniteSet(SUBSET V)
    BY <2>1, GraphFacts, FS_SUBSET
  <2> QED
    BY <2>1, <2>2, TwinFacts
<1>1. IsTwin(f, h, g)
  BY TwinsAreMutual
<1>2. Cardinality(Triangles(Simple(g))) = Cardinality(Triangles(Simple(h)))
  <2>1. /\ Triangles(Simple(g)) \in SUBSET (SUBSET V)
        /\ Triangles(Simple(h)) \in SUBSET (SUBSET V)
    BY <1>0 DEF Triangles, kSubset, Simple
  <2>2. IsFiniteSet(Triangles(Simple(g)))
    BY <1>0, <2>1, FS_Subset
  <2>3. /\ \A T \in Triangles(Simple(g)) : Renames(f, T) \in Triangles(Simple(h))
        /\ \A T \in Triangles(Simple(h)) : Renames(f, T) \in Triangles(Simple(g))
    BY <1>1, TwinTriangles
  <2> HIDE DEF V
  <2> QED
    BY <1>0, <2>1, <2>2, <2>3, RenamedAreAsMany
<1>3. Cardinality(C(g)) = Cardinality(C(h))
  <2>1. C(g) \in SUBSET (SUBSET V) /\ C(h) \in SUBSET (SUBSET V)
    BY <1>0 DEF InducedFourCycles, kSubset, Simple
  <2>2. IsFiniteSet(C(g))
    <3> HIDE DEF C, V
    <3> QED
      BY <1>0, <2>1, FS_Subset
  <2>3. \A Q \in SUBSET V : Parts(Renames(f, Q)) = Parts(Q)
    BY TwinFacts
  <2>4. ASSUME NEW Q \in C(g) PROVE Renames(f, Q) \in C(h)
    <3>1. Renames(f, Q) \in InducedFourCycles(Simple(h))
      BY TwinCycles
    <3>2. Q \in SUBSET V /\ Cardinality(Parts(Q)) <= 3
      BY <2>1
    <3>3. Cardinality(Parts(Renames(f, Q))) <= 3
      BY <2>3, <3>2
    <3> QED
      BY <3>1, <3>3
  <2>5. ASSUME NEW Q \in C(h) PROVE Renames(f, Q) \in C(g)
    <3>1. Renames(f, Q) \in InducedFourCycles(Simple(g))
      BY <1>1, TwinCycles
    <3>2. Q \in SUBSET V /\ Cardinality(Parts(Q)) <= 3
      BY <2>1
    <3>3. Cardinality(Parts(Renames(f, Q))) <= 3
      BY <2>3, <3>2
    <3> QED
      BY <3>1, <3>3
  <2> HIDE DEF C, V
  <2>6. \A Q \in C(g) : Renames(f, Q) \in C(h)
    BY <2>4
  <2>7. \A Q \in C(h) : Renames(f, Q) \in C(g)
    BY <2>5
  <2> QED
    BY <1>0, <2>1, <2>2, <2>6, <2>7, RenamedAreAsMany
<1>4. /\ I3Invariant(g) = Cardinality(Triangles(Simple(g)))
      /\ I3Invariant(h) = Cardinality(Triangles(Simple(h)))
  BY <1>0, I3CountsTriangles
<1>5. /\ I4Invariant(g) = Cardinality(C(g))
      /\ I4Invariant(h) = Cardinality(C(h))
  BY <1>0, I4CountsCycles
<1> HIDE DEF C
<1> QED
  BY <1>2, <1>3, <1>4, <1>5

-----------------------------------------------------------------------------
(* Garlands of twins                                                       *)

LEMMA RenamesAllBack ==
  ASSUME NEW V, NEW f, Involution(f, V), NEW S \in SUBSET (SUBSET V)
  PROVE  /\ RenamesAll(f, S) \in SUBSET (SUBSET V)
         /\ RenamesAll(f, RenamesAll(f, S)) = S
         /\ UNION S \in SUBSET V
         /\ UNION RenamesAll(f, S) = Renames(f, UNION S)
<1>1. \A e \in SUBSET V :
         Renames(f, e) \in SUBSET V /\ Renames(f, Renames(f, e)) = e
  BY RenamesBack
<1>2. RenamesAll(f, S) \in SUBSET (SUBSET V)
  BY <1>1 DEF RenamesAll
<1>3. RenamesAll(f, RenamesAll(f, S)) = S
  BY <1>1 DEF RenamesAll
<1>4. UNION RenamesAll(f, S) = Renames(f, UNION S)
  BY DEF RenamesAll, Renames
<1> QED
  BY <1>2, <1>3, <1>4

LEMMA ClosesRenamed ==
  ASSUME NEW V, NEW f, Involution(f, V), NEW S \in SUBSET (SUBSET V),
         NEW C \in SUBSET V, Closes(S, C)
  PROVE  Closes(RenamesAll(f, S), Renames(f, C))
<1>1. ASSUME NEW e \in S
      PROVE  \/ Renames(f, e) \subseteq Renames(f, C)
             \/ Renames(f, e) \cap Renames(f, C) = {}
  <2>1. CASE e \subseteq C
    BY <2>1 DEF Renames
  <2>2. CASE e \cap C = {}
    <3>1. ASSUME NEW x \in e, NEW y \in C, f[x] = f[y] PROVE FALSE
      <4>1. x = y
        BY <3>1 DEF Involution
      <4> QED
        BY <2>2, <4>1
    <3> QED
      BY <3>1 DEF Renames
  <2> QED
    BY <2>1, <2>2 DEF Closes
<1>2. \A d \in RenamesAll(f, S) : \E e \in S : d = Renames(f, e)
  BY DEF RenamesAll
<1>3. \A d \in RenamesAll(f, S) :
         d \subseteq Renames(f, C) \/ d \cap Renames(f, C) = {}
  BY <1>1, <1>2
<1> QED
  BY <1>3 DEF Closes

LEMMA GarlandsRenamed ==
  ASSUME NEW V, NEW f, Involution(f, V), NEW S \in SUBSET (SUBSET V),
         NEW C \in Garlands(S)
  PROVE  Renames(f, C) \in Garlands(RenamesAll(f, S))
<1> DEFINE S2 == RenamesAll(f, S)
           C2 == Renames(f, C)
<1>1. /\ C \in SUBSET UNION S /\ C # {} /\ Closes(S, C)
      /\ \A D \in SUBSET C : D # {} /\ Closes(S, D) => D = C
  BY DEF Garlands
<1>2. /\ S2 \in SUBSET (SUBSET V) /\ RenamesAll(f, S2) = S
      /\ UNION S \in SUBSET V /\ UNION S2 = Renames(f, UNION S)
  BY RenamesAllBack
<1>3. \A e \in SUBSET V :
         Renames(f, e) \in SUBSET V /\ Renames(f, Renames(f, e)) = e
  BY RenamesBack
<1>4. C \in SUBSET V
  BY <1>1, <1>2
<1>5. Closes(S2, C2)
  BY <1>1, <1>4, ClosesRenamed
<1>6. C2 \in SUBSET UNION S2 /\ C2 # {}
  BY <1>1, <1>2 DEF Renames
<1>7. ASSUME NEW D \in SUBSET C2, D # {}, Closes(S2, D) PROVE D = C2
  <2>1. D \in SUBSET V
    BY <1>3, <1>4
  <2> HIDE DEF S2
  <2>2. Closes(S, Renames(f, D))
    BY <1>2, <1>7, <2>1, ClosesRenamed
  <2>3. Renames(f, D) \in SUBSET C /\ Renames(f, D) # {}
    <3>1. Renames(f, D) \in SUBSET Renames(f, C2)
      BY DEF Renames
    <3>2. Renames(f, D) # {}
      BY <1>7 DEF Renames
    <3> QED
      BY <1>3, <1>4, <3>1, <3>2
  <2>4. Renames(f, D) = C
    BY <1>1, <2>2, <2>3
  <2> QED
    BY <1>3, <2>1, <2>4
<1> HIDE DEF S2, C2
<1> QED
  BY <1>5, <1>6, <1>7 DEF Garlands, S2, C2

\* Within a part a vertex is as good as another.
LEMMA DestroyedRenamed ==
  ASSUME NEW p, NEW f, Involution(f, Vertices(p)),
         \A x \in Vertices(p) : Part(f[x]) = Part(x),
         NEW S \in SUBSET (SUBSET Vertices(p))
  PROVE  Destroyed(p, S) \subseteq Destroyed(p, RenamesAll(f, S))
<1> DEFINE V == Vertices(p)
           S2 == RenamesAll(f, S)
<1>1. UNION S2 = Renames(f, UNION S)
  BY RenamesAllBack
<1>2. ASSUME NEW c \in DOMAIN p, VerticesOf(p, c) \subseteq UNION S
      PROVE  VerticesOf(p, c) \subseteq UNION S2
  <2>1. VerticesOf(p, c) = {x \in V : Part(x) = c}
    <3>1. \A x \in VerticesOf(p, c) : Part(x) = c
      BY DEF VerticesOf, Part
    <3>2. \A x \in V : x \in VerticesOf(p, Part(x))
      BY DEF Vertices, VerticesOf, Part
    <3>3. VerticesOf(p, c) \subseteq V
      BY DEF Vertices
    <3> QED
      BY <3>1, <3>2, <3>3
  <2>2. ASSUME NEW x \in VerticesOf(p, c) PROVE x \in UNION S2
    <3>1. x \in V /\ f[x] \in V /\ f[f[x]] = x /\ Part(f[x]) = c
      BY <2>1 DEF Involution
    <3>2. f[x] \in UNION S
      BY <1>2, <2>1, <3>1
    <3>3. f[f[x]] \in Renames(f, UNION S)
      BY <3>2 DEF Renames
    <3> QED
      BY <1>1, <3>1, <3>3
  <2> QED
    BY <2>2
<1> HIDE DEF S2
<1> QED
  BY <1>2 DEF Destroyed, S2

LEMMA InterestingRenamed ==
  ASSUME NEW p \in Seq(Nat), NEW V, V = Vertices(p), NEW f, Involution(f, V),
         \A x \in V : Part(f[x]) = Part(x),
         NEW S \in SUBSET (SUBSET V), IsInterestingGarland(p, S)
  PROVE  IsInterestingGarland(p, RenamesAll(f, S))
<1> DEFINE S2 == RenamesAll(f, S)
<1>1. /\ S2 \in SUBSET (SUBSET V) /\ RenamesAll(f, S2) = S
      /\ UNION S \in SUBSET V
  BY RenamesAllBack
<1>2. UNION S2 \in SUBSET V
  BY <1>1
<1>3. /\ S # {}
      /\ \A C \in Garlands(S) : \A u, v \in C : Part(u) # Part(v) => {u, v} \in S
      /\ Cardinality(Garlands(S)) = Cardinality(Destroyed(p, S)) + 1
  BY DEF IsInterestingGarland, IsGarland
<1>4. S2 # {}
  BY <1>3 DEF RenamesAll
<1> HIDE DEF S2
<1>5. /\ \A C \in Garlands(S) : Renames(f, C) \in Garlands(S2)
      /\ \A C \in Garlands(S2) : Renames(f, C) \in Garlands(S)
  <2>1. \A C \in Garlands(S) : Renames(f, C) \in Garlands(S2)
    BY GarlandsRenamed DEF S2
  <2>2. \A C \in Garlands(S2) : Renames(f, C) \in Garlands(RenamesAll(f, S2))
    BY <1>1, GarlandsRenamed
  <2> QED
    BY <1>1, <2>1, <2>2
<1>6. Garlands(S) \in SUBSET (SUBSET V) /\ Garlands(S2) \in SUBSET (SUBSET V)
  BY <1>1, <1>2 DEF Garlands
<1>7. Cardinality(Garlands(S)) = Cardinality(Garlands(S2))
  <2>1. IsFiniteSet(Garlands(S))
    BY <1>6, VerticesAreFinite, FS_SUBSET, FS_Subset
  <2> QED
    BY <1>5, <1>6, <2>1, RenamedAreAsMany
<1>8. Destroyed(p, S) = Destroyed(p, S2)
  <2>1. Destroyed(p, S) \subseteq Destroyed(p, S2)
    BY DestroyedRenamed DEF S2
  <2>2. Destroyed(p, S2) \subseteq Destroyed(p, S)
    BY <1>1, DestroyedRenamed
  <2> QED
    BY <2>1, <2>2
<1>9. ASSUME NEW C \in Garlands(S2), NEW u \in C, NEW v \in C, Part(u) # Part(v)
      PROVE  {u, v} \in S2
  <2>1. u \in V /\ v \in V
    BY <1>6
  <2>2. f[u] \in Renames(f, C) /\ f[v] \in Renames(f, C)
    BY DEF Renames
  <2>3. Part(f[u]) # Part(f[v])
    BY <1>9, <2>1
  <2>4. {f[u], f[v]} \in S
    BY <1>3, <1>5, <2>2, <2>3
  <2>5. Renames(f, {f[u], f[v]}) = {u, v}
    <3>1. Renames(f, {f[u], f[v]}) = {f[f[u]], f[f[v]]}
      BY RenamesPair
    <3>2. f[f[u]] = u /\ f[f[v]] = v
      BY <2>1 DEF Involution
    <3> QED
      BY <3>1, <3>2
  <2> QED
    BY <2>4, <2>5 DEF S2, RenamesAll
<1> QED
  BY <1>3, <1>4, <1>7, <1>8, <1>9 DEF IsInterestingGarland, IsGarland, S2

LEMMA TwinGarlands ==
  ASSUME NEW f, NEW g, NEW h, IsTwin(f, g, h),
         NEW S \in SUBSET g.deleted, IsInterestingGarland(g.parts, S)
  PROVE  /\ RenamesAll(f, S) \in SUBSET h.deleted
         /\ IsInterestingGarland(h.parts, RenamesAll(f, S))
<1> DEFINE p == g.parts
           V == Vertices(p)
<1>1. /\ IsGraph(g) /\ h.parts = p /\ p \in Seq(Nat)
      /\ \A x \in V : Part(f[x]) = Part(x)
      /\ Involution(f, V)
  <2>1. IsGraph(g) /\ h.parts = p /\ \A x \in V : Part(f[x]) = Part(x)
    BY DEF IsTwin
  <2> QED
    BY <2>1, GraphFacts, TwinFacts
<1>2. \A e \in g.deleted : e \in SUBSET V
  BY <1>1, GraphFacts
<1>3. S \in SUBSET (SUBSET V)
  BY <1>2
<1>4. ASSUME NEW e \in S PROVE Renames(f, e) \in h.deleted
  <2>1. PICK x, y \in V : e = {x, y}
    BY <1>1, GraphFacts, EdgesArePairs
  <2>2. {x, y} \in g.deleted
    BY <2>1
  <2>3. {f[x], f[y]} \in h.deleted
    BY <2>2 DEF IsTwin
  <2> QED
    BY <2>1, <2>3, RenamesPair
<1>5. RenamesAll(f, S) \in SUBSET h.deleted
  BY <1>4 DEF RenamesAll
<1>6. IsInterestingGarland(p, RenamesAll(f, S))
  <2> HIDE DEF p
  <2> QED
    BY <1>1, <1>3, InterestingRenamed DEF p
<1> QED
  BY <1>1, <1>5, <1>6

LEMMA TwinsHaveTheSamePt ==
  ASSUME NEW f, NEW g, NEW h, IsTwin(f, g, h)
  PROVE  PtInvariant(g) = PtInvariant(h)
<1> DEFINE V == Vertices(g.parts)
           A(k) == {S \in SUBSET k.deleted : IsInterestingGarland(k.parts, S)}
<1>1. /\ IsGraph(g) /\ IsGraph(h) /\ h.parts = g.parts /\ Involution(f, V)
  BY TwinFacts DEF IsTwin
<1>2. IsTwin(f, h, g)
  BY TwinsAreMutual
<1>3. /\ g.deleted \in SUBSET (SUBSET V) /\ h.deleted \in SUBSET (SUBSET V)
      /\ IsFiniteSet(g.deleted)
  <2>1. \A e \in g.deleted : e \in SUBSET V
    BY <1>1, GraphFacts
  <2>2. \A e \in h.deleted : e \in SUBSET Vertices(h.parts)
    BY <1>1, GraphFacts
  <2>3. IsFiniteSet(g.deleted)
    BY <1>1, GraphFacts
  <2> QED
    BY <1>1, <2>1, <2>2, <2>3
<1>4. /\ \A S \in A(g) : RenamesAll(f, S) \in A(h)
      /\ \A S \in A(h) : RenamesAll(f, S) \in A(g)
  BY <1>2, TwinGarlands
<1>5. IsFiniteSet(A(g))
  <2>1. A(g) \in SUBSET (SUBSET g.deleted)
    OBVIOUS
  <2> HIDE DEF A
  <2> QED
    BY <1>3, <2>1, FS_SUBSET, FS_Subset
<1>6. /\ A(g) \in SUBSET (SUBSET (SUBSET V))
      /\ A(h) \in SUBSET (SUBSET (SUBSET V))
  BY <1>3
<1>7. CountGarlands(g) = Cardinality(A(g)) /\ CountGarlands(h) = Cardinality(A(h))
  BY DEF CountGarlands
<1> HIDE DEF A, V
<1>8. Cardinality(A(g)) = Cardinality(A(h))
  BY <1>1, <1>4, <1>5, <1>6, RenamedAllAreAsMany
<1> QED
  BY <1>1, <1>7, <1>8 DEF PtInvariant

-----------------------------------------------------------------------------
(* Garlands                                                                *)

LEMMA GarlandsAreDisjoint ==
  ASSUME NEW S, NEW C \in Garlands(S), NEW D \in Garlands(S), C \cap D # {}
  PROVE  C = D
<1>1. /\ C \in SUBSET UNION S /\ Closes(S, C)
      /\ \A B \in SUBSET C : B # {} /\ Closes(S, B) => B = C
      /\ D \in SUBSET UNION S /\ Closes(S, D)
      /\ \A B \in SUBSET D : B # {} /\ Closes(S, B) => B = D
  BY DEF Garlands
<1>2. Closes(S, C \cap D)
  BY <1>1 DEF Closes
<1>3. C \cap D = C
  BY <1>1, <1>2
<1>4. C \cap D = D
  BY <1>1, <1>2
<1> QED
  BY <1>3, <1>4

LEMMA GarlandsCover ==
  ASSUME NEW S, IsFiniteSet(UNION S), NEW x \in UNION S
  PROVE  \E C \in Garlands(S) : x \in C
<1> DEFINE U == UNION S
           X == {C \in SUBSET U : x \in C /\ Closes(S, C)}
<1>1. U \in X
  BY DEF Closes
<1>2. PICK T \in X : \A D \in X : D \subseteq T => D = T
  <2>1. X \in SUBSET (SUBSET U) /\ X # {}
    BY <1>1
  <2> HIDE DEF U, X
  <2> QED
    BY <2>1, MinimalSet DEF U
<1>3. ASSUME NEW D \in SUBSET T, D # {}, Closes(S, D) PROVE D = T
  <2>1. CASE x \in D
    BY <1>2, <1>3, <2>1
  <2>2. CASE x \notin D
    <3>1. Closes(S, T \ D)
      <4>1. Closes(S, T)
        OBVIOUS
      <4> QED
        BY <1>3, <4>1 DEF Closes
    <3>2. T \ D \in X
      BY <2>2, <3>1
    <3>3. T \ D = T
      BY <1>2, <3>2
    <3> QED
      BY <1>3, <3>3
  <2> QED
    BY <2>1, <2>2
<1> QED
  BY <1>3 DEF Garlands

\* Every edge is in one garland.
LEMMA EdgesAreInGarlands ==
  ASSUME NEW S, IsFiniteSet(UNION S), NEW e \in S, e # {}
  PROVE  \E C \in Garlands(S) : e \subseteq C
<1>1. PICK x \in e : TRUE
  OBVIOUS
<1>2. PICK C \in Garlands(S) : x \in C
  BY GarlandsCover
<1>3. Closes(S, C)
  BY DEF Garlands
<1> QED
  BY <1>1, <1>2, <1>3 DEF Closes

-----------------------------------------------------------------------------
(* Partitions into stable sets                                             *)

IsPartition(P, V) ==
    /\ UNION P = V /\ {} \notin P
    /\ \A A, B \in P : A # B => A \cap B = {}

LEMMA PartitionsAreFinite ==
  ASSUME NEW V, IsFiniteSet(V), NEW P, IsPartition(P, V)
  PROVE  IsFiniteSet(P)
<1>1. P \in SUBSET (SUBSET V)
  BY DEF IsPartition
<1> QED
  BY <1>1, FS_SUBSET, FS_Subset

IntoStable(G, W) == {P \in SUBSET (SUBSET W) :
                        IsPartition(P, W) /\ \A A \in P : Stable(G, A)}

\* The tabled function of the definition is what it should be.
FirstClasses(G, W, v) == {T \in SUBSET W : v \in T /\ Stable(G, T)}
IsTableOfPartitions(f, G) ==
    f = [W \in SUBSET G.node |->
            IF W = {} THEN {{}}
            ELSE LET v == CHOOSE x \in W : TRUE IN
                 UNION {{{S} \cup P : P \in f[W \ S]} :
                           S \in {T \in SUBSET W : v \in T /\ Stable(G, T)}}]

LEMMA PartitionWithFirst ==
  ASSUME NEW G, NEW W, NEW v \in W
  PROVE  IntoStable(G, W) =
           UNION {{{S} \cup P : P \in IntoStable(G, W \ S)} :
                     S \in {T \in SUBSET W : v \in T /\ Stable(G, T)}}
<1> DEFINE first == {T \in SUBSET W : v \in T /\ Stable(G, T)}
           R == UNION {{{S} \cup P : P \in IntoStable(G, W \ S)} : S \in first}
<1>1. ASSUME NEW Q \in IntoStable(G, W) PROVE Q \in R
  <2>1. /\ UNION Q = W /\ {} \notin Q /\ \A A \in Q : Stable(G, A)
        /\ \A A, B \in Q : A # B => A \cap B = {}
    BY DEF IntoStable, IsPartition
  <2>2. PICK S \in Q : v \in S
    BY <2>1
  <2>3. S \in first
    BY <2>1, <2>2
  <2>4. Q \ {S} \in SUBSET (SUBSET (W \ S))
    BY <2>1
  <2>5. UNION (Q \ {S}) = W \ S
    BY <2>1, <2>2
  <2>6. Q \ {S} \in IntoStable(G, W \ S)
    BY <2>1, <2>4, <2>5 DEF IntoStable, IsPartition
  <2>7. Q = {S} \cup (Q \ {S})
    OBVIOUS
  <2> HIDE DEF first
  <2> QED
    BY <2>3, <2>6, <2>7
<1>2. ASSUME NEW Q \in R PROVE Q \in IntoStable(G, W)
  <2>1. PICK S \in first : \E P \in IntoStable(G, W \ S) : Q = {S} \cup P
    OBVIOUS
  <2>2. PICK P \in IntoStable(G, W \ S) : Q = {S} \cup P
    BY <2>1
  <2>3. /\ UNION P = W \ S /\ {} \notin P /\ \A A \in P : Stable(G, A)
        /\ \A A, B \in P : A # B => A \cap B = {}
    BY DEF IntoStable, IsPartition
  <2>4. S \in SUBSET W /\ v \in S /\ Stable(G, S)
    OBVIOUS
  <2>5. \A A \in P : A \in SUBSET (W \ S)
    BY <2>3
  <2>6. UNION Q = W
    BY <2>2, <2>3, <2>4
  <2>7. \A A, B \in Q : A # B => A \cap B = {}
    BY <2>2, <2>3, <2>5
  <2>8. {} \notin Q /\ \A A \in Q : Stable(G, A)
    BY <2>2, <2>3, <2>4
  <2>9. Q \in SUBSET (SUBSET W)
    BY <2>6
  <2> QED
    BY <2>6, <2>7, <2>8, <2>9 DEF IntoStable, IsPartition
<1> HIDE DEF R
<1> QED
  BY <1>1, <1>2 DEF R

LEMMA NothingToPartition ==
  ASSUME NEW G
  PROVE  IntoStable(G, {}) = {{}}
<1>1. IsPartition({}, {})
  BY DEF IsPartition
<1>2. ASSUME NEW P \in SUBSET (SUBSET {}), IsPartition(P, {}) PROVE P = {}
  BY <1>2 DEF IsPartition
<1> QED
  BY <1>1, <1>2 DEF IntoStable

LEMMA TableOfPartitionsExists ==
  ASSUME NEW G
  PROVE  \E f : IsTableOfPartitions(f, G)
<1> DEFINE f == [W \in SUBSET G.node |-> IntoStable(G, W)]
           rest(W) == UNION {{{S} \cup P : P \in f[W \ S]} :
                               S \in {T \in SUBSET W :
                                        (CHOOSE x \in W : TRUE) \in T
                                        /\ Stable(G, T)}}
<1>1. ASSUME NEW W \in SUBSET G.node, W = {} PROVE f[W] = {{}}
  <2>1. IntoStable(G, {}) = {{}}
    BY NothingToPartition
  <2> QED
    BY <1>1, <2>1
<1>2. ASSUME NEW W \in SUBSET G.node, W # {} PROVE f[W] = rest(W)
  <2> DEFINE v == CHOOSE x \in W : TRUE
             first == {T \in SUBSET W : v \in T /\ Stable(G, T)}
  <2>1. v \in W
    BY <1>2
  <2> HIDE DEF v
  <2>2. IntoStable(G, W) =
           UNION {{{S} \cup P : P \in IntoStable(G, W \ S)} : S \in first}
    BY <2>1, PartitionWithFirst
  <2>3. \A S \in first : f[W \ S] = IntoStable(G, W \ S)
    OBVIOUS
  <2>4. f[W] = IntoStable(G, W)
    OBVIOUS
  <2> HIDE DEF f, first
  <2>5. {{{S} \cup P : P \in IntoStable(G, W \ S)} : S \in first}
           = {{{S} \cup P : P \in f[W \ S]} : S \in first}
    BY <2>3
  <2>6. f[W] = UNION {{{S} \cup P : P \in f[W \ S]} : S \in first}
    BY <2>2, <2>4, <2>5
  <2> QED
    BY <2>6 DEF v, first
<1>3. f = [W \in SUBSET G.node |-> f[W]]
  OBVIOUS
<1> HIDE DEF f, rest
<1>4. f = [W \in SUBSET G.node |-> IF W = {} THEN {{}} ELSE rest(W)]
  BY <1>1, <1>2, <1>3
<1> QED
  BY <1>4 DEF IsTableOfPartitions, rest

LEMMA TablesOfPartitionsAgree ==
  ASSUME NEW G, IsFiniteSet(G.node), NEW f, IsTableOfPartitions(f, G)
  PROVE  f[G.node] = IntoStable(G, G.node)
<1> DEFINE V == G.node
           X == {W \in SUBSET V : f[W] # IntoStable(G, W)}
<1>1. SUFFICES ASSUME X # {} PROVE FALSE
  OBVIOUS
<1>2. PICK W \in X : \A U \in X : U \subseteq W => U = W
  <2>1. X \in SUBSET (SUBSET V)
    OBVIOUS
  <2> HIDE DEF X, V
  <2> QED
    BY <1>1, <2>1, MinimalSet DEF V
<1>3. CASE W = {}
  <2>1. IntoStable(G, {}) = {{}}
    BY NothingToPartition
  <2>2. f[{}] = {{}}
    BY DEF IsTableOfPartitions
  <2> QED
    BY <1>2, <1>3, <2>1, <2>2
<1>4. CASE W # {}
  <2> DEFINE v == CHOOSE x \in W : TRUE
             first == {T \in SUBSET W : v \in T /\ Stable(G, T)}
  <2>1. v \in W
    BY <1>4
  <2>2. f[W] = UNION {{{S} \cup P : P \in f[W \ S]} : S \in first}
    BY <1>4 DEF IsTableOfPartitions
  <2> HIDE DEF v
  <2>3. IntoStable(G, W) =
           UNION {{{S} \cup P : P \in IntoStable(G, W \ S)} : S \in first}
    BY <2>1, PartitionWithFirst
  <2>4. ASSUME NEW S \in first PROVE f[W \ S] = IntoStable(G, W \ S)
    <3>1. W \ S \in SUBSET V /\ W \ S \subseteq W /\ W \ S # W
      BY <2>1
    <3> QED
      BY <1>2, <3>1
  <2> DEFINE a(S) == {{S} \cup P : P \in IntoStable(G, W \ S)}
             b(S) == {{S} \cup P : P \in f[W \ S]}
  <2> HIDE DEF first, X, V
  <2>40. \A S \in first : a(S) = b(S)
    BY <2>4
  <2>5. {a(S) : S \in first} = {b(S) : S \in first}
    <3> HIDE DEF a, b
    <3> QED
      BY <2>40
  <2>6. f[W] = IntoStable(G, W)
    BY <2>2, <2>3, <2>5
  <2> QED
    BY <1>2, <2>6 DEF X
<1> QED
  BY <1>3, <1>4

\* StablePartitions are partitions into stable sets, and all of them.
LEMMA StablePartitionsAre ==
  ASSUME NEW G, IsFiniteSet(G.node), NEW k
  PROVE  StablePartitions(G, k) =
           {P \in IntoStable(G, G.node) : Cardinality(P) = k}
<1> DEFINE of == CHOOSE f : IsTableOfPartitions(f, G)
<1>1. StablePartitions(G, k) = {P \in of[G.node] : Cardinality(P) = k}
  BY DEF StablePartitions, IsTableOfPartitions
<1>2. IsTableOfPartitions(of, G)
  BY TableOfPartitionsExists
<1> HIDE DEF of
<1>3. of[G.node] = IntoStable(G, G.node)
  BY <1>2, TablesOfPartitionsAgree
<1> QED
  BY <1>1, <1>3

-----------------------------------------------------------------------------
(* The garland of a partition                                              *)

\* The edges of the complete graph within the sets of P.
Inner(p, P) == {e \in AllEdges(p) : \E A \in P : e \subseteq A}
SamePart(A) == \A u, v \in A : Part(u) = Part(v)

\* The partitions that Pt counts.
Into(g) == {P \in IntoStable(Simple(g), Vertices(g.parts)) :
               Cardinality(P) = Len(g.parts) + 1}

\* A garland, and what it leaves of each part.
Rest(p, S) == {VerticesOf(p, c) \ UNION S : c \in DOMAIN p \ Destroyed(p, S)}
Completed(p, S) == Garlands(S) \cup Rest(p, S)

LEMMA InnerFacts ==
  ASSUME NEW p \in Seq(Nat), NEW P, IsPartition(P, Vertices(p))
  PROVE  /\ \A A \in P : \A u, v \in A : Part(u) # Part(v) =>
               {u, v} \in Inner(p, P)
         /\ \A e \in Inner(p, P) : \E A \in P : \E u, v \in A :
               e = {u, v} /\ Part(u) # Part(v)
         /\ UNION Inner(p, P) \in SUBSET Vertices(p)
<1>1. ASSUME NEW A \in P, NEW u \in A, NEW v \in A, Part(u) # Part(v)
      PROVE  {u, v} \in Inner(p, P)
  <2>1. u \in Vertices(p) /\ v \in Vertices(p)
    BY DEF IsPartition
  <2>2. {u, v} \in AllEdges(p)
    BY <1>1, <2>1, EdgesArePairs
  <2> QED
    BY <2>2 DEF Inner
<1>2. ASSUME NEW e \in Inner(p, P)
      PROVE  /\ \E A \in P : \E u, v \in A : e = {u, v} /\ Part(u) # Part(v)
             /\ e \in SUBSET Vertices(p)
  <2>1. e \in AllEdges(p)
    BY DEF Inner
  <2>2. PICK A \in P : e \subseteq A
    BY DEF Inner
  <2>3. PICK x, y \in Vertices(p) : Part(x) # Part(y) /\ e = {x, y}
    BY <2>1, EdgesArePairs
  <2>4. x \in A /\ y \in A
    BY <2>2, <2>3
  <2> QED
    BY <2>3, <2>4
<1>3. UNION Inner(p, P) \in SUBSET Vertices(p)
  BY <1>2
<1> QED
  BY <1>1, <1>2, <1>3

LEMMA GarlandsOfInner ==
  ASSUME NEW p \in Seq(Nat), NEW P, IsPartition(P, Vertices(p))
  PROVE  Garlands(Inner(p, P)) = {A \in P : ~SamePart(A)}
<1> DEFINE S == Inner(p, P)
<1>1. /\ \A A \in P : \A u, v \in A : Part(u) # Part(v) => {u, v} \in S
      /\ \A e \in S : \E A \in P : \E u, v \in A :
            e = {u, v} /\ Part(u) # Part(v)
  BY InnerFacts
<1>2. \A A, B \in P : A # B => A \cap B = {}
  BY DEF IsPartition
<1> HIDE DEF S
<1>3. ASSUME NEW A \in P, ~SamePart(A) PROVE A \in Garlands(S)
  <2>1. PICK a, b \in A : Part(a) # Part(b)
    BY <1>3 DEF SamePart
  <2>2. ASSUME NEW x \in A PROVE \E y \in A : Part(x) # Part(y)
    BY <2>1
  <2>3. A \in SUBSET UNION S /\ A # {}
    <3>1. ASSUME NEW x \in A PROVE x \in UNION S
      <4>1. PICK y \in A : Part(x) # Part(y)
        BY <2>2
      <4>2. {x, y} \in S /\ x \in {x, y}
        BY <1>1, <4>1
      <4> QED
        BY <4>2
    <3> QED
      BY <2>1, <3>1
  <2>4. Closes(S, A)
    <3>1. ASSUME NEW e \in S PROVE e \subseteq A \/ e \cap A = {}
      <4>1. PICK B \in P : \E u, v \in B : e = {u, v} /\ Part(u) # Part(v)
        BY <1>1
      <4>2. e \subseteq B
        BY <4>1
      <4>3. CASE A = B
        BY <4>2, <4>3
      <4>4. CASE A # B
        BY <1>2, <4>2, <4>4
      <4> QED
        BY <4>3, <4>4
    <3> QED
      BY <3>1 DEF Closes
  <2>5. ASSUME NEW D \in SUBSET A, D # {}, Closes(S, D) PROVE D = A
    <3>1. ASSUME NEW x \in D, NEW y \in A, Part(x) # Part(y) PROVE y \in D
      <4>1. {x, y} \in S
        BY <1>1, <3>1
      <4>2. {x, y} \subseteq D \/ {x, y} \cap D = {}
        BY <2>5, <4>1 DEF Closes
      <4> QED
        BY <4>2
    <3>2. PICK x \in D : TRUE
      BY <2>5
    <3>3. PICK z \in A : Part(x) # Part(z)
      BY <2>2
    <3>4. z \in D
      BY <3>1, <3>3
    <3>5. \A y \in A : y \in D
      BY <3>1, <3>2, <3>3, <3>4
    <3> QED
      BY <3>5
  <2> QED
    BY <2>3, <2>4, <2>5 DEF Garlands
<1>4. ASSUME NEW C \in Garlands(S) PROVE C \in P /\ ~SamePart(C)
  <2>1. C \in SUBSET UNION S /\ C # {}
    BY DEF Garlands
  <2>2. PICK x \in C, e \in S : x \in e
    BY <2>1
  <2>3. PICK A \in P : \E u, v \in A : e = {u, v} /\ Part(u) # Part(v)
    BY <1>1
  <2>4. x \in A /\ ~SamePart(A)
    BY <2>2, <2>3 DEF SamePart
  <2>5. A \in Garlands(S)
    BY <1>3, <2>4
  <2>6. A = C
    BY <2>2, <2>4, <2>5, GarlandsAreDisjoint
  <2> QED
    BY <2>4, <2>6
<1> QED
  BY <1>3, <1>4 DEF S

LEMMA StableMeans ==
  ASSUME NEW g, IsGraph(g), NEW A \in SUBSET Vertices(g.parts)
  PROVE  Stable(Simple(g), A) <=>
           \A u, v \in A : Part(u) # Part(v) => {u, v} \in g.deleted
<1>1. \A u, v \in A : Adjacent(Simple(g), u, v) <=> IsAdjacent(g, u, v)
  BY AdjacentIsEdge
<1> QED
  BY <1>1 DEF Stable, IsAdjacent

\* Classes within a part.
PartOf(A) == Part(CHOOSE x \in A : TRUE)

LEMMA PartOfIs ==
  ASSUME NEW A, SamePart(A), NEW x \in A
  PROVE  PartOf(A) = Part(x)
<1>1. (CHOOSE y \in A : TRUE) \in A
  OBVIOUS
<1> QED
  BY <1>1 DEF PartOf, SamePart

\* If the classes within parts are as few as they can be, each of them is all
\* that the others leave of a part.
LEMMA OneClassInEachPart ==
  ASSUME NEW p \in Seq(Nat), NEW P, IsPartition(P, Vertices(p)),
         NEW S, S = Inner(p, P)
  PROVE  LET small == {A \in P : SamePart(A)}
             left == DOMAIN p \ Destroyed(p, S)
         IN  /\ Cardinality(left) <= Cardinality(small)
             /\ Cardinality(small) = Cardinality(left) => small = Rest(p, S)
<1> DEFINE small == {A \in P : SamePart(A)}
           left == DOMAIN p \ Destroyed(p, S)
           V == Vertices(p)
           f == [A \in small |-> PartOf(A)]
<1>0. IsFiniteSet(small)
  <2>1. IsFiniteSet(P)
    BY VerticesAreFinite, PartitionsAreFinite
  <2>2. small \in SUBSET P
    OBVIOUS
  <2> HIDE DEF small
  <2> QED
    BY <2>1, <2>2, FS_Subset
<1>1. \A x \in V : \A c \in DOMAIN p : x \in VerticesOf(p, c) <=> Part(x) = c
  BY VerticesOfPart
<1>2. UNION P = V /\ {} \notin P /\ \A A, B \in P : A # B => A \cap B = {}
  BY DEF IsPartition
<1>3. Garlands(S) = {A \in P : ~SamePart(A)}
  BY GarlandsOfInner
<1>4. IsFiniteSet(UNION S)
  BY InnerFacts, VerticesAreFinite, FS_Subset
<1>5. ASSUME NEW A \in small
      PROVE  A # {} /\ A \subseteq V /\ A \cap UNION S = {}
  <2>1. A # {} /\ A \subseteq V
    BY <1>2
  <2>2. ASSUME NEW x \in A, x \in UNION S PROVE FALSE
    <3>1. PICK C \in Garlands(S) : x \in C
      BY <1>4, <2>2, GarlandsCover
    <3>2. C \in P /\ ~SamePart(C)
      BY <1>3, <3>1
    <3>3. A \in P /\ SamePart(A)
      OBVIOUS
    <3> QED
      BY <1>2, <2>2, <3>1, <3>2, <3>3
  <2> QED
    BY <2>1, <2>2
<1>6. \A x \in V \ UNION S : \E A \in small : x \in A
  <2>1. ASSUME NEW x \in V, x \notin UNION S PROVE \E A \in small : x \in A
    <3>1. PICK A \in P : x \in A
      BY <1>2
    <3>2. \A C \in Garlands(S) : C \subseteq UNION S
      BY DEF Garlands
    <3>3. A \notin Garlands(S)
      BY <2>1, <3>1, <3>2
    <3> QED
      BY <1>3, <3>1, <3>3
  <2> QED
    BY <2>1
<1>7. ASSUME NEW A \in small
      PROVE  f[A] \in left /\ A \subseteq VerticesOf(p, f[A]) \ UNION S
  <2>1. SamePart(A) /\ A # {} /\ A \subseteq V /\ A \cap UNION S = {}
    BY <1>5
  <2>2. \A x \in A : f[A] = Part(x)
    BY <2>1, PartOfIs
  <2> HIDE DEF f, small, V
  <2>3. PICK x \in A : TRUE
    BY <2>1
  <2>4. x \in V /\ f[A] = Part(x) /\ Part(x) \in DOMAIN p
    BY <2>1, <2>2, VertexFacts DEF V
  <2>5. A \subseteq VerticesOf(p, f[A])
    BY <1>1, <2>1, <2>2, <2>4
  <2>6. f[A] \notin Destroyed(p, S)
    BY <2>1, <2>3, <2>5 DEF Destroyed
  <2> QED
    BY <2>1, <2>4, <2>5, <2>6
<1>8. ASSUME NEW c \in left
      PROVE  \E A \in small : f[A] = c /\ A \cap (VerticesOf(p, c) \ UNION S) # {}
  <2>1. PICK x \in VerticesOf(p, c) : x \notin UNION S
    BY DEF Destroyed
  <2>2. x \in V /\ Part(x) = c
    BY DEF VerticesOf, Vertices, Part
  <2>3. PICK A \in small : x \in A
    BY <1>6, <2>1, <2>2
  <2>4. f[A] = c
    BY <2>2, <2>3, PartOfIs
  <2> QED
    BY <2>1, <2>3, <2>4
<1>9. f \in Surjection(small, left)
  <2>1. f \in [small -> left]
    BY <1>7
  <2> HIDE DEF f, small, left
  <2> QED
    BY <1>8, <2>1 DEF Surjection
<1> HIDE DEF f, small, left, V
<1>10. /\ Cardinality(left) <= Cardinality(small)
       /\ Cardinality(left) = Cardinality(small) <=> f \in Injection(small, left)
  BY <1>0, <1>9, FS_Surjection
<1>11. ASSUME Cardinality(small) = Cardinality(left) PROVE small = Rest(p, S)
  <2>1. f \in Injection(small, left)
    BY <1>10, <1>11
  <2>2. \A A, B \in small : f[A] = f[B] => A = B
    BY <2>1 DEF Injection, IsInjective
  <2>3. ASSUME NEW A \in small PROVE A = VerticesOf(p, f[A]) \ UNION S
    <3>1. f[A] \in left /\ A \subseteq VerticesOf(p, f[A]) \ UNION S
      BY <1>7
    <3>2. ASSUME NEW x \in VerticesOf(p, f[A]), x \notin UNION S PROVE x \in A
      <4>1. x \in V /\ Part(x) = f[A]
        BY <3>1 DEF VerticesOf, Vertices, Part, V, left
      <4>2. PICK B \in small : x \in B
        BY <1>6, <3>2, <4>1
      <4>3. B \subseteq VerticesOf(p, f[B]) /\ f[B] \in left
        BY <1>7
      <4>4. Part(x) = f[B]
        BY <1>1, <4>1, <4>2, <4>3 DEF left
      <4> QED
        BY <2>2, <4>1, <4>2, <4>4
    <3> QED
      BY <3>1, <3>2
  <2>4. ASSUME NEW c \in left PROVE VerticesOf(p, c) \ UNION S \in small
    <3>1. PICK A \in small : f[A] = c
      BY <1>8
    <3> QED
      BY <2>3, <3>1
  <2>5. \A A \in small : f[A] \in left
    BY <1>7
  <2> DEFINE r(c) == VerticesOf(p, c) \ UNION S
  <2>6. Rest(p, S) = {r(c) : c \in left}
    BY DEF Rest, left
  <2>7. \A A \in small : A = r(f[A])
    BY <2>3
  <2>8. \A c \in left : r(c) \in small
    BY <2>4
  <2> HIDE DEF r
  <2> QED
    BY <2>5, <2>6, <2>7, <2>8
<1> QED
  BY <1>10, <1>11 DEF small, left

-----------------------------------------------------------------------------
(* Partitions and their garlands                                           *)

\* No garland of deleted edges destroys as many parts as it replaces.
FewAreDeleted(g) ==
    \A S \in SUBSET g.deleted :
        IsGarland(S) => Cardinality(Garlands(S))
                            > Cardinality(Destroyed(g.parts, S))

LEMMA PartitionGivesGarland ==
  ASSUME NEW g, IsGraph(g), FewAreDeleted(g),
         NEW P \in Into(g), Inner(g.parts, P) # {}
  PROVE  LET S == Inner(g.parts, P) IN
         /\ S \in SUBSET g.deleted /\ IsInterestingGarland(g.parts, S)
         /\ P = Completed(g.parts, S)
<1> DEFINE p == g.parts
           V == Vertices(p)
           S == Inner(p, P)
           small == {A \in P : SamePart(A)}
           left == DOMAIN p \ Destroyed(p, S)
<1>0. /\ p \in Seq(Nat) /\ IsFiniteSet(V)
      /\ IsPartition(P, V) /\ Cardinality(P) = Len(p) + 1
      /\ \A A \in P : A \in SUBSET V /\ Stable(Simple(g), A)
  BY GraphFacts DEF Into, IntoStable
<1>1. S \in SUBSET g.deleted
  <2>1. ASSUME NEW e \in S PROVE e \in g.deleted
    <3>1. PICK A \in P : \E u, v \in A : e = {u, v} /\ Part(u) # Part(v)
      BY <1>0, InnerFacts
    <3>2. A \in SUBSET V /\ Stable(Simple(g), A)
      BY <1>0
    <3>3. \A u, v \in A : Part(u) # Part(v) => {u, v} \in g.deleted
      BY <3>2, StableMeans
    <3> QED
      BY <3>1, <3>3
  <2> QED
    BY <2>1
<1>2. Garlands(S) = {A \in P : ~SamePart(A)}
  BY <1>0, GarlandsOfInner
<1>3. IsGarland(S)
  <2>1. \A A \in P : \A u, v \in A : Part(u) # Part(v) => {u, v} \in S
    BY <1>0, InnerFacts
  <2> QED
    BY <1>2, <2>1 DEF IsGarland
<1>4. Cardinality(Garlands(S)) > Cardinality(Destroyed(p, S))
  BY <1>1, <1>3 DEF FewAreDeleted
<1>5. /\ Cardinality(left) <= Cardinality(small)
      /\ Cardinality(small) = Cardinality(left) => small = Rest(p, S)
  BY <1>0, OneClassInEachPart
<1>6. /\ P = Garlands(S) \cup small /\ Garlands(S) \cap small = {}
      /\ IsFiniteSet(small) /\ IsFiniteSet(Garlands(S))
  <2>1. IsFiniteSet(P)
    BY <1>0, PartitionsAreFinite
  <2>2. small \in SUBSET P /\ Garlands(S) \in SUBSET P
    BY <1>2
  <2>3. P = Garlands(S) \cup small /\ Garlands(S) \cap small = {}
    BY <1>2
  <2> HIDE DEF small, S
  <2> QED
    BY <2>1, <2>2, <2>3, FS_Subset
<1> HIDE DEF small, S
<1>7. Cardinality(P) = Cardinality(Garlands(S)) + Cardinality(small)
  <2>1. Cardinality(P) = Cardinality(Garlands(S)) + Cardinality(small)
                           - Cardinality(Garlands(S) \cap small)
    BY <1>6, FS_Union
  <2>2. Cardinality(Garlands(S) \cap small) = 0
    BY <1>6, FS_EmptySet
  <2>3. Cardinality(Garlands(S)) \in Nat /\ Cardinality(small) \in Nat
    BY <1>6, FS_CardinalityType
  <2> HIDE DEF p, V
  <2> QED
    BY <2>1, <2>2, <2>3
<1>8. /\ Cardinality(left) = Len(p) - Cardinality(Destroyed(p, S))
      /\ Cardinality(Destroyed(p, S)) \in Nat /\ Len(p) \in Nat
  <2>1. Len(p) \in Nat /\ DOMAIN p = 1..Len(p)
    BY <1>0
  <2>2. IsFiniteSet(1..Len(p)) /\ Cardinality(1..Len(p)) = Len(p)
    BY <2>1, FS_Interval
  <2>3. Destroyed(p, S) \in SUBSET (DOMAIN p)
    BY DEF Destroyed
  <2>4. IsFiniteSet(Destroyed(p, S))
    BY <2>1, <2>2, <2>3, FS_Subset
  <2>5. DOMAIN p \cap Destroyed(p, S) = Destroyed(p, S)
    BY <2>3
  <2>6. Cardinality(left) = Cardinality(DOMAIN p)
                              - Cardinality(DOMAIN p \cap Destroyed(p, S))
    BY <2>1, <2>2, FS_Difference
  <2> HIDE DEF left
  <2> QED
    BY <2>1, <2>2, <2>4, <2>5, <2>6, FS_CardinalityType
<1> HIDE DEF left
<1>9. /\ Cardinality(small) = Cardinality(left)
      /\ Cardinality(Garlands(S)) = Cardinality(Destroyed(p, S)) + 1
  <2>1. Cardinality(Garlands(S)) \in Nat /\ Cardinality(small) \in Nat
    BY <1>6, FS_CardinalityType
  <2> HIDE DEF p, V
  <2> QED
    BY <1>0, <1>4, <1>5, <1>7, <1>8, <2>1
<1>10. P = Completed(p, S)
  BY <1>5, <1>6, <1>9 DEF Completed
<1> QED
  BY <1>1, <1>3, <1>9, <1>10 DEF IsInterestingGarland, S

LEMMA GarlandGivesPartition ==
  ASSUME NEW g, IsGraph(g),
         NEW S \in SUBSET g.deleted, IsInterestingGarland(g.parts, S)
  PROVE  LET P == Completed(g.parts, S) IN
         P \in Into(g) /\ Inner(g.parts, P) = S
<1> DEFINE p == g.parts
           V == Vertices(p)
           left == DOMAIN p \ Destroyed(p, S)
           r(c) == VerticesOf(p, c) \ UNION S
           P == Completed(p, S)
           U == UNION S
<1>0. /\ p \in Seq(Nat) /\ IsFiniteSet(V)
      /\ \A e \in g.deleted : e \in AllEdges(p) /\ e \in SUBSET V /\ e # {}
  <2>1. /\ p \in Seq(Nat) /\ IsFiniteSet(V)
        /\ \A e \in g.deleted : e \in AllEdges(p) /\ e \in SUBSET V
    BY GraphFacts
  <2>2. ASSUME NEW e \in g.deleted PROVE e # {}
    BY <2>1, EdgesArePairs
  <2> QED
    BY <2>1, <2>2
<1>1. U \in SUBSET V /\ IsFiniteSet(U)
  <2>1. U \in SUBSET V
    BY <1>0
  <2> QED
    BY <1>0, <2>1, FS_Subset
<1>2. /\ \A C \in Garlands(S) : \A u, v \in C : Part(u) # Part(v) => {u, v} \in S
      /\ Cardinality(Garlands(S)) = Cardinality(Destroyed(p, S)) + 1
  BY DEF IsInterestingGarland, IsGarland
<1>3. \A x \in V : \A c \in DOMAIN p : x \in VerticesOf(p, c) <=> Part(x) = c
  BY <1>0, VerticesOfPart
<1>4. /\ \A C \in Garlands(S) : C \subseteq U /\ C # {}
      /\ \A x \in U : \E C \in Garlands(S) : x \in C
      /\ \A C, D \in Garlands(S) : C \cap D # {} => C = D
  <2>1. \A C \in Garlands(S) : C \subseteq U /\ C # {}
    BY DEF Garlands
  <2> HIDE DEF V
  <2> QED
    BY <1>1, <2>1, GarlandsCover, GarlandsAreDisjoint
<1>5. \A c \in left : /\ r(c) # {} /\ r(c) \cap U = {} /\ r(c) \subseteq V
                      /\ \A x \in r(c) : Part(x) = c
  BY <1>3 DEF Destroyed, Vertices
<1>6. \A x \in V \ U : Part(x) \in left /\ x \in r(Part(x))
  <2>1. \A x \in V : Part(x) \in DOMAIN p /\ x \in VerticesOf(p, Part(x))
    BY <1>3, VertexFacts
  <2> QED
    BY <2>1 DEF Destroyed
<1>7. P = Garlands(S) \cup {r(c) : c \in left}
  BY DEF Completed, Rest
<1> HIDE DEF P, r, left, U, V
<1>8. IsPartition(P, V)
  <2>1. UNION P = V
    <3>1. ASSUME NEW x \in V PROVE \E A \in P : x \in A
      <4>1. CASE x \in U
        BY <1>4, <1>7, <4>1
      <4>2. CASE x \notin U
        BY <1>6, <1>7, <4>2
      <4> QED
        BY <4>1, <4>2
    <3>2. ASSUME NEW A \in P PROVE A \subseteq V
      <4>1. CASE A \in Garlands(S)
        BY <1>1, <1>4, <4>1
      <4>2. CASE \E c \in left : A = r(c)
        BY <1>5, <4>2
      <4> QED
        BY <1>7, <4>1, <4>2
    <3> QED
      BY <3>1, <3>2
  <2>2. {} \notin P
    BY <1>4, <1>5, <1>7
  <2>3. ASSUME NEW A \in P, NEW B \in P, A \cap B # {} PROVE A = B
    <3>1. CASE A \in Garlands(S) /\ B \in Garlands(S)
      BY <1>4, <2>3, <3>1
    <3>2. ASSUME NEW c \in left, A = r(c), B \in Garlands(S) PROVE FALSE
      BY <1>4, <1>5, <2>3, <3>2
    <3>3. ASSUME NEW c \in left, B = r(c), A \in Garlands(S) PROVE FALSE
      BY <1>4, <1>5, <2>3, <3>3
    <3>4. ASSUME NEW c \in left, NEW d \in left, A = r(c), B = r(d)
          PROVE  A = B
      <4>1. PICK x \in A \cap B : TRUE
        BY <2>3
      <4>2. Part(x) = c /\ Part(x) = d
        BY <1>5, <3>4, <4>1
      <4> QED
        BY <3>4, <4>2
    <3> QED
      BY <1>7, <3>1, <3>2, <3>3, <3>4
  <2> QED
    BY <2>1, <2>2, <2>3 DEF IsPartition
<1>9. ASSUME NEW A \in P
      PROVE  \A u, v \in A : Part(u) # Part(v) => {u, v} \in S
  <2>1. CASE A \in Garlands(S)
    BY <1>2, <2>1
  <2>2. CASE \E c \in left : A = r(c)
    BY <1>5, <2>2
  <2> QED
    BY <1>7, <2>1, <2>2
<1>10. \A A \in P : A \in SUBSET V /\ Stable(Simple(g), A)
  <2>1. ASSUME NEW A \in P PROVE A \in SUBSET V /\ Stable(Simple(g), A)
    <3>1. A \in SUBSET V
      BY <1>8 DEF IsPartition
    <3>2. \A u, v \in A : Part(u) # Part(v) => {u, v} \in g.deleted
      BY <1>9
    <3> QED
      BY <3>1, <3>2, StableMeans DEF V
  <2> QED
    BY <2>1
<1>11. Cardinality(P) = Len(p) + 1
  <2>1. Len(p) \in Nat /\ DOMAIN p = 1..Len(p)
    BY <1>0
  <2>2. IsFiniteSet(DOMAIN p) /\ Cardinality(DOMAIN p) = Len(p)
    BY <2>1, FS_Interval
  <2>3. Destroyed(p, S) \in SUBSET (DOMAIN p)
    BY DEF Destroyed
  <2>4. IsFiniteSet(Destroyed(p, S)) /\ Cardinality(Destroyed(p, S)) \in Nat
    BY <2>2, <2>3, FS_Subset, FS_CardinalityType
  <2>5. DOMAIN p \cap Destroyed(p, S) = Destroyed(p, S)
    BY <2>3
  <2>6. /\ Cardinality(left) = Cardinality(DOMAIN p)
                                 - Cardinality(DOMAIN p \cap Destroyed(p, S))
        /\ IsFiniteSet(left)
    BY <2>2, FS_Difference DEF left
  <2> DEFINE k == [c \in left |-> r(c)]
             R == {r(c) : c \in left}
  <2>7. OneToOneOnto(k, left, R)
    <3>1. ASSUME NEW c \in left, NEW d \in left, r(c) = r(d) PROVE c = d
      BY <1>5, <3>1
    <3> QED
      BY <3>1 DEF OneToOneOnto
  <2>8. Garlands(S) \cap R = {}
    BY <1>4, <1>5
  <2> HIDE DEF k, R
  <2>9. IsFiniteSet(R) /\ Cardinality(R) = Cardinality(left)
    BY <2>6, <2>7, SameSize
  <2>10. IsFiniteSet(Garlands(S))
    <3>1. Garlands(S) \in SUBSET (SUBSET U)
      BY <1>4
    <3> QED
      BY <1>1, <3>1, FS_SUBSET, FS_Subset
  <2>11. Cardinality(P) = Cardinality(Garlands(S)) + Cardinality(R)
                             - Cardinality(Garlands(S) \cap R)
    BY <1>7, <2>9, <2>10, FS_Union DEF R
  <2>12. Cardinality(Garlands(S) \cap R) = 0
    BY <2>8, FS_EmptySet
  <2> HIDE DEF p
  <2>13. Cardinality(left) = Len(p) - Cardinality(Destroyed(p, S))
    BY <2>2, <2>5, <2>6
  <2>14. Cardinality(P) = Cardinality(Garlands(S)) + Cardinality(left) - 0
    BY <2>9, <2>11, <2>12
  <2> QED
    BY <1>2, <2>1, <2>4, <2>13, <2>14
<1>12. Inner(p, P) = S
  <2>1. ASSUME NEW e \in S PROVE e \in Inner(p, P)
    <3>1. e \in AllEdges(p) /\ e # {}
      BY <1>0
    <3>2. PICK C \in Garlands(S) : e \subseteq C
      BY <1>1, <3>1, EdgesAreInGarlands DEF U
    <3> QED
      BY <1>7, <3>1, <3>2 DEF Inner
  <2>2. ASSUME NEW e \in Inner(p, P) PROVE e \in S
    <3>1. PICK A \in P : \E u, v \in A : e = {u, v} /\ Part(u) # Part(v)
      BY <1>0, <1>8, InnerFacts DEF V
    <3> QED
      BY <1>9, <3>1
  <2> QED
    BY <2>1, <2>2
<1>13. P \in Into(g)
  <2>1. P \in SUBSET (SUBSET V)
    BY <1>10
  <2> QED
    BY <1>8, <1>10, <1>11, <2>1 DEF Into, IntoStable, V
<1> QED
  BY <1>12, <1>13 DEF P

LEMMA GarlandsArePartitions ==
  ASSUME NEW g, IsGraph(g), FewAreDeleted(g)
  PROVE  CountGarlands(g) =
           Cardinality({P \in Into(g) : Inner(g.parts, P) # {}})
<1> DEFINE p == g.parts
           A == {S \in SUBSET g.deleted : IsInterestingGarland(p, S)}
           B == {P \in Into(g) : Inner(p, P) # {}}
           h == [S \in A |-> Completed(p, S)]
<1>1. IsFiniteSet(A)
  <2>1. A \in SUBSET (SUBSET g.deleted)
    OBVIOUS
  <2>2. IsFiniteSet(g.deleted)
    BY GraphFacts
  <2>3. IsFiniteSet(SUBSET g.deleted)
    BY <2>2, FS_SUBSET
  <2> HIDE DEF A
  <2> QED
    BY <2>1, <2>3, FS_Subset
<1>2. ASSUME NEW S \in A
      PROVE  h[S] = Completed(p, S) /\ h[S] \in B /\ Inner(p, h[S]) = S
  <2>1. S \in SUBSET g.deleted /\ IsInterestingGarland(p, S)
    OBVIOUS
  <2>2. Completed(p, S) \in Into(g) /\ Inner(p, Completed(p, S)) = S
    BY <2>1, GarlandGivesPartition
  <2>3. S # {}
    BY <2>1 DEF IsInterestingGarland, IsGarland
  <2> QED
    BY <2>2, <2>3
<1>3. ASSUME NEW P \in B PROVE \E S \in A : h[S] = P
  <2>1. P \in Into(g) /\ Inner(p, P) # {}
    OBVIOUS
  <2> DEFINE S == Inner(p, P)
  <2>2. /\ S \in SUBSET g.deleted /\ IsInterestingGarland(p, S)
        /\ P = Completed(p, S)
    BY <2>1, PartitionGivesGarland
  <2>3. S \in A
    BY <2>2
  <2> HIDE DEF S
  <2> QED
    BY <2>2, <2>3
<1>4. CountGarlands(g) = Cardinality(A)
  BY DEF CountGarlands
<1> HIDE DEF A, B, h
<1>5. OneToOneOnto(h, A, B)
  <2>1. \A S, T \in A : h[S] = h[T] => S = T
    BY <1>2
  <2> QED
    BY <1>2, <1>3, <2>1 DEF OneToOneOnto
<1> QED
  BY <1>1, <1>4, <1>5, SameSize DEF B

-----------------------------------------------------------------------------
(* Partitions that use no deleted edge                                     *)

First(c) == <<c, 1>>
NotFirst(p, c) == VerticesOf(p, c) \ {First(c)}
\* Every part is a class, but part c is two of them.
Halved(p, c, Y) ==
    {VerticesOf(p, d) : d \in DOMAIN p \ {c}}
        \cup {Y \cup {First(c)}, NotFirst(p, c) \ Y}
Halves(p) == [c \in DOMAIN p |-> (SUBSET NotFirst(p, c)) \ {NotFirst(p, c)}]

LEMMA PartsAreNotEmpty ==
  ASSUME NEW p \in Seq(Nat \ {0})
  PROVE  /\ p \in Seq(Nat) /\ Len(p) \in Nat /\ DOMAIN p = 1..Len(p)
         /\ \A c \in DOMAIN p :
               /\ First(c) \in VerticesOf(p, c) /\ Part(First(c)) = c
               /\ VerticesOf(p, c) \subseteq Vertices(p)
               /\ \A x \in VerticesOf(p, c) : Part(x) = c
               /\ p[c] \in Nat \ {0}
         /\ \A x \in Vertices(p) : Part(x) \in DOMAIN p
                                   /\ x \in VerticesOf(p, Part(x))
<1>1. p \in Seq(Nat) /\ Len(p) \in Nat /\ DOMAIN p = 1..Len(p)
  OBVIOUS
<1>2. ASSUME NEW c \in DOMAIN p
      PROVE  /\ First(c) \in VerticesOf(p, c) /\ Part(First(c)) = c
             /\ VerticesOf(p, c) \subseteq Vertices(p)
             /\ \A x \in VerticesOf(p, c) : Part(x) = c
             /\ p[c] \in Nat \ {0}
  <2>1. p[c] \in Nat \ {0}
    OBVIOUS
  <2>2. 1 \in 1..p[c]
    BY <2>1
  <2> QED
    BY <2>1, <2>2 DEF First, VerticesOf, Vertices, Part
<1>3. \A x \in Vertices(p) : Part(x) \in DOMAIN p
                             /\ x \in VerticesOf(p, Part(x))
  BY DEF Vertices, VerticesOf, Part
<1> QED
  BY <1>1, <1>2, <1>3

LEMMA HalvedIsPartition ==
  ASSUME NEW g, IsGraph(g), NEW c \in DOMAIN g.parts,
         NEW Y \in Halves(g.parts)[c]
  PROVE  LET P == Halved(g.parts, c, Y) IN
         P \in Into(g) /\ Inner(g.parts, P) = {}
<1> DEFINE p == g.parts
           V == Vertices(p)
           of(d) == VerticesOf(p, d)
           A == Y \cup {First(c)}
           B == NotFirst(p, c) \ Y
           D == DOMAIN p \ {c}
           P == Halved(p, c, Y)
<1>0. p \in Seq(Nat \ {0})
  BY DEF IsGraph
<1>1. /\ p \in Seq(Nat) /\ Len(p) \in Nat /\ DOMAIN p = 1..Len(p)
      /\ \A d \in DOMAIN p : /\ of(d) # {} /\ of(d) \subseteq V
                             /\ \A x \in of(d) : Part(x) = d
      /\ \A x \in V : Part(x) \in DOMAIN p /\ x \in of(Part(x))
      /\ First(c) \in of(c)
  <2>1. /\ p \in Seq(Nat) /\ Len(p) \in Nat /\ DOMAIN p = 1..Len(p)
        /\ \A d \in DOMAIN p : /\ First(d) \in of(d) /\ of(d) \subseteq V
                               /\ \A x \in of(d) : Part(x) = d
        /\ \A x \in V : Part(x) \in DOMAIN p /\ x \in of(Part(x))
    <3> HIDE DEF p
    <3> QED
      BY <1>0, PartsAreNotEmpty
  <2>2. c \in DOMAIN p
    OBVIOUS
  <2> HIDE DEF p, of, V
  <2> QED
    BY <2>1, <2>2
<1>2. P = {of(d) : d \in D} \cup {A, B}
  BY DEF Halved
<1>3. /\ A \subseteq of(c) /\ B \subseteq of(c) /\ A \cup B = of(c)
      /\ A \cap B = {} /\ A # {} /\ B # {}
  BY <1>1 DEF Halves, NotFirst
<1> HIDE DEF of, A, B, P, V
<1>4. \A Q \in P : \E d \in DOMAIN p : Q \subseteq of(d) /\ Q # {}
  BY <1>1, <1>2, <1>3
<1>5. IsPartition(P, V)
  <2>1. UNION P = V
    <3>1. ASSUME NEW x \in V PROVE \E Q \in P : x \in Q
      <4>1. CASE Part(x) = c
        BY <1>1, <1>2, <1>3, <4>1
      <4>2. CASE Part(x) # c
        BY <1>1, <1>2, <4>2
      <4> QED
        BY <4>1, <4>2
    <3>2. \A Q \in P : Q \subseteq V
      BY <1>1, <1>4
    <3> QED
      BY <3>1, <3>2
  <2>2. ASSUME NEW Q \in P, NEW R \in P, Q \cap R # {} PROVE Q = R
    <3>1. PICK x \in Q \cap R : TRUE
      BY <2>2
    <3>2. \A d \in DOMAIN p : x \in of(d) => Part(x) = d
      BY <1>1
    <3>3. CASE Part(x) = c
      <4>1. \A d \in D : x \notin of(d)
        BY <3>2, <3>3
      <4>2. Q \in {A, B} /\ R \in {A, B}
        BY <1>2, <3>1, <4>1
      <4> QED
        BY <1>3, <3>1, <4>2
    <3>4. CASE Part(x) # c
      <4>1. x \notin A /\ x \notin B
        BY <1>3, <3>2, <3>4
      <4>2. \A T \in P : x \in T => T = of(Part(x))
        BY <1>2, <3>2, <4>1
      <4> QED
        BY <3>1, <4>2
    <3> QED
      BY <3>3, <3>4
  <2> QED
    BY <1>4, <2>1, <2>2 DEF IsPartition
<1>6. \A Q \in P : \A u, v \in Q : Part(u) = Part(v)
  BY <1>1, <1>4
<1>7. \A Q \in P : Q \in SUBSET V /\ Stable(Simple(g), Q)
  <2>1. ASSUME NEW Q \in P PROVE Q \in SUBSET V /\ Stable(Simple(g), Q)
    <3>1. Q \in SUBSET V
      BY <1>5 DEF IsPartition
    <3> QED
      BY <1>6, <3>1, StableMeans DEF V
  <2> QED
    BY <2>1
<1>8. Inner(p, P) = {}
  BY <1>1, <1>5, <1>6, InnerFacts DEF V
<1>9. Cardinality(P) = Len(p) + 1
  <2> DEFINE k == [d \in DOMAIN p |-> IF d = c THEN A ELSE of(d)]
             K == {of(d) : d \in D} \cup {A}
  <2>1. ASSUME NEW d \in DOMAIN p
        PROVE  k[d] \in K /\ k[d] # {} /\ k[d] \subseteq of(d)
    BY <1>1, <1>3
  <2>2. ASSUME NEW d \in DOMAIN p, NEW e \in DOMAIN p, k[d] = k[e]
        PROVE  d = e
    <3> HIDE DEF k
    <3>1. PICK x \in k[d] : TRUE
      BY <2>1
    <3>2. Part(x) = d /\ Part(x) = e
      BY <1>1, <2>1, <2>2, <3>1
    <3> QED
      BY <3>2
  <2>3. ASSUME NEW Q \in K PROVE \E d \in DOMAIN p : k[d] = Q
    BY <1>1
  <2>4. B \notin K
    <3>1. \A d \in D : B # of(d)
      BY <1>1, <1>3
    <3> QED
      BY <1>3, <3>1
  <2>5. P = K \cup {B}
    BY <1>2
  <2> HIDE DEF k, K, p
  <2>6. OneToOneOnto(k, DOMAIN p, K)
    BY <2>1, <2>2, <2>3 DEF OneToOneOnto
  <2>7. IsFiniteSet(DOMAIN p) /\ Cardinality(DOMAIN p) = Len(p)
    BY <1>1, FS_Interval
  <2>8. IsFiniteSet(K) /\ Cardinality(K) = Len(p)
    BY <2>6, <2>7, SameSize
  <2> QED
    BY <2>4, <2>5, <2>8, FS_AddElement
<1>10. P \in Into(g)
  <2>1. P \in SUBSET (SUBSET V)
    BY <1>7
  <2> QED
    BY <1>5, <1>7, <1>9, <2>1 DEF Into, IntoStable, V
<1> QED
  BY <1>8, <1>10 DEF P

LEMMA HalvedIsOneToOne ==
  ASSUME NEW p \in Seq(Nat \ {0}),
         NEW c \in DOMAIN p, NEW d \in DOMAIN p,
         NEW Y \in Halves(p)[c], NEW Z \in Halves(p)[d],
         Halved(p, c, Y) = Halved(p, d, Z)
  PROVE  c = d /\ Y = Z
<1>1. \A e \in DOMAIN p : /\ First(e) \in VerticesOf(p, e)
                          /\ \A x \in VerticesOf(p, e) : Part(x) = e
  BY PartsAreNotEmpty
<1>2. /\ Y \subseteq NotFirst(p, c) /\ NotFirst(p, c) \ Y # {}
      /\ Z \subseteq NotFirst(p, d)
  BY DEF Halves
<1>3. /\ \A x \in NotFirst(p, c) : Part(x) = c /\ x # First(c)
      /\ \A x \in NotFirst(p, d) : Part(x) = d /\ x # First(d)
      /\ Part(First(c)) = c /\ Part(First(d)) = d
  BY <1>1 DEF NotFirst
<1>4. ASSUME c # d PROVE FALSE
  <2> DEFINE B == NotFirst(p, c) \ Y
  <2>1. B \in Halved(p, d, Z)
    BY DEF Halved
  <2>2. PICK x \in B : TRUE
    BY <1>2
  <2>3. Part(x) = c /\ First(c) \notin B
    BY <1>3
  <2> HIDE DEF B
  <2>4. \A e \in DOMAIN p : B # VerticesOf(p, e)
    BY <1>1, <2>2, <2>3
  <2>5. B # Z \cup {First(d)} /\ B # NotFirst(p, d) \ Z
    BY <1>2, <1>3, <1>4, <2>2, <2>3
  <2> QED
    BY <2>1, <2>4, <2>5 DEF Halved
<1>5. ASSUME c = d PROVE Y = Z
  <2> DEFINE A == Y \cup {First(c)}
  <2>1. A \in Halved(p, c, Z)
    BY <1>5 DEF Halved
  <2>2. First(c) \in A
    OBVIOUS
  <2>3. Y = A \ {First(c)} /\ Z = (Z \cup {First(c)}) \ {First(c)}
    BY <1>2, <1>3, <1>5
  <2> HIDE DEF A
  <2>4. \A e \in DOMAIN p \ {c} : A # VerticesOf(p, e)
    BY <1>1, <1>3, <2>2
  <2>5. A # NotFirst(p, c) \ Z
    BY <1>3, <2>2
  <2>6. A = Z \cup {First(c)}
    BY <2>1, <2>4, <2>5 DEF Halved
  <2> QED
    BY <2>3, <2>6
<1> QED
  BY <1>4, <1>5

LEMMA NothingDestroyed ==
  ASSUME NEW p \in Seq(Nat \ {0})
  PROVE  /\ DOMAIN p \ Destroyed(p, {}) = DOMAIN p
         /\ Rest(p, {}) = {VerticesOf(p, c) : c \in DOMAIN p}
<1>1. \A c \in DOMAIN p : VerticesOf(p, c) # {}
  BY PartsAreNotEmpty
<1>2. UNION {} = {}
  OBVIOUS
<1>3. Destroyed(p, {}) = {}
  BY <1>1 DEF Destroyed
<1>4. \A c : VerticesOf(p, c) \ UNION {} = VerticesOf(p, c)
  BY <1>2
<1> QED
  BY <1>3, <1>4 DEF Rest

\* The positions of a sequence are as many as its length.
LEMMA DomainsAreCounted ==
  ASSUME NEW p \in Seq(Nat \ {0})
  PROVE  IsFiniteSet(DOMAIN p) /\ Cardinality(DOMAIN p) = Len(p) /\ Len(p) \in Nat
<1>1. Len(p) \in Nat /\ DOMAIN p = 1..Len(p)
  OBVIOUS
<1> DEFINE n == Len(p)
<1>2. n \in Nat /\ 1 \in Int /\ n \in Int
  BY <1>1
<1> HIDE DEF n
<1>3. IsFiniteSet(1..n) /\ Cardinality(1..n) = IF 1 > n THEN 0 ELSE n - 1 + 1
  BY <1>2, FS_Interval
<1>4. Cardinality(1..n) = n
  BY <1>2, <1>3
<1> QED
  BY <1>1, <1>3, <1>4 DEF n

\* A partition into one set too many, all of them within parts, halves a part.
LEMMA PartitionIsHalved ==
  ASSUME NEW g, IsGraph(g), NEW P \in Into(g), Inner(g.parts, P) = {}
  PROVE  \E c \in DOMAIN g.parts : \E Y \in Halves(g.parts)[c] :
            P = Halved(g.parts, c, Y)
<1> DEFINE p == g.parts
           V == Vertices(p)
           f == [A \in P |-> PartOf(A)]
           of(d) == VerticesOf(p, d)
<1>0. p \in Seq(Nat \ {0})
  BY DEF IsGraph
<1>1. /\ p \in Seq(Nat) /\ Len(p) \in Nat /\ DOMAIN p = 1..Len(p)
      /\ \A d \in DOMAIN p : /\ First(d) \in of(d) /\ of(d) \subseteq V
                             /\ \A x \in of(d) : Part(x) = d
      /\ \A x \in V : Part(x) \in DOMAIN p /\ x \in of(Part(x))
  <2> HIDE DEF p
  <2> QED
    BY <1>0, PartsAreNotEmpty
<1>2. /\ IsPartition(P, V) /\ Cardinality(P) = Len(p) + 1
  BY DEF Into, IntoStable
<1>3. /\ UNION P = V /\ {} \notin P
      /\ \A A, B \in P : A # B => A \cap B = {}
  BY <1>2 DEF IsPartition
<1>4. \A A \in P : SamePart(A)
  <2>1. \A A \in P : \A u, v \in A : Part(u) # Part(v) =>
           {u, v} \in Inner(p, P)
    BY <1>1, <1>2, InnerFacts
  <2> QED
    BY <2>1 DEF SamePart
<1>5. \A A \in P : /\ A # {} /\ A \subseteq of(f[A]) /\ f[A] \in DOMAIN p
                   /\ \A x \in A : Part(x) = f[A]
  <2>1. ASSUME NEW A \in P PROVE \A x \in A : f[A] = Part(x)
    BY <1>4, PartOfIs
  <2>2. \A A \in P : A # {} /\ A \subseteq V
    BY <1>3
  <2> HIDE DEF f, of, V, p
  <2> QED
    BY <1>1, <2>1, <2>2
<1> HIDE DEF f, of, V
<1>6. \A c \in DOMAIN p : \A x \in of(c) : \E A \in P : x \in A /\ f[A] = c
  BY <1>1, <1>3, <1>5
<1>7. IsFiniteSet(P)
  BY <1>2, GraphFacts, PartitionsAreFinite DEF V
<1>8. IsFiniteSet(DOMAIN p) /\ Cardinality(DOMAIN p) = Len(p)
  <2>1. p \in Seq(Nat \ {0})
    BY DEF IsGraph
  <2> HIDE DEF p
  <2> QED
    BY <2>1, DomainsAreCounted
<1> DEFINE onto(Q) == \A c \in DOMAIN p : \E A \in Q : f[A] = c
           inj(Q) == \A A, B \in Q : f[A] = f[B] => A = B
<1>9. ASSUME NEW Q \in SUBSET P, onto(Q)
      PROVE  Cardinality(Q) = Len(p) <=> inj(Q)
  <2> DEFINE k == [A \in Q |-> f[A]]
  <2>1. k \in Surjection(Q, DOMAIN p)
    <3>1. k \in [Q -> DOMAIN p]
      BY <1>5
    <3>2. \A c \in DOMAIN p : \E A \in Q : k[A] = c
      BY <1>9
    <3> HIDE DEF k, p
    <3> QED
      BY <3>1, <3>2 DEF Surjection
  <2>2. k \in Injection(Q, DOMAIN p) <=> inj(Q)
    BY <2>1 DEF Surjection, Injection, IsInjective
  <2> HIDE DEF k, p, inj
  <2>3. IsFiniteSet(Q)
    BY <1>7, FS_Subset
  <2>4. Cardinality(DOMAIN p) = Cardinality(Q) <=> k \in Injection(Q, DOMAIN p)
    BY <2>1, <2>3, FS_Surjection
  <2> QED
    BY <1>8, <2>2, <2>4
<1>10. onto(P)
  BY <1>1, <1>6
<1>11. PICK S, T \in P : f[S] = f[T] /\ S # T
  <2>1. Cardinality(P) # Len(p)
    <3>1. Len(p) \in Nat
      BY <1>1
    <3>2. Cardinality(P) = Len(p) + 1
      BY <1>2
    <3> HIDE DEF p, onto, inj
    <3> QED
      BY <3>1, <3>2
  <2>2. ~inj(P)
    BY <1>9, <1>10, <2>1
  <2> QED
    BY <2>2
<1> DEFINE c == f[S]
<1>12. c \in DOMAIN p
  BY <1>5
\* A and B are the two classes in part c, A with the first vertex.
<1>13. PICK A, B \in P : f[A] = c /\ f[B] = c /\ A # B /\ First(c) \in A
  <2>1. PICK A \in P : First(c) \in A /\ f[A] = c
    BY <1>1, <1>6, <1>12
  <2>2. CASE A # S
    BY <2>1, <2>2
  <2>3. CASE A = S
    BY <1>11, <2>1, <2>3
  <2> QED
    BY <2>2, <2>3
<1> HIDE DEF c
<1> DEFINE Q == P \ {B}
<1>14. inj(Q)
  <2>1. onto(Q)
    <3>1. ASSUME NEW d \in DOMAIN p PROVE \E R \in Q : f[R] = d
      <4>1. PICK R \in P : f[R] = d
        BY <1>10
      <4> QED
        BY <1>13, <4>1
    <3> QED
      BY <3>1
  <2>2. Cardinality(Q) = Cardinality(P) - 1
    BY <1>7, FS_RemoveElement
  <2>3. Cardinality(Q) = Len(p)
    <3> HIDE DEF p, Q
    <3> QED
      BY <1>1, <1>2, <2>2
  <2>4. Q \in SUBSET P
    OBVIOUS
  <2> HIDE DEF Q, onto, inj
  <2> QED
    BY <1>9, <2>1, <2>3, <2>4
<1>15. \A R \in P : f[R] = c => R = A \/ R = B
  BY <1>13, <1>14
<1>16. \A d \in DOMAIN p \ {c} : \A R \in P : f[R] = d => R = of(d)
  <2>1. ASSUME NEW d \in DOMAIN p \ {c}, NEW R \in P, f[R] = d PROVE R = of(d)
    <3>1. R \subseteq of(d)
      BY <1>5, <2>1
    <3>2. ASSUME NEW x \in of(d) PROVE x \in R
      <4>1. PICK U \in P : x \in U /\ f[U] = d
        BY <1>6
      <4>2. U = R
        BY <1>13, <1>14, <2>1, <4>1
      <4> QED
        BY <4>1, <4>2
    <3> QED
      BY <3>1, <3>2
  <2> QED
    BY <2>1
<1>17. A \cup B = of(c) /\ A \cap B = {} /\ B # {}
  <2>1. A \subseteq of(c) /\ B \subseteq of(c) /\ A \cap B = {} /\ B # {}
    BY <1>3, <1>5, <1>13
  <2>2. \A x \in of(c) : x \in A \/ x \in B
    BY <1>6, <1>12, <1>15
  <2> QED
    BY <2>1, <2>2
<1> DEFINE Y == A \ {First(c)}
<1>18. /\ Y \in Halves(p)[c] /\ A = Y \cup {First(c)} /\ B = NotFirst(p, c) \ Y
  <2>1. A = Y \cup {First(c)}
    BY <1>13
  <2>2. First(c) \notin B
    BY <1>13, <1>17
  <2>3. NotFirst(p, c) = (A \cup B) \ {First(c)}
    BY <1>17 DEF NotFirst, of
  <2>4. B = NotFirst(p, c) \ Y
    BY <1>13, <1>17, <2>2, <2>3
  <2>5. Y \subseteq NotFirst(p, c) /\ Y # NotFirst(p, c)
    BY <1>17, <2>3, <2>4
  <2> HIDE DEF Y
  <2> QED
    BY <1>12, <2>1, <2>4, <2>5 DEF Halves
<1>19. P = Halved(p, c, Y)
  <2>1. ASSUME NEW R \in P PROVE R \in Halved(p, c, Y)
    <3>1. CASE f[R] = c
      BY <1>15, <1>18, <3>1 DEF Halved
    <3>2. CASE f[R] # c
      <4>1. f[R] \in DOMAIN p \ {c}
        BY <1>5, <3>2
      <4>2. R = of(f[R])
        BY <1>16, <4>1
      <4> QED
        BY <4>1, <4>2 DEF Halved, of
    <3> QED
      BY <3>1, <3>2
  <2>2. ASSUME NEW d \in DOMAIN p \ {c} PROVE of(d) \in P
    BY <1>10, <1>16
  <2>3. Y \cup {First(c)} \in P /\ NotFirst(p, c) \ Y \in P
    BY <1>13, <1>18
  <2>4. \A d : of(d) = VerticesOf(p, d)
    BY DEF of
  <2> HIDE DEF Y, p
  <2>5. ASSUME NEW R \in Halved(p, c, Y) PROVE R \in P
    BY <2>2, <2>3, <2>4 DEF Halved
  <2> QED
    BY <2>1, <2>5
<1> QED
  BY <1>12, <1>18, <1>19

LEMMA HalvesAreCounted ==
  ASSUME NEW p \in Seq(Nat \ {0}), NEW c \in DOMAIN p
  PROVE  /\ IsFiniteSet(Halves(p)[c]) /\ 2^(p[c] - 1) \in Int
         /\ Cardinality(Halves(p)[c]) = 2^(p[c] - 1) - 1
<1> DEFINE N == NotFirst(p, c)
           W == SUBSET N
<1>1. /\ IsFiniteSet(VerticesOf(p, c)) /\ Cardinality(VerticesOf(p, c)) = p[c]
      /\ First(c) \in VerticesOf(p, c)
  BY PartSize, PartsAreNotEmpty
<1>2. IsFiniteSet(N) /\ Cardinality(N) = p[c] - 1
  BY <1>1, FS_RemoveElement DEF NotFirst
<1> HIDE DEF N
<1>3. IsFiniteSet(W) /\ Cardinality(W) = 2^Cardinality(N)
  BY <1>2, FS_SUBSET
<1>4. Cardinality(W) = 2^(p[c] - 1)
  BY <1>2, <1>3
<1>5. N \in W
  OBVIOUS
<1> HIDE DEF W
<1>6. /\ IsFiniteSet(W \ {N}) /\ Cardinality(W \ {N}) = Cardinality(W) - 1
      /\ Cardinality(W) \in Nat
  BY <1>3, <1>5, FS_RemoveElement, FS_CardinalityType
<1>7. Halves(p)[c] = W \ {N}
  BY DEF Halves, W, N
<1> QED
  BY <1>4, <1>6, <1>7

LEMMA HalvedArePartitions ==
  ASSUME NEW g, IsGraph(g)
  PROVE  /\ CompletePt(g.parts) = Cardinality({P \in Into(g) : Inner(g.parts, P) = {}})
         /\ CompletePt(g.parts) \in Int
<1> DEFINE p == g.parts
           A == Tagged(DOMAIN p, Halves(p))
           B == {P \in Into(g) : Inner(p, P) = {}}
           h == [t \in A |-> Halved(p, t[1], t[2])]
           one == [c \in DOMAIN p |-> 1]
           power == [c \in DOMAIN p |-> 2^(p[c] - 1)]
           half == [c \in DOMAIN p |-> Cardinality(Halves(p)[c])]
<1>0. p \in Seq(Nat \ {0})
  BY DEF IsGraph
<1>1. IsFiniteSet(DOMAIN p) /\ Cardinality(DOMAIN p) = Len(p) /\ Len(p) \in Nat
  BY <1>0, DomainsAreCounted
<1>2. \A c \in DOMAIN p :
         /\ IsFiniteSet(Halves(p)[c]) /\ power[c] \in Int
         /\ half[c] = power[c] + (-1) * one[c]
  <2>1. \A c \in DOMAIN p :
           /\ IsFiniteSet(Halves(p)[c]) /\ 2^(p[c] - 1) \in Int
           /\ Cardinality(Halves(p)[c]) = 2^(p[c] - 1) - 1
    BY <1>0, HalvesAreCounted
  <2>2. \A c \in DOMAIN p : /\ one[c] = 1 /\ power[c] = 2^(p[c] - 1)
                            /\ half[c] = Cardinality(Halves(p)[c])
    OBVIOUS
  <2> HIDE DEF one, power, half
  <2>3. \A c \in DOMAIN p : power[c] \in Int /\ half[c] = power[c] - 1
    BY <2>1, <2>2
  <2> QED
    BY <2>1, <2>2, <2>3
<1>3. /\ IsFiniteSet(A) /\ SumFunctionOnSet(half, DOMAIN p) = Cardinality(A)
  <2>1. \A c \in DOMAIN p : IsFiniteSet(Halves(p)[c])
    BY <1>2
  <2>2. \A c \in DOMAIN p : half[c] = Cardinality(Halves(p)[c])
    OBVIOUS
  <2> HIDE DEF half, p
  <2> QED
    BY <1>1, <2>1, <2>2, CountTagged
<1>4. Cardinality(A) = CompletePt(p) /\ CompletePt(p) \in Int
  <2>1. SumFunctionOnSet(one, DOMAIN p) = 1 * Cardinality(DOMAIN p)
    <3>1. \A c \in DOMAIN p : one[c] = 1
      OBVIOUS
    <3> HIDE DEF one, p
    <3> QED
      BY <1>1, <3>1, SumOfConstant
  <2>2. IsSummable(one, DOMAIN p) /\ IsSummable(power, DOMAIN p)
    <3>1. \A c \in DOMAIN p : one[c] \in Int
      OBVIOUS
    <3>2. \A c \in DOMAIN p : power[c] \in Int
      BY <1>2
    <3> HIDE DEF one, power, p
    <3> QED
      BY <1>1, <3>1, <3>2 DEF IsSummable
  <2>3. CompletePt(p) = SumFunctionOnSet(power, DOMAIN p) - Len(p)
    BY DEF CompletePt, SumFunction
  <2>4. \A c \in DOMAIN p : half[c] = power[c] + (-1) * one[c]
    BY <1>2
  <2> HIDE DEF one, power, half, p, A
  <2>5. SumFunctionOnSet(half, DOMAIN p)
          = SumFunctionOnSet(power, DOMAIN p)
              + (-1) * SumFunctionOnSet(one, DOMAIN p)
    BY <2>2, <2>4, SumLinear
  <2>6. SumFunctionOnSet(power, DOMAIN p) \in Int
    BY <2>2, SumIsInt
  <2> QED
    BY <1>1, <1>3, <2>1, <2>3, <2>5, <2>6
<1>5. ASSUME NEW t \in A
      PROVE  /\ t = <<t[1], t[2]>> /\ t[1] \in DOMAIN p
             /\ t[2] \in Halves(p)[t[1]] /\ h[t] = Halved(p, t[1], t[2])
  BY TaggedPairs
<1>6. ASSUME NEW t \in A PROVE h[t] \in B
  <2> HIDE DEF h, A
  <2> QED
    BY <1>5, HalvedIsPartition
<1>7. ASSUME NEW s \in A, NEW t \in A, h[s] = h[t] PROVE s = t
  <2> HIDE DEF h, A, p
  <2>1. s[1] = t[1] /\ s[2] = t[2]
    BY <1>0, <1>5, <1>7, HalvedIsOneToOne
  <2>2. s = <<s[1], s[2]>> /\ t = <<t[1], t[2]>>
    BY <1>5
  <2> QED
    BY <2>1, <2>2
<1>8. ASSUME NEW P \in B PROVE \E t \in A : h[t] = P
  <2>1. PICK c \in DOMAIN p : \E Y \in Halves(p)[c] : P = Halved(p, c, Y)
    BY PartitionIsHalved
  <2>2. PICK Y \in Halves(p)[c] : P = Halved(p, c, Y)
    BY <2>1
  <2>3. <<c, Y>> \in A
    BY TaggedPairs
  <2>4. h[<<c, Y>>] = Halved(p, c, Y)
    BY <2>3
  <2> HIDE DEF h, A
  <2> QED
    BY <2>2, <2>3, <2>4
<1> HIDE DEF h, A, B
<1>9. OneToOneOnto(h, A, B)
  BY <1>6, <1>7, <1>8 DEF OneToOneOnto
<1> QED
  BY <1>3, <1>4, <1>9, SameSize DEF B

LEMMA PtCountsPartitions ==
  ASSUME NEW g, IsGraph(g), FewAreDeleted(g)
  PROVE  PtInvariant(g) =
           Cardinality(StablePartitions(Simple(g), Len(g.parts) + 1))
<1> DEFINE A == {P \in Into(g) : Inner(g.parts, P) = {}}
           B == {P \in Into(g) : Inner(g.parts, P) # {}}
<1>1. IsFiniteSet(A) /\ IsFiniteSet(B) /\ IsFiniteSet(Into(g))
  <2>1. Into(g) \in SUBSET (SUBSET (SUBSET Vertices(g.parts)))
    BY DEF Into, IntoStable
  <2>2. IsFiniteSet(Into(g))
    <3>1. IsFiniteSet(Vertices(g.parts))
      BY GraphFacts
    <3>2. IsFiniteSet(SUBSET Vertices(g.parts))
      BY <3>1, FS_SUBSET
    <3>3. IsFiniteSet(SUBSET (SUBSET Vertices(g.parts)))
      BY <3>2, FS_SUBSET
    <3> QED
      BY <2>1, <3>3, FS_Subset
  <2>3. A \in SUBSET Into(g) /\ B \in SUBSET Into(g)
    OBVIOUS
  <2> HIDE DEF A, B
  <2> QED
    BY <2>2, <2>3, FS_Subset
<1>2. Into(g) = A \cup B /\ A \cap B = {}
  OBVIOUS
<1>3. PtInvariant(g) = Cardinality(A) + Cardinality(B)
  BY HalvedArePartitions, GarlandsArePartitions DEF PtInvariant
<1>4. StablePartitions(Simple(g), Len(g.parts) + 1) = Into(g)
  <2>1. Simple(g).node = Vertices(g.parts)
    BY DEF Simple
  <2> QED
    BY <2>1, GraphFacts, StablePartitionsAre DEF Into
<1> HIDE DEF A, B
<1>5. Cardinality(Into(g)) = Cardinality(A) + Cardinality(B)
                               - Cardinality(A \cap B)
  BY <1>1, <1>2, FS_Union
<1>6. Cardinality(A \cap B) = 0
  BY <1>2, FS_EmptySet
<1>7. Cardinality(A) \in Nat /\ Cardinality(B) \in Nat
  BY <1>1, FS_CardinalityType
<1> QED
  BY <1>3, <1>4, <1>5, <1>6, <1>7

-----------------------------------------------------------------------------
(* Theorems                                                                *)

LEMMA SwappedIsTwin ==
  ASSUME GraphIInv, GraphIInv', SwapVerticesInplace
  PROVE  \E f : IsTwin(f, graph, graph')
<1> DEFINE p == graph.parts
           D == graph.deleted
           V == Vertices(p)
<1>1. PICK c \in DOMAIN p : \E u, v \in VerticesOf(p, c) :
         graph' = [graph EXCEPT !.deleted = SwapVerticesInSet(@, u, v)]
  BY DEF SwapVerticesInplace
<1>2. PICK u, v \in VerticesOf(p, c) :
         graph' = [graph EXCEPT !.deleted = SwapVerticesInSet(@, u, v)]
  BY <1>1
<1> DEFINE f == Exchange(V, u, v)
<1>3. graph' = [parts |-> p, deleted |-> SwapVerticesInSet(D, u, v)]
  BY <1>2 DEF GraphIInv
<1>4. graph'.parts = p /\ graph'.deleted = SwapVerticesInSet(D, u, v)
  BY <1>3
<1>5. IsGraph(graph) /\ IsGraph(graph')
  BY DEF GraphIInv, TypeOK, IsGraph
<1>6. D \in SUBSET (SUBSET V)
  <2>1. \A e \in D : e \in SUBSET V
    BY <1>5, GraphFacts
  <2> QED
    BY <2>1
<1>7. graph'.deleted = RenamesAll(f, D)
  BY <1>4, <1>6, SwapIsExchange
<1>8. \A x \in V : f[x] \in V /\ f[f[x]] = x /\ Part(f[x]) = Part(x)
  <2>1. u \in V /\ v \in V /\ Part(u) = c /\ Part(v) = c
    BY DEF Vertices, VerticesOf, Part
  <2>2. \A x \in V : f[x] = IF x = u THEN v ELSE IF x = v THEN u ELSE x
    BY DEF Exchange
  <2> HIDE DEF f, V
  <2> QED
    BY <2>1, <2>2
<1> HIDE DEF f
<1>9. ASSUME NEW x \in V, NEW y \in V
      PROVE  {x, y} \in D <=> {f[x], f[y]} \in graph'.deleted
  <2>1. OneToOne(f, V)
    BY <1>8 DEF OneToOne
  <2>2. Renames(f, {x, y}) \in RenamesAll(f, D) <=> {x, y} \in D
    BY <1>6, <2>1, RenamesOneToOne
  <2> QED
    BY <1>7, <2>2, RenamesPair
<1>10. IsTwin(f, graph, graph')
  BY <1>4, <1>5, <1>8, <1>9 DEF IsTwin
<1> QED
  BY <1>10

\* In every graph that is reached, I2 and I3 are the numbers of its edges and
\* of its triangles.
THEOREM EdgesAndTrianglesAreCounted == Spec => []I2AndI3Count
<1>1. Spec => []TypeOK
  BY GraphsStayGraphs
<1>2. TypeOK => I2AndI3Count
  BY I2CountsEdges, I3CountsTriangles DEF TypeOK, IsGraph, I2AndI3Count
<1> QED
  BY <1>1, <1>2, PTL

\* In every graph that is reached, I4 is the number of its induced cycles of
\* length four that meet two or three parts.
THEOREM FourCyclesAreCounted == Spec => []I4Counts
<1>1. Spec => []TypeOK
  BY GraphsStayGraphs
<1>2. TypeOK => I4Counts
  BY I4CountsCycles, I4OfCompleteGraph DEF TypeOK, IsGraph, I4Counts
<1> QED
  BY <1>1, <1>2, PTL

\* SwapVerticesInplace changes neither I3 nor I4 nor Pt.
THEOREM SwapsChangeNothing == Spec => SwapChangesNoInvariant
<1>1. Spec => []GraphIInv
  BY InitGraphIInv, NextGraphIInv, PTL DEF Spec
<1>2. GraphIInv /\ GraphIInv' /\ SwapVerticesInplace =>
         /\ I3Invariant(graph)' = I3Invariant(graph)
         /\ I4Invariant(graph)' = I4Invariant(graph)
         /\ PtInvariant(graph)' = PtInvariant(graph)
  <2> SUFFICES ASSUME GraphIInv, GraphIInv', SwapVerticesInplace
               PROVE  /\ I3Invariant(graph)' = I3Invariant(graph)
                      /\ I4Invariant(graph)' = I4Invariant(graph)
                      /\ PtInvariant(graph)' = PtInvariant(graph)
    OBVIOUS
  <2>1. PICK f : IsTwin(f, graph, graph')
    BY SwappedIsTwin
  <2> QED
    BY <2>1, TwinsHaveTheSameCounts, TwinsHaveTheSamePt
<1> QED
  BY <1>1, <1>2, PTL DEF Spec, SwapChangesNoInvariant

\* In every graph that is reached whose garlands destroy fewer parts than they
\* replace, Pt is the number of partitions into one more stable set than there
\* are parts.
THEOREM PartitionsAreCounted == Spec => []PtCounts
<1>1. Spec => []TypeOK
  BY GraphsStayGraphs
<1>2. TypeOK => PtCounts
  BY PtCountsPartitions DEF TypeOK, IsGraph, PtCounts, FewAreDeleted
<1> QED
  BY <1>1, <1>2, PTL

-----------------------------------------------------------------------------
(* Acyclic orientations                                                    *)

\* An orientation has no cycle iff every set of vertices has a sink.
Joined(G, x, y) == x # y /\ Adjacent(G, x, y)
Orients(O, G, W) ==
    /\ O \in SUBSET (W \X W)
    /\ \A x, y \in W : (<<x, y>> \in O \/ <<y, x>> \in O) <=> Joined(G, x, y)
IsSink(O, U, x) == \A y \in U : <<x, y>> \notin O
HasSinks(O, W) == \A U \in SUBSET W : U # {} => \E x \in U : IsSink(O, U, x)
Acyclic(G, W) == {O \in SUBSET (W \X W) : Orients(O, G, W) /\ HasSinks(O, W)}

LEMMA JoinedIsMutual ==
  ASSUME NEW G, NEW x, NEW y
  PROVE  Joined(G, x, y) <=> Joined(G, y, x)
<1>1. {x, y} = {y, x}
  OBVIOUS
<1> QED
  BY <1>1 DEF Joined, Adjacent

LEMMA OneWayOnly ==
  ASSUME NEW O, NEW W, HasSinks(O, W), NEW x \in W, NEW y \in W,
         <<x, y>> \in O
  PROVE  <<y, x>> \notin O /\ x # y
<1>1. {x, y} \in SUBSET W /\ {x, y} # {}
  OBVIOUS
<1>2. PICK z \in {x, y} : IsSink(O, {x, y}, z)
  BY <1>1 DEF HasSinks
<1> QED
  BY <1>2 DEF IsSink

IntoSink(G, W, v) == {a \in (W \ {v}) \X {v} : Adjacent(G, a[1], v)}

\* One vertex is a sink, and what is left has no cycle.
LEMMA AcyclicWithSink ==
  ASSUME NEW G, NEW W, W # {}
  PROVE  Acyclic(G, W) = UNION {{O \cup IntoSink(G, W, v) :
                                    O \in Acyclic(G, W \ {v})} : v \in W}
<1>1. ASSUME NEW O \in Acyclic(G, W)
      PROVE  \E v \in W : \E R \in Acyclic(G, W \ {v}) :
                O = R \cup IntoSink(G, W, v)
  <2>1. /\ O \in SUBSET (W \X W) /\ HasSinks(O, W)
        /\ \A x, y \in W :
              (<<x, y>> \in O \/ <<y, x>> \in O) <=> Joined(G, x, y)
    BY DEF Acyclic, Orients
  <2>2. PICK v \in W : IsSink(O, W, v)
    BY <2>1 DEF HasSinks
  <2> DEFINE U == W \ {v}
             R == O \cap (U \X U)
  <2>3. Orients(R, G, U)
    BY <2>1 DEF Orients
  <2>4. HasSinks(R, U)
    BY <2>1 DEF HasSinks, IsSink
  <2>5. ASSUME NEW a \in O PROVE a \in R \cup IntoSink(G, W, v)
    <3>1. PICK x \in W, y \in W : a = <<x, y>>
      BY <2>1
    <3>2. x # v
      BY <2>2, <3>1 DEF IsSink
    <3>3. Joined(G, x, y)
      BY <2>1, <3>1
    <3> QED
      BY <3>1, <3>2, <3>3 DEF IntoSink, Joined
  <2>6. ASSUME NEW a \in IntoSink(G, W, v) PROVE a \in O
    <3>1. PICK x \in U : a = <<x, v>>
      BY DEF IntoSink
    <3>2. Joined(G, x, v)
      BY <3>1 DEF IntoSink, Joined
    <3>3. <<v, x>> \notin O
      BY <2>2 DEF IsSink
    <3> QED
      BY <2>1, <3>1, <3>2, <3>3
  <2>7. O = R \cup IntoSink(G, W, v)
    BY <2>5, <2>6
  <2>8. R \in Acyclic(G, U)
    BY <2>3, <2>4 DEF Acyclic
  <2> QED
    BY <2>7, <2>8
<1>2. ASSUME NEW v \in W, NEW R \in Acyclic(G, W \ {v})
      PROVE  R \cup IntoSink(G, W, v) \in Acyclic(G, W)
  <2> DEFINE U == W \ {v}
             O == R \cup IntoSink(G, W, v)
  <2>1. /\ R \in SUBSET (U \X U) /\ HasSinks(R, U)
        /\ \A x, y \in U :
              (<<x, y>> \in R \/ <<y, x>> \in R) <=> Joined(G, x, y)
    BY DEF Acyclic, Orients
  <2>2. O \in SUBSET (W \X W)
    BY <2>1 DEF IntoSink
  <2>3. /\ \A x, y \in U : <<x, y>> \in O <=> <<x, y>> \in R
        /\ \A x \in U : <<x, v>> \in O <=> Adjacent(G, x, v)
        /\ \A x \in W : <<v, x>> \notin O
    BY <2>1 DEF IntoSink
  <2>4. \A x \in U : Joined(G, x, v) <=> Adjacent(G, x, v)
    BY DEF Joined
  <2>5. ~Joined(G, v, v)
    BY DEF Joined
  <2> HIDE DEF O
  <2>6. Orients(O, G, W)
    <3> SUFFICES ASSUME NEW x \in W, NEW y \in W
                 PROVE  (<<x, y>> \in O \/ <<y, x>> \in O) <=> Joined(G, x, y)
      BY <2>2 DEF Orients
    <3>1. CASE x = v /\ y = v
      BY <2>3, <2>5, <3>1
    <3>2. CASE x = v /\ y \in U
      BY <2>3, <2>4, <3>2, JoinedIsMutual
    <3>3. CASE x \in U /\ y = v
      BY <2>3, <2>4, <3>3
    <3>4. CASE x \in U /\ y \in U
      BY <2>1, <2>3, <3>4
    <3> QED
      BY <3>1, <3>2, <3>3, <3>4
  <2>7. HasSinks(O, W)
    <3> SUFFICES ASSUME NEW A \in SUBSET W, A # {}
                 PROVE  \E x \in A : IsSink(O, A, x)
      BY DEF HasSinks
    <3>1. CASE v \in A
      BY <2>3, <3>1 DEF IsSink
    <3>2. CASE v \notin A
      <4>1. A \in SUBSET U
        BY <3>2
      <4>2. PICK x \in A : IsSink(R, A, x)
        BY <2>1, <4>1 DEF HasSinks
      <4>3. IsSink(O, A, x)
        BY <2>3, <4>1, <4>2 DEF IsSink
      <4> QED
        BY <4>3
    <3> QED
      BY <3>1, <3>2
  <2>8. O \in Acyclic(G, W)
    BY <2>2, <2>6, <2>7 DEF Acyclic
  <2> QED
    BY <2>8 DEF O
<1> DEFINE Q == UNION {{O \cup IntoSink(G, W, v) :
                           O \in Acyclic(G, W \ {v})} : v \in W}
<1>3. \A O \in Acyclic(G, W) : O \in Q
  BY <1>1
<1>4. ASSUME NEW O \in Q PROVE O \in Acyclic(G, W)
  <2>1. PICK v \in W : O \in {R \cup IntoSink(G, W, v) :
                               R \in Acyclic(G, W \ {v})}
    OBVIOUS
  <2>2. PICK R \in Acyclic(G, W \ {v}) : O = R \cup IntoSink(G, W, v)
    BY <2>1
  <2> QED
    BY <1>2, <2>2
<1> HIDE DEF Q
<1>5. Acyclic(G, W) = Q
  BY <1>3, <1>4
<1> QED
  BY <1>5 DEF Q

LEMMA NothingToOrient ==
  ASSUME NEW G
  PROVE  Acyclic(G, {}) = {{}}
BY DEF Acyclic, Orients, HasSinks

IsTableOfOrientations(f, G) ==
    f = [W \in SUBSET G.node |->
            IF W = {} THEN {{}}
            ELSE UNION {{O \cup {a \in (W \ {v}) \X {v} : Adjacent(G, a[1], v)} :
                            O \in f[W \ {v}]} : v \in W}]

\* The tabled function of the definition is what it should be.
LEMMA TableOfOrientationsExists ==
  ASSUME NEW G
  PROVE  \E f : IsTableOfOrientations(f, G)
<1> DEFINE f == [W \in SUBSET G.node |-> Acyclic(G, W)]
           of(W) == UNION {{O \cup IntoSink(G, W, v) :
                               O \in f[W \ {v}]} : v \in W}
<1>1. ASSUME NEW W \in SUBSET G.node, W = {} PROVE f[W] = {{}}
  BY <1>1, NothingToOrient
<1>2. ASSUME NEW W \in SUBSET G.node, W # {} PROVE f[W] = of(W)
  <2> DEFINE a(v) == {O \cup IntoSink(G, W, v) : O \in Acyclic(G, W \ {v})}
             b(v) == {O \cup IntoSink(G, W, v) : O \in f[W \ {v}]}
  <2>1. \A v \in W : a(v) = b(v)
    OBVIOUS
  <2>2. {a(v) : v \in W} = {b(v) : v \in W}
    <3> HIDE DEF a, b
    <3> QED
      BY <2>1
  <2>3. Acyclic(G, W) = UNION {a(v) : v \in W}
    BY <1>2, AcyclicWithSink
  <2>4. f[W] = Acyclic(G, W)
    OBVIOUS
  <2> HIDE DEF f, a, b
  <2>5. f[W] = UNION {b(v) : v \in W}
    BY <2>2, <2>3, <2>4
  <2> QED
    BY <2>5 DEF b
<1>3. f = [W \in SUBSET G.node |-> f[W]]
  OBVIOUS
<1> HIDE DEF f, of
<1>4. f = [W \in SUBSET G.node |-> IF W = {} THEN {{}} ELSE of(W)]
  BY <1>1, <1>2, <1>3
<1> QED
  BY <1>4 DEF IsTableOfOrientations, of, IntoSink

\* There is only one such function.
LEMMA TablesOfOrientationsAgree ==
  ASSUME NEW G, IsFiniteSet(G.node), NEW f, IsTableOfOrientations(f, G)
  PROVE  f[G.node] = Acyclic(G, G.node)
<1> DEFINE V == G.node
           X == {W \in SUBSET V : f[W] # Acyclic(G, W)}
<1>1. SUFFICES ASSUME X # {} PROVE FALSE
  OBVIOUS
<1>2. PICK W \in X : \A U \in X : U \subseteq W => U = W
  <2>1. X \in SUBSET (SUBSET V)
    OBVIOUS
  <2> HIDE DEF X, V
  <2> QED
    BY <1>1, <2>1, MinimalSet DEF V
<1>3. CASE W = {}
  <2>1. f[{}] = {{}}
    BY DEF IsTableOfOrientations
  <2> QED
    BY <1>2, <1>3, <2>1, NothingToOrient
<1>4. CASE W # {}
  <2> DEFINE a(v) == {O \cup IntoSink(G, W, v) : O \in Acyclic(G, W \ {v})}
             b(v) == {O \cup IntoSink(G, W, v) : O \in f[W \ {v}]}
  <2>1. f[W] = UNION {b(v) : v \in W}
    BY <1>4 DEF IsTableOfOrientations, IntoSink
  <2>2. Acyclic(G, W) = UNION {a(v) : v \in W}
    BY <1>4, AcyclicWithSink
  <2>3. ASSUME NEW v \in W PROVE f[W \ {v}] = Acyclic(G, W \ {v})
    <3>1. W \ {v} \in SUBSET V /\ W \ {v} \subseteq W /\ W \ {v} # W
      OBVIOUS
    <3> QED
      BY <1>2, <3>1
  <2>4. \A v \in W : a(v) = b(v)
    BY <2>3
  <2>5. {a(v) : v \in W} = {b(v) : v \in W}
    <3> HIDE DEF a, b
    <3> QED
      BY <2>4
  <2> HIDE DEF X, V, a, b
  <2>6. f[W] = Acyclic(G, W)
    BY <2>1, <2>2, <2>5
  <2> QED
    BY <1>2, <2>6 DEF X
<1> QED
  BY <1>3, <1>4

\* AcyclicOrientations are the orientations without cycles.
LEMMA AcyclicOrientationsAre ==
  ASSUME NEW G, IsFiniteSet(G.node)
  PROVE  AcyclicOrientations(G) = Acyclic(G, G.node)
<1> DEFINE of == CHOOSE f : IsTableOfOrientations(f, G)
<1>1. AcyclicOrientations(G) = of[G.node]
  BY DEF AcyclicOrientations, IsTableOfOrientations
<1>2. IsTableOfOrientations(of, G)
  BY TableOfOrientationsExists
<1> HIDE DEF of
<1> QED
  BY <1>1, <1>2, TablesOfOrientationsAgree

LEMMA OrientationsAreFinite ==
  ASSUME NEW G, NEW W, IsFiniteSet(W)
  PROVE  /\ IsFiniteSet(SUBSET (W \X W))
         /\ \A X \in SUBSET (SUBSET (W \X W)) : IsFiniteSet(X)
         /\ IsFiniteSet(Acyclic(G, W))
<1>1. IsFiniteSet(W \X W)
  BY FS_Product
<1>2. IsFiniteSet(SUBSET (W \X W))
  BY <1>1, FS_SUBSET
<1>3. Acyclic(G, W) \in SUBSET (SUBSET (W \X W))
  BY DEF Acyclic
<1>4. \A X \in SUBSET (SUBSET (W \X W)) : IsFiniteSet(X)
  BY <1>2, FS_Subset
<1> QED
  BY <1>2, <1>3, <1>4

-----------------------------------------------------------------------------
(* Orientations of a graph whose vertices are renamed or identified        *)

\* The image of an orientation, and the arcs of G above one.
Push(f, O) == {<<f[a[1]], f[a[2]]>> : a \in O}
Pull(f, P, G) == {a \in G.node \X G.node :
                     Joined(G, a[1], a[2]) /\ <<f[a[1]], f[a[2]]>> \in P}

\* f identifies no vertices that are joined, and the edges of H are the
\* images of those of G.
IsQuotient(f, G, H) ==
    /\ \A x \in G.node : f[x] \in H.node
    /\ \A x, y \in G.node :
          Joined(G, x, y) => Joined(H, f[x], f[y])
    /\ \A a, b \in H.node : Joined(H, a, b) =>
          \E x, y \in G.node : f[x] = a /\ f[y] = b /\ Joined(G, x, y)

\* The orientations that stay without cycles.
AcyclicAfter(f, G, H) ==
    {O \in SUBSET (G.node \X G.node) :
        Orients(O, G, G.node) /\ HasSinks(Push(f, O), H.node)}

LEMMA PushedArc ==
  ASSUME NEW f, NEW G, NEW V, NEW O, Orients(O, G, V), NEW a, NEW b,
         <<a, b>> \in Push(f, O)
  PROVE  \E c \in O : /\ c[1] \in V /\ c[2] \in V /\ c = <<c[1], c[2]>>
                      /\ a = f[c[1]] /\ b = f[c[2]]
<1>1. PICK c \in O : <<a, b>> = <<f[c[1]], f[c[2]]>>
  BY DEF Push
<1>2. c[1] \in V /\ c[2] \in V /\ c = <<c[1], c[2]>>
  BY DEF Orients
<1>3. a = f[c[1]] /\ b = f[c[2]]
  BY <1>1
<1> QED
  BY <1>2, <1>3

\* What becomes of an orientation when vertices are identified.
LEMMA PushFacts ==
  ASSUME NEW f, NEW G, NEW H, IsQuotient(f, G, H),
         NEW O, Orients(O, G, G.node)
  PROVE  /\ \A x, y : <<x, y>> \in O => <<f[x], f[y]>> \in Push(f, O)
         /\ Orients(Push(f, O), H, H.node)
<1>1. O \in SUBSET (G.node \X G.node)
  BY DEF Orients
<1>2. \A x, y : <<x, y>> \in O => <<f[x], f[y]>> \in Push(f, O)
  <2> TAKE x, y
  <2> HAVE <<x, y>> \in O
  <2>1. <<x, y>>[1] = x /\ <<x, y>>[2] = y
    OBVIOUS
  <2> QED
    BY <2>1 DEF Push
<1>4. Push(f, O) \in SUBSET (H.node \X H.node)
  BY <1>1 DEF Push, IsQuotient
<1>5. ASSUME NEW a \in H.node, NEW b \in H.node,
             <<a, b>> \in Push(f, O) \/ <<b, a>> \in Push(f, O)
      PROVE  Joined(H, a, b)
  <2>1. ASSUME NEW c, NEW d, <<c, d>> \in Push(f, O) PROVE Joined(H, c, d)
    <3>1. PICK e \in O :
             /\ e[1] \in G.node /\ e[2] \in G.node /\ e = <<e[1], e[2]>>
             /\ c = f[e[1]] /\ d = f[e[2]]
      BY <2>1, PushedArc
    <3>2. Joined(G, e[1], e[2])
      BY <3>1 DEF Orients
    <3> QED
      BY <3>1, <3>2 DEF IsQuotient
  <2> QED
    BY <1>5, <2>1, JoinedIsMutual
<1>6. ASSUME NEW a \in H.node, NEW b \in H.node, Joined(H, a, b)
      PROVE  <<a, b>> \in Push(f, O) \/ <<b, a>> \in Push(f, O)
  <2>1. PICK x \in G.node, y \in G.node :
           f[x] = a /\ f[y] = b /\ Joined(G, x, y)
    BY <1>6 DEF IsQuotient
  <2>2. <<x, y>> \in O \/ <<y, x>> \in O
    BY <2>1 DEF Orients
  <2> QED
    BY <1>2, <2>1, <2>2
<1> QED
  BY <1>2, <1>4, <1>5, <1>6 DEF Orients

LEMMA PullFacts ==
  ASSUME NEW f, NEW G, NEW H, IsQuotient(f, G, H),
         NEW P \in Acyclic(H, H.node)
  PROVE  /\ \A x, y : <<x, y>> \in Pull(f, P, G) <=>
               /\ x \in G.node /\ y \in G.node /\ Joined(G, x, y)
               /\ <<f[x], f[y]>> \in P
         /\ Orients(Pull(f, P, G), G, G.node)
         /\ Push(f, Pull(f, P, G)) = P
<1> DEFINE O == Pull(f, P, G)
<1>1. \A x, y : <<x, y>> \in O <=>
         /\ x \in G.node /\ y \in G.node /\ Joined(G, x, y)
         /\ <<f[x], f[y]>> \in P
  BY DEF Pull
<1>2. O \in SUBSET (G.node \X G.node)
  BY DEF Pull
<1>3. /\ P \in SUBSET (H.node \X H.node)
      /\ \A x, y \in H.node :
            (<<x, y>> \in P \/ <<y, x>> \in P) <=> Joined(H, x, y)
  BY DEF Acyclic, Orients
<1> HIDE DEF O
<1>4. Orients(O, G, G.node)
  <2>1. ASSUME NEW x \in G.node, NEW y \in G.node, Joined(G, x, y)
        PROVE  <<x, y>> \in O \/ <<y, x>> \in O
    <3>1. Joined(H, f[x], f[y]) /\ f[x] \in H.node /\ f[y] \in H.node
      BY <2>1 DEF IsQuotient
    <3>2. <<f[x], f[y]>> \in P \/ <<f[y], f[x]>> \in P
      BY <1>3, <3>1
    <3> QED
      BY <1>1, <2>1, <3>2, JoinedIsMutual
  <2>2. ASSUME NEW x \in G.node, NEW y \in G.node,
               <<x, y>> \in O \/ <<y, x>> \in O
        PROVE  Joined(G, x, y)
    BY <1>1, <2>2, JoinedIsMutual
  <2> QED
    BY <1>2, <2>1, <2>2 DEF Orients
<1>5. ASSUME NEW c \in P PROVE c \in Push(f, O)
  <2>1. PICK a \in H.node, b \in H.node : c = <<a, b>>
    BY <1>3
  <2>2. Joined(H, a, b)
    BY <1>3, <2>1
  <2>3. PICK x \in G.node, y \in G.node :
           f[x] = a /\ f[y] = b /\ Joined(G, x, y)
    BY <2>2 DEF IsQuotient
  <2>4. <<x, y>> \in O
    BY <1>1, <2>1, <2>3
  <2>5. <<f[x], f[y]>> \in Push(f, O)
    BY <1>4, <2>4, PushFacts
  <2> QED
    BY <2>1, <2>3, <2>5
<1>6. ASSUME NEW c \in Push(f, O) PROVE c \in P
  <2>1. Orients(Push(f, O), H, H.node)
    BY <1>4, PushFacts
  <2>2. PICK a \in H.node, b \in H.node : c = <<a, b>>
    BY <2>1 DEF Orients
  <2>3. PICK e \in O :
           /\ e[1] \in G.node /\ e[2] \in G.node /\ e = <<e[1], e[2]>>
           /\ a = f[e[1]] /\ b = f[e[2]]
    BY <1>4, <2>2, PushedArc
  <2> QED
    BY <1>1, <2>2, <2>3
<1>7. Push(f, O) = P
  BY <1>5, <1>6
<1> QED
  BY <1>1, <1>4, <1>7 DEF O

\* The orientations of the quotient are images of those that stay without cycles.
LEMMA QuotientOrientations ==
  ASSUME NEW f, NEW G, NEW H, IsQuotient(f, G, H)
  PROVE  OneToOneOnto([O \in AcyclicAfter(f, G, H) |-> Push(f, O)],
                      AcyclicAfter(f, G, H), Acyclic(H, H.node))
<1> DEFINE A == AcyclicAfter(f, G, H)
           B == Acyclic(H, H.node)
           push == [O \in A |-> Push(f, O)]
<1>1. \A O \in A : push[O] = Push(f, O)
  OBVIOUS
<1>2. ASSUME NEW O \in A
      PROVE  /\ Orients(O, G, G.node) /\ HasSinks(Push(f, O), H.node)
             /\ Push(f, O) \in B
  <2>1. Orients(O, G, G.node) /\ HasSinks(Push(f, O), H.node)
    BY DEF AcyclicAfter
  <2>2. Orients(Push(f, O), H, H.node)
    BY <2>1, PushFacts
  <2> QED
    BY <2>1, <2>2 DEF Acyclic, Orients
<1>3. ASSUME NEW P \in B PROVE Pull(f, P, G) \in A /\ Push(f, Pull(f, P, G)) = P
  <2>1. /\ Orients(Pull(f, P, G), G, G.node) /\ Push(f, Pull(f, P, G)) = P
        /\ HasSinks(P, H.node)
    BY PullFacts DEF Acyclic
  <2> QED
    BY <2>1 DEF AcyclicAfter, Orients
<1>4. ASSUME NEW O \in A PROVE Pull(f, Push(f, O), G) = O
  <2> DEFINE P == Push(f, O)
             Q == Pull(f, P, G)
  <2>1. P \in B /\ Orients(O, G, G.node) /\ HasSinks(P, H.node)
    BY <1>2
  <2>2. O \in SUBSET (G.node \X G.node) /\ Q \in SUBSET (G.node \X G.node)
    BY <2>1 DEF Orients, Pull
  <2>3. \A x, y \in G.node : <<x, y>> \in Q <=>
           Joined(G, x, y) /\ <<f[x], f[y]>> \in P
    BY <2>1, PullFacts
  <2> HIDE DEF Q
  <2>4. ASSUME NEW x \in G.node, NEW y \in G.node, <<x, y>> \in O
        PROVE  <<x, y>> \in Q
    <3>1. <<f[x], f[y]>> \in P
      BY <2>1, <2>4, PushFacts
    <3>2. Joined(G, x, y)
      BY <2>1, <2>4 DEF Orients
    <3> QED
      BY <2>3, <3>1, <3>2
  <2>5. ASSUME NEW x \in G.node, NEW y \in G.node, <<x, y>> \in Q
        PROVE  <<x, y>> \in O
    <3>1. Joined(G, x, y) /\ <<f[x], f[y]>> \in P
      BY <2>3, <2>5
    <3>2. <<x, y>> \in O \/ <<y, x>> \in O
      BY <2>1, <3>1 DEF Orients
    <3>3. ASSUME <<y, x>> \in O PROVE FALSE
      <4>1. <<f[y], f[x]>> \in P
        BY <2>1, <3>3, PushFacts
      <4>2. f[x] \in H.node /\ f[y] \in H.node
        BY DEF IsQuotient
      <4> HIDE DEF P
      <4> QED
        BY <2>1, <3>1, <4>1, <4>2, OneWayOnly
    <3> QED
      BY <3>2, <3>3
  <2>6. Q = O
    <3>1. \A a \in O : a \in Q
      BY <2>2, <2>4
    <3>2. \A a \in Q : a \in O
      BY <2>2, <2>5
    <3> QED
      BY <3>1, <3>2
  <2> QED
    BY <2>6 DEF Q
<1> HIDE DEF A, B, push
<1>5. \A O \in A : push[O] \in B
  BY <1>1, <1>2
<1>6. \A O1, O2 \in A : push[O1] = push[O2] => O1 = O2
  <2> TAKE O1 \in A, O2 \in A
  <2> HAVE push[O1] = push[O2]
  <2>1. Push(f, O1) = Push(f, O2)
    BY <1>1
  <2>2. Pull(f, Push(f, O1), G) = O1 /\ Pull(f, Push(f, O2), G) = O2
    BY <1>4
  <2> QED
    BY <2>1, <2>2
<1>7. \A P \in B : \E O \in A : push[O] = P
  BY <1>1, <1>3
<1>8. OneToOneOnto(push, A, B)
  BY <1>5, <1>6, <1>7 DEF OneToOneOnto
<1> QED
  BY <1>8 DEF push, A, B

\* Two graphs that differ in the names of the vertices only.
IsIsomorphism(f, G, H) ==
    /\ OneToOneOnto(f, G.node, H.node)
    /\ \A x, y \in G.node : Joined(G, x, y) <=> Joined(H, f[x], f[y])

LEMMA IsomorphismIsQuotient ==
  ASSUME NEW f, NEW G, NEW H, IsIsomorphism(f, G, H)
  PROVE  IsQuotient(f, G, H)
<1>1. ASSUME NEW a \in H.node, NEW b \in H.node, Joined(H, a, b)
      PROVE  \E x, y \in G.node : f[x] = a /\ f[y] = b /\ Joined(G, x, y)
  <2>1. PICK x \in G.node : f[x] = a
    BY DEF IsIsomorphism, OneToOneOnto
  <2>2. PICK y \in G.node : f[y] = b
    BY DEF IsIsomorphism, OneToOneOnto
  <2>3. Joined(G, x, y)
    BY <1>1, <2>1, <2>2 DEF IsIsomorphism
  <2> QED
    BY <2>1, <2>2, <2>3
<1> QED
  BY <1>1 DEF IsIsomorphism, OneToOneOnto, IsQuotient

LEMMA SinkOfImage ==
  ASSUME NEW f, NEW G, NEW H, IsIsomorphism(f, G, H),
         NEW O, Orients(O, G, G.node),
         NEW U \in SUBSET G.node, NEW x \in G.node
  PROVE  IsSink(O, U, x) <=> IsSink(Push(f, O), {f[y] : y \in U}, f[x])
<1>1. IsQuotient(f, G, H)
  BY IsomorphismIsQuotient
<1>2. ASSUME NEW y \in U
      PROVE  <<x, y>> \in O <=> <<f[x], f[y]>> \in Push(f, O)
  <2>1. ASSUME <<f[x], f[y]>> \in Push(f, O) PROVE <<x, y>> \in O
    <3>2. PICK e \in O :
             /\ e[1] \in G.node /\ e[2] \in G.node /\ e = <<e[1], e[2]>>
             /\ f[x] = f[e[1]] /\ f[y] = f[e[2]]
      BY <2>1, PushedArc
    <3>3. x = e[1] /\ y = e[2]
      BY <3>2 DEF IsIsomorphism, OneToOneOnto
    <3> QED
      BY <3>2, <3>3
  <2> QED
    BY <1>1, <2>1, PushFacts
<1> QED
  BY <1>2 DEF IsSink

\* Isomorphic graphs have as many orientations.
LEMMA IsomorphicOrientations ==
  ASSUME NEW f, NEW G, NEW H, IsIsomorphism(f, G, H)
  PROVE  OneToOneOnto([O \in Acyclic(G, G.node) |-> Push(f, O)],
                      Acyclic(G, G.node), Acyclic(H, H.node))
<1>1. IsQuotient(f, G, H)
  BY IsomorphismIsQuotient
<1>2. ASSUME NEW O, Orients(O, G, G.node)
      PROVE  HasSinks(O, G.node) <=> HasSinks(Push(f, O), H.node)
  <2>1. ASSUME HasSinks(O, G.node), NEW U \in SUBSET H.node, U # {}
        PROVE  \E a \in U : IsSink(Push(f, O), U, a)
    <3> DEFINE W == {x \in G.node : f[x] \in U}
    <3>1. W \in SUBSET G.node /\ W # {} /\ {f[x] : x \in W} = U
      BY <2>1 DEF IsIsomorphism, OneToOneOnto
    <3>2. PICK x \in W : IsSink(O, W, x)
      BY <2>1, <3>1 DEF HasSinks
    <3>3. IsSink(Push(f, O), {f[y] : y \in W}, f[x])
      BY <1>2, <3>1, <3>2, SinkOfImage
    <3>4. f[x] \in U
      BY <3>2
    <3> QED
      BY <3>1, <3>3, <3>4
  <2>2. ASSUME HasSinks(Push(f, O), H.node), NEW W \in SUBSET G.node, W # {}
        PROVE  \E x \in W : IsSink(O, W, x)
    <3> DEFINE U == {f[x] : x \in W}
    <3>1. U \in SUBSET H.node /\ U # {}
      BY <2>2 DEF IsIsomorphism, OneToOneOnto
    <3>2. PICK a \in U : IsSink(Push(f, O), U, a)
      BY <2>2, <3>1 DEF HasSinks
    <3>3. PICK x \in W : a = f[x]
      OBVIOUS
    <3>4. IsSink(O, W, x)
      BY <1>2, <3>2, <3>3, SinkOfImage
    <3> QED
      BY <3>4
  <2> QED
    BY <2>1, <2>2 DEF HasSinks
<1>3. AcyclicAfter(f, G, H) = Acyclic(G, G.node)
  BY <1>2 DEF AcyclicAfter, Acyclic
<1> QED
  BY <1>1, <1>3, QuotientOrientations

-----------------------------------------------------------------------------
(* Deletion and contraction                                                *)

\* v is renamed to u.
Merge(V, u, v) == [x \in V |-> IF x = v THEN u ELSE x]

\* u and v are not joined in G, and u stands for both in H.
Merges(H, G, u, v) ==
    /\ u \in G.node /\ v \in G.node /\ u # v /\ ~Joined(G, u, v)
    /\ H.node = G.node \ {v}
    /\ \A x, y \in H.node :
          Joined(H, x, y) <=>
             x # y /\ \/ Joined(G, x, y)
                      \/ x = u /\ Joined(G, v, y)
                      \/ y = u /\ Joined(G, x, v)

LEMMA MergeIsQuotient ==
  ASSUME NEW G, NEW H, NEW u, NEW v, Merges(H, G, u, v)
  PROVE  IsQuotient(Merge(G.node, u, v), G, H)
<1> DEFINE f == Merge(G.node, u, v)
<1>1. /\ u \in G.node /\ v \in G.node /\ u # v /\ ~Joined(G, u, v)
      /\ H.node = G.node \ {v} /\ ~Joined(G, v, u)
  BY JoinedIsMutual DEF Merges
<1>2. \A x \in G.node : f[x] = IF x = v THEN u ELSE x
  BY DEF Merge
<1> HIDE DEF f
<1>3. ASSUME NEW x \in G.node, NEW y \in G.node, Joined(G, x, y)
      PROVE  Joined(H, f[x], f[y])
  <2>1. x # y
    BY <1>3 DEF Joined
  <2>2. f[x] \in H.node /\ f[y] \in H.node
    BY <1>1, <1>2
  <2>3. f[x] # f[y]
    BY <1>1, <1>2, <1>3, <2>1
  <2>4. \/ Joined(G, f[x], f[y])
        \/ f[x] = u /\ Joined(G, v, f[y])
        \/ f[y] = u /\ Joined(G, f[x], v)
    BY <1>1, <1>2, <1>3, <2>1
  <2> QED
    BY <2>2, <2>3, <2>4 DEF Merges
<1>4. ASSUME NEW a \in H.node, NEW b \in H.node, Joined(H, a, b)
      PROVE  \E x, y \in G.node : f[x] = a /\ f[y] = b /\ Joined(G, x, y)
  <2>1. \/ Joined(G, a, b)
        \/ a = u /\ Joined(G, v, b)
        \/ b = u /\ Joined(G, a, v)
    BY <1>4 DEF Merges
  <2>2. a \in G.node /\ b \in G.node /\ f[a] = a /\ f[b] = b /\ f[v] = u
    BY <1>1, <1>2
  <2>3. CASE Joined(G, a, b)
    BY <2>2, <2>3
  <2>4. CASE a = u /\ Joined(G, v, b)
    BY <1>1, <2>2, <2>4
  <2>5. CASE b = u /\ Joined(G, a, v)
    BY <1>1, <2>2, <2>5
  <2> QED
    BY <2>1, <2>3, <2>4, <2>5
<1> QED
  BY <1>1, <1>2, <1>3, <1>4 DEF IsQuotient, f

LEMMA FewerArcs ==
  ASSUME NEW O, NEW W, HasSinks(O, W), NEW R, R \subseteq O
  PROVE  HasSinks(R, W)
<1> SUFFICES ASSUME NEW U \in SUBSET W, U # {}
             PROVE  \E x \in U : IsSink(R, U, x)
  BY DEF HasSinks
<1>1. PICK x \in U : IsSink(O, U, x)
  BY DEF HasSinks
<1> QED
  BY <1>1 DEF IsSink

\* An arc closes a cycle iff there is a path back.
LEMMA ArcClosesCycle ==
  ASSUME NEW W, NEW O, HasSinks(O, W), NEW u \in W, NEW v \in W, u # v,
         ~HasSinks(O \cup {<<u, v>>}, W)
  PROVE  \E U \in SUBSET W : /\ u \in U /\ v \in U
                             /\ \A x \in U : x # u => ~IsSink(O, U, x)
<1>1. PICK U \in SUBSET W : /\ U # {}
                            /\ \A x \in U : ~IsSink(O \cup {<<u, v>>}, U, x)
  BY DEF HasSinks
<1>2. ASSUME NEW x \in U, x # u PROVE ~IsSink(O, U, x)
  <2>1. PICK y \in U : <<x, y>> \in O \cup {<<u, v>>}
    BY <1>1 DEF IsSink
  <2>2. <<x, y>> # <<u, v>>
    BY <1>2
  <2> QED
    BY <2>1, <2>2 DEF IsSink
<1>3. PICK z \in U : IsSink(O, U, z)
  BY <1>1 DEF HasSinks
<1>4. z = u
  BY <1>2, <1>3
<1>5. v \in U
  <2>1. PICK y \in U : <<u, y>> \in O \cup {<<u, v>>}
    BY <1>1, <1>3, <1>4 DEF IsSink
  <2>2. <<u, y>> \notin O
    BY <1>3, <1>4 DEF IsSink
  <2>3. <<u, y>> = <<u, v>>
    BY <2>1, <2>2
  <2>4. y = v
    BY <2>3
  <2> QED
    BY <2>4
<1> QED
  BY <1>2, <1>3, <1>4, <1>5

\* There are no paths in both directions.
LEMMA OneOfTwoArcs ==
  ASSUME NEW W, NEW O, HasSinks(O, W), NEW u \in W, NEW v \in W, u # v
  PROVE  HasSinks(O \cup {<<u, v>>}, W) \/ HasSinks(O \cup {<<v, u>>}, W)
<1> SUFFICES ASSUME ~HasSinks(O \cup {<<u, v>>}, W),
                    ~HasSinks(O \cup {<<v, u>>}, W)
             PROVE  FALSE
  OBVIOUS
<1>1. PICK U \in SUBSET W : /\ u \in U /\ v \in U
                            /\ \A x \in U : x # u => ~IsSink(O, U, x)
  BY ArcClosesCycle
<1>2. PICK S \in SUBSET W : /\ v \in S /\ u \in S
                            /\ \A x \in S : x # v => ~IsSink(O, S, x)
  BY ArcClosesCycle
<1>3. PICK z \in U \cup S : IsSink(O, U \cup S, z)
  <2>1. U \cup S \in SUBSET W /\ U \cup S # {}
    BY <1>1
  <2> QED
    BY <2>1 DEF HasSinks
<1>4. \A y \in U \cup S : <<z, y>> \notin O
  BY <1>3 DEF IsSink
<1>5. CASE z \in U /\ z # u
  BY <1>1, <1>4, <1>5 DEF IsSink
<1>6. CASE z \in S /\ z # v
  BY <1>2, <1>4, <1>6 DEF IsSink
<1>7. CASE z = u
  BY <1>2, <1>6, <1>7
<1>8. CASE z = v
  BY <1>1, <1>5, <1>8
<1> QED
  BY <1>3, <1>5, <1>6, <1>7, <1>8

\* No path between u and v, in either direction.
LEMMA NoPathsAfterMerge ==
  ASSUME NEW G, NEW H, NEW u, NEW v, Merges(H, G, u, v),
         NEW O, Orients(O, G, G.node),
         HasSinks(Push(Merge(G.node, u, v), O), H.node)
  PROVE  HasSinks(O \cup {<<u, v>>}, G.node) /\ HasSinks(O \cup {<<v, u>>}, G.node)
<1> DEFINE V == G.node
           f == Merge(V, u, v)
           P == Push(f, O)
<1>1. u \in V /\ v \in V /\ u # v /\ H.node = V \ {v}
  BY DEF Merges
<1>2. \A x \in V : f[x] = IF x = v THEN u ELSE x
  BY DEF Merge
<1>3. \A x, y : <<x, y>> \in O => <<f[x], f[y]>> \in P
  BY MergeIsQuotient, PushFacts
<1> HIDE DEF f
<1>4. ASSUME NEW U \in SUBSET V, U # {}
      PROVE  /\ \E x \in U : IsSink(O \cup {<<u, v>>}, U, x)
             /\ \E x \in U : IsSink(O \cup {<<v, u>>}, U, x)
  <2> DEFINE S == {f[x] : x \in U}
  <2>1. S \in SUBSET H.node /\ S # {}
    BY <1>1, <1>2, <1>4
  <2>2. PICK z \in S : IsSink(P, S, z)
    <3>1. HasSinks(P, H.node)
      BY DEF f
    <3> HIDE DEF P, S
    <3> QED
      BY <2>1, <3>1 DEF HasSinks
  <2>3. ASSUME NEW x \in U, f[x] = z PROVE \A y \in U : <<x, y>> \notin O
    <3> SUFFICES ASSUME NEW y \in U, <<x, y>> \in O PROVE FALSE
      OBVIOUS
    <3>1. <<z, f[y]>> \in P /\ f[y] \in S
      BY <1>3, <2>3
    <3> HIDE DEF P, S
    <3> QED
      BY <2>2, <3>1 DEF IsSink
  <2>4. CASE z # u
    <3>1. z \in U /\ f[z] = z /\ z # v
      BY <1>1, <1>2, <2>2, <2>4
    <3>2. \A y : <<z, y>> # <<u, v>> /\ <<z, y>> # <<v, u>>
      BY <2>4, <3>1
    <3> QED
      BY <2>3, <3>1, <3>2 DEF IsSink
  <2>5. CASE z = u /\ v \in U /\ u \in U
    <3>1. f[v] = z /\ f[u] = z
      BY <1>1, <1>2, <2>5
    <3>2. /\ \A y \in U : <<u, y>> \notin O /\ <<u, y>> # <<v, u>>
          /\ \A y \in U : <<v, y>> \notin O /\ <<v, y>> # <<u, v>>
      BY <1>1, <2>3, <2>5, <3>1
    <3> QED
      BY <2>5, <3>2 DEF IsSink
  <2>6. CASE z = u /\ v \in U /\ u \notin U
    <3>1. f[v] = z
      BY <1>1, <1>2, <2>6
    <3>2. \A y \in U : /\ <<v, y>> \notin O /\ <<v, y>> # <<u, v>>
                       /\ <<v, y>> # <<v, u>>
      BY <1>1, <2>3, <2>6, <3>1
    <3> QED
      BY <2>6, <3>2 DEF IsSink
  <2>7. CASE z = u /\ v \notin U
    <3>1. u \in U /\ f[u] = z
      BY <1>1, <1>2, <2>2, <2>7
    <3>2. \A y \in U : /\ <<u, y>> \notin O /\ <<u, y>> # <<u, v>>
                       /\ <<u, y>> # <<v, u>>
      BY <1>1, <2>3, <2>7, <3>1
    <3> QED
      BY <3>1, <3>2 DEF IsSink
  <2> QED
    BY <2>4, <2>5, <2>6, <2>7
<1> QED
  BY <1>4 DEF HasSinks

\* Without such a path, no cycle comes from identifying the two.
LEMMA NoCycleAfterMerge ==
  ASSUME NEW G, NEW H, NEW u, NEW v, Merges(H, G, u, v),
         NEW O, Orients(O, G, G.node),
         HasSinks(O \cup {<<u, v>>}, G.node), HasSinks(O \cup {<<v, u>>}, G.node)
  PROVE  HasSinks(Push(Merge(G.node, u, v), O), H.node)
<1> DEFINE V == G.node
           f == Merge(V, u, v)
           P == Push(f, O)
<1>1. u \in V /\ v \in V /\ u # v /\ H.node = V \ {v}
  BY DEF Merges
<1>2. \A x \in V : f[x] = IF x = v THEN u ELSE x
  BY DEF Merge
<1>3. ASSUME NEW U \in SUBSET H.node, NEW a \in U, ~IsSink(P, U, a)
      PROVE  \E x, y \in V : f[x] = a /\ f[y] \in U /\ <<x, y>> \in O
  <2>1. PICK b \in U : <<a, b>> \in P
    BY <1>3 DEF IsSink
  <2>2. PICK e \in O :
           /\ e[1] \in V /\ e[2] \in V /\ e = <<e[1], e[2]>>
           /\ a = f[e[1]] /\ b = f[e[2]]
    BY <2>1, PushedArc
  <2> HIDE DEF f
  <2> QED
    BY <2>2
<1> HIDE DEF f, P
<1> SUFFICES ASSUME NEW U \in SUBSET H.node, U # {},
                    \A a \in U : ~IsSink(P, U, a)
             PROVE  FALSE
  BY DEF HasSinks, P, f
<1> DEFINE W == IF u \in U THEN U \cup {v} ELSE U
<1>4. W \in SUBSET V /\ W # {} /\ U \subseteq W
  BY <1>1
<1>5. \A y \in V : f[y] \in U => y \in W
  BY <1>1, <1>2
<1> HIDE DEF W
<1>6. ASSUME NEW x \in U, x # u PROVE \E y \in W : <<x, y>> \in O
  <2>1. PICK s \in V, t \in V : f[s] = x /\ f[t] \in U /\ <<s, t>> \in O
    BY <1>3
  <2>2. s = x /\ t \in W
    BY <1>1, <1>2, <1>5, <1>6, <2>1
  <2> QED
    BY <2>1, <2>2
<1>7. u \in U
  <2> SUFFICES ASSUME u \notin U PROVE FALSE
    OBVIOUS
  <2>1. W = U
    BY DEF W
  <2>2. PICK x \in W : IsSink(O \cup {<<u, v>>}, W, x)
    BY <1>4 DEF HasSinks
  <2>3. PICK y \in W : <<x, y>> \in O
    BY <1>6, <2>1
  <2> QED
    BY <2>2, <2>3 DEF IsSink
<1>8. W = U \cup {v}
  BY <1>7 DEF W
<1>9. PICK s \in V, t \in V : f[s] = u /\ f[t] \in U /\ <<s, t>> \in O
  BY <1>3, <1>7
<1>10. (s = u \/ s = v) /\ t \in W
  BY <1>1, <1>2, <1>5, <1>9
<1>11. CASE s = u
  <2>1. PICK x \in W : IsSink(O \cup {<<v, u>>}, W, x)
    BY <1>4 DEF HasSinks
  <2>2. \A y \in W : <<x, y>> \notin O \cup {<<v, u>>}
    BY <2>1 DEF IsSink
  <2>3. x # v
    BY <1>7, <1>8, <2>2
  <2>4. x # u
    BY <1>9, <1>10, <1>11, <2>2
  <2> QED
    BY <1>6, <1>8, <2>2, <2>3, <2>4
<1>12. CASE s = v
  <2>1. PICK x \in W : IsSink(O \cup {<<u, v>>}, W, x)
    BY <1>4 DEF HasSinks
  <2>2. \A y \in W : <<x, y>> \notin O \cup {<<u, v>>}
    BY <2>1 DEF IsSink
  <2>3. x # u
    BY <1>7, <1>8, <2>2
  <2>4. x # v
    BY <1>9, <1>10, <1>12, <2>2
  <2> QED
    BY <1>6, <1>8, <2>2, <2>3, <2>4
<1> QED
  BY <1>10, <1>11, <1>12

\* The orientations of H are those of G with neither path.
LEMMA MergedOrientations ==
  ASSUME NEW G, NEW H, NEW u, NEW v, Merges(H, G, u, v)
  PROVE  AcyclicAfter(Merge(G.node, u, v), G, H) =
           {O \in Acyclic(G, G.node) :
               /\ HasSinks(O \cup {<<u, v>>}, G.node)
               /\ HasSinks(O \cup {<<v, u>>}, G.node)}
<1>1. ASSUME NEW O, Orients(O, G, G.node)
      PROVE  HasSinks(Push(Merge(G.node, u, v), O), H.node)
               <=> /\ HasSinks(O, G.node)
                   /\ HasSinks(O \cup {<<u, v>>}, G.node)
                   /\ HasSinks(O \cup {<<v, u>>}, G.node)
  <2>1. HasSinks(O \cup {<<u, v>>}, G.node) => HasSinks(O, G.node)
    BY FewerArcs
  <2> QED
    BY <1>1, <2>1, NoPathsAfterMerge, NoCycleAfterMerge
<1> QED
  BY <1>1 DEF AcyclicAfter, Acyclic

\* P is G with an edge between u and v.
AddsEdge(P, G, u, v) ==
    /\ P.node = G.node
    /\ \A x, y \in G.node :
          Joined(P, x, y) <=> Joined(G, x, y) \/ (x = u /\ y = v) \/ (x = v /\ y = u)

\* The orientations of W that an arc leaves without cycles, and those with the
\* arc.
OpenTo(G, W, u, v) == {O \in Acyclic(G, W) : HasSinks(O \cup {<<u, v>>}, W)}
WithArc(P, W, u, v) == {O \in Acyclic(P, W) : <<u, v>> \in O}

\* The orientations of P are those of G with an arc that closes no cycle.
LEMMA OrientationsWithArc ==
  ASSUME NEW G, NEW P, NEW u \in G.node, NEW v \in G.node, u # v,
         ~Joined(G, u, v), AddsEdge(P, G, u, v)
  PROVE  \E f : OneToOneOnto(f, OpenTo(G, G.node, u, v), WithArc(P, G.node, u, v))
<1> DEFINE V == G.node
           A == {O \in Acyclic(G, V) : HasSinks(O \cup {<<u, v>>}, V)}
           B == {O \in Acyclic(P, V) : <<u, v>> \in O}
           add == [O \in A |-> O \cup {<<u, v>>}]
<1>0. ~Joined(G, v, u)
  BY JoinedIsMutual
<1>1. ASSUME NEW O \in A
      PROVE  /\ add[O] = O \cup {<<u, v>>} /\ add[O] \in B
             /\ <<u, v>> \notin O
  <2> DEFINE R == O \cup {<<u, v>>}
  <2>1. add[O] = R
    OBVIOUS
  <2>2. Orients(O, G, V) /\ HasSinks(R, V)
    BY DEF Acyclic
  <2>3. R \in SUBSET (V \X V)
    BY <2>2 DEF Orients
  <2>4. ASSUME NEW x \in V, NEW y \in V
        PROVE  <<x, y>> \in R <=> <<x, y>> \in O \/ (x = u /\ y = v)
    <3>1. <<x, y>> = <<u, v>> <=> x = u /\ y = v
      OBVIOUS
    <3> HIDE DEF A
    <3> QED
      BY <3>1
  <2>5. <<u, v>> \notin O
    BY <2>2 DEF Orients
  <2> HIDE DEF R
  <2>6. Orients(R, P, V)
    <3> SUFFICES ASSUME NEW x \in V, NEW y \in V
                 PROVE  (<<x, y>> \in R \/ <<y, x>> \in R) <=> Joined(P, x, y)
      BY <2>3 DEF Orients
    <3>1. /\ <<x, y>> \in R <=> <<x, y>> \in O \/ (x = u /\ y = v)
          /\ <<y, x>> \in R <=> <<y, x>> \in O \/ (y = u /\ x = v)
      BY <2>4
    <3>2. (<<x, y>> \in O \/ <<y, x>> \in O) <=> Joined(G, x, y)
      BY <2>2 DEF Orients
    <3>3. Joined(P, x, y)
             <=> Joined(G, x, y) \/ (x = u /\ y = v) \/ (x = v /\ y = u)
      BY DEF AddsEdge
    <3> QED
      BY <3>1, <3>2, <3>3
  <2>7. R \in Acyclic(P, V)
    BY <2>2, <2>3, <2>6 DEF Acyclic
  <2> QED
    BY <2>1, <2>5, <2>7 DEF R
<1>2. ASSUME NEW R \in B
      PROVE  \E O \in A : add[O] = R
  <2> DEFINE O == R \ {<<u, v>>}
  <2>1. Orients(R, P, V) /\ HasSinks(R, V) /\ <<u, v>> \in R
    BY DEF Acyclic
  <2>2. <<v, u>> \notin R
    BY <2>1, OneWayOnly
  <2>3. O \in SUBSET (V \X V) /\ O \cup {<<u, v>>} = R
    BY <2>1 DEF Orients
  <2>4. HasSinks(O, V)
    BY <2>1, FewerArcs
  <2>5. ASSUME NEW x \in V, NEW y \in V
        PROVE  <<x, y>> \in O <=> <<x, y>> \in R /\ ~(x = u /\ y = v)
    <3>1. <<x, y>> = <<u, v>> <=> x = u /\ y = v
      OBVIOUS
    <3> HIDE DEF B
    <3> QED
      BY <3>1
  <2> HIDE DEF O
  <2>6. Orients(O, G, V)
    <3> SUFFICES ASSUME NEW x \in V, NEW y \in V
                 PROVE  (<<x, y>> \in O \/ <<y, x>> \in O) <=> Joined(G, x, y)
      BY <2>3 DEF Orients
    <3>1. Joined(P, x, y) <=> Joined(G, x, y) \/ (x = u /\ y = v) \/ (x = v /\ y = u)
      BY DEF AddsEdge
    <3>2. (<<x, y>> \in R \/ <<y, x>> \in R) <=> Joined(P, x, y)
      BY <2>1 DEF Orients
    <3>3. CASE x = u /\ y = v
      BY <2>2, <2>5, <3>3
    <3>4. CASE x = v /\ y = u
      BY <1>0, <2>2, <2>5, <3>4
    <3>5. CASE ~(x = u /\ y = v) /\ ~(x = v /\ y = u)
      <4>1. <<x, y>> \in O <=> <<x, y>> \in R
        BY <2>5, <3>5
      <4>2. <<y, x>> \in O <=> <<y, x>> \in R
        BY <2>5, <3>5
      <4> QED
        BY <3>1, <3>2, <3>5, <4>1, <4>2
    <3> QED
      BY <3>3, <3>4, <3>5
  <2>7. O \in A
    BY <2>1, <2>3, <2>4, <2>6 DEF Acyclic
  <2> QED
    BY <2>3, <2>7
<1> HIDE DEF A, B
<1>3. \A O \in A : add[O] \in B
  BY <1>1
<1>4. \A O1, O2 \in A : add[O1] = add[O2] => O1 = O2
  <2> TAKE O1 \in A, O2 \in A
  <2> HAVE add[O1] = add[O2]
  <2>1. /\ <<u, v>> \notin O1 /\ <<u, v>> \notin O2
        /\ O1 \cup {<<u, v>>} = O2 \cup {<<u, v>>}
    BY <1>1
  <2> QED
    BY <2>1
<1>5. OneToOneOnto(add, A, B)
  BY <1>2, <1>3, <1>4 DEF OneToOneOnto
<1> HIDE DEF add
<1> QED
  BY <1>5 DEF A, B, OpenTo, WithArc

\* Each orientation of G goes with one or two of P, and two if it is also one
\* of H.
LEMMA DeletionContraction ==
  ASSUME NEW G, IsFiniteSet(G.node), NEW u, NEW v, NEW H, Merges(H, G, u, v),
         NEW P, AddsEdge(P, G, u, v)
  PROVE  Cardinality(Acyclic(G, G.node))
           = Cardinality(Acyclic(P, P.node)) - Cardinality(Acyclic(H, H.node))
<1> DEFINE V == G.node
           N == Acyclic(G, V)
           A == OpenTo(G, V, u, v)
           B == OpenTo(G, V, v, u)
           PA == WithArc(P, V, u, v)
           PB == WithArc(P, V, v, u)
<1>1. /\ u \in V /\ v \in V /\ u # v /\ ~Joined(G, u, v) /\ ~Joined(G, v, u)
      /\ AddsEdge(P, G, v, u) /\ P.node = V
  BY JoinedIsMutual DEF Merges, AddsEdge
<1>2. IsFiniteSet(N) /\ A \in SUBSET N /\ B \in SUBSET N
  BY OrientationsAreFinite DEF OpenTo
<1>3. IsFiniteSet(A) /\ IsFiniteSet(B)
  BY <1>2, FS_Subset
<1>4. A \cup B = N
  <2>1. ASSUME NEW O \in N PROVE O \in A \cup B
    <3>1. HasSinks(O, V)
      BY DEF Acyclic
    <3> QED
      BY <1>1, <3>1, OneOfTwoArcs DEF OpenTo
  <2> QED
    BY <1>2, <2>1
<1>5. IsFiniteSet(PA) /\ Cardinality(PA) = Cardinality(A)
  <2>1. PICK f : OneToOneOnto(f, A, PA)
    BY <1>1, OrientationsWithArc
  <2> HIDE DEF A, PA
  <2> QED
    BY <1>3, <2>1, SameSize
<1>6. IsFiniteSet(PB) /\ Cardinality(PB) = Cardinality(B)
  <2>1. PICK f : OneToOneOnto(f, B, PB)
    BY <1>1, OrientationsWithArc
  <2> HIDE DEF B, PB
  <2> QED
    BY <1>3, <2>1, SameSize
<1>7. PA \cup PB = Acyclic(P, V) /\ PA \cap PB = {}
  <2>1. ASSUME NEW O \in Acyclic(P, V)
        PROVE  /\ <<u, v>> \in O \/ <<v, u>> \in O
               /\ ~(<<u, v>> \in O /\ <<v, u>> \in O)
    <3>1. Orients(O, P, V) /\ HasSinks(O, V)
      BY DEF Acyclic
    <3>2. Joined(P, u, v)
      BY <1>1 DEF AddsEdge
    <3> QED
      BY <1>1, <3>1, <3>2, OneWayOnly DEF Orients
  <2> QED
    BY <2>1 DEF WithArc
<1>8. Cardinality(Acyclic(P, V)) = Cardinality(A) + Cardinality(B)
  <2>1. Cardinality(PA \cap PB) = 0
    BY <1>7, FS_EmptySet
  <2> HIDE DEF A, B, PA, PB
  <2>2. Cardinality(PA \cup PB)
           = Cardinality(PA) + Cardinality(PB) - Cardinality(PA \cap PB)
    BY <1>5, <1>6, FS_Union
  <2>3. Cardinality(A) \in Nat /\ Cardinality(B) \in Nat
    BY <1>3, FS_CardinalityType
  <2>4. Cardinality(PA \cup PB) = Cardinality(Acyclic(P, V))
    BY <1>7
  <2> QED
    BY <1>5, <1>6, <2>1, <2>2, <2>3, <2>4
<1>9. Cardinality(Acyclic(H, H.node)) = Cardinality(A \cap B)
  <2> DEFINE f == Merge(V, u, v)
             M == AcyclicAfter(f, G, H)
  <2>1. M = A \cap B
    BY MergedOrientations DEF OpenTo
  <2>2. IsQuotient(f, G, H)
    BY MergeIsQuotient
  <2>3. OneToOneOnto([O \in M |-> Push(f, O)], M, Acyclic(H, H.node))
    BY <2>2, QuotientOrientations
  <2>4. IsFiniteSet(A \cap B)
    BY <1>3, FS_Subset
  <2> HIDE DEF M, A, B, f
  <2> QED
    BY <2>1, <2>3, <2>4, SameSize
<1> HIDE DEF A, B, N
<1>10. Cardinality(N) = Cardinality(A) + Cardinality(B) - Cardinality(A \cap B)
  <2>1. Cardinality(A \cup B)
           = Cardinality(A) + Cardinality(B) - Cardinality(A \cap B)
    BY <1>3, FS_Union
  <2> QED
    BY <1>4, <2>1
<1>11. /\ Cardinality(A) \in Nat /\ Cardinality(B) \in Nat
       /\ Cardinality(A \cap B) \in Nat
  BY <1>3, FS_Subset, FS_CardinalityType
<1> QED
  BY <1>1, <1>8, <1>9, <1>10, <1>11 DEF N

-----------------------------------------------------------------------------
(* Orientations of a complete multipartite graph, by their sinks           *)

\* The complete multipartite graph with the vertices of V.
Multi(V) == [node |-> V,
             edge |-> {e \in SUBSET V :
                         \E x, y \in V : Part(x) # Part(y) /\ e = {x, y}}]
Oriented(V) == Acyclic(Multi(V), V)
Sinks(O, V) == {x \in V : IsSink(O, V, x)}
In(V, c) == {x \in V : Part(x) = c}
SinksIn(V, c) == {O \in Oriented(V) : Sinks(O, V) \subseteq In(V, c)}
SinksNotIn(V, c) == {O \in Oriented(V) : Sinks(O, V) \cap In(V, c) = {}}
SinksAre(V, S) == {O \in Oriented(V) : Sinks(O, V) = S}

LEMMA JoinedInMulti ==
  ASSUME NEW V, NEW x \in V, NEW y \in V
  PROVE  Joined(Multi(V), x, y) <=> Part(x) # Part(y)
<1>1. Part(x) # Part(y) => {x, y} \in Multi(V).edge
  BY DEF Multi
<1>2. ASSUME {x, y} \in Multi(V).edge, x # y PROVE Part(x) # Part(y)
  <2>1. PICK s, t \in V : Part(s) # Part(t) /\ {x, y} = {s, t}
    BY <1>2 DEF Multi
  <2>2. (x = s /\ y = t) \/ (x = t /\ y = s)
    BY <1>2, <2>1
  <2> QED
    BY <2>1, <2>2
<1> QED
  BY <1>1, <1>2 DEF Joined, Adjacent

LEMMA OrientedFacts ==
  ASSUME NEW V, NEW O
  PROVE  O \in Oriented(V) <=>
            /\ O \in SUBSET (V \X V) /\ HasSinks(O, V)
            /\ \A x, y \in V : (<<x, y>> \in O \/ <<y, x>> \in O)
                                  <=> Part(x) # Part(y)
BY JoinedInMulti DEF Oriented, Acyclic, Orients

LEMMA OrientedAreFinite ==
  ASSUME NEW V, IsFiniteSet(V)
  PROVE  /\ IsFiniteSet(Oriented(V))
         /\ \A c : IsFiniteSet(SinksIn(V, c)) /\ IsFiniteSet(SinksNotIn(V, c))
         /\ \A S : IsFiniteSet(SinksAre(V, S))
<1>1. IsFiniteSet(Oriented(V))
  BY OrientationsAreFinite DEF Oriented
<1>2. \A X \in SUBSET Oriented(V) : IsFiniteSet(X)
  BY <1>1, FS_Subset
<1> QED
  BY <1>1, <1>2 DEF SinksIn, SinksNotIn, SinksAre

\* All sinks are in one part.
LEMMA SinksShareAPart ==
  ASSUME NEW V, V # {}, NEW O \in Oriented(V)
  PROVE  /\ Sinks(O, V) # {}
         /\ \A x, y \in Sinks(O, V) : Part(x) = Part(y)
<1>1. /\ O \in SUBSET (V \X V) /\ HasSinks(O, V)
      /\ \A x, y \in V : (<<x, y>> \in O \/ <<y, x>> \in O)
                            <=> Part(x) # Part(y)
  BY OrientedFacts
<1>2. Sinks(O, V) # {}
  BY <1>1 DEF HasSinks, Sinks
<1>3. \A x, y \in Sinks(O, V) : Part(x) = Part(y)
  BY <1>1 DEF Sinks, IsSink
<1> QED
  BY <1>2, <1>3

SinkPart(O, V) == Part(CHOOSE x \in Sinks(O, V) : TRUE)

LEMMA SinkPartIs ==
  ASSUME NEW V, V # {}, NEW O \in Oriented(V)
  PROVE  /\ \E x \in Sinks(O, V) : Part(x) = SinkPart(O, V)
         /\ \A c : /\ Sinks(O, V) \subseteq In(V, c) <=> SinkPart(O, V) = c
                   /\ Sinks(O, V) \cap In(V, c) = {} <=> SinkPart(O, V) # c
<1> DEFINE x == CHOOSE y \in Sinks(O, V) : TRUE
<1>1. x \in Sinks(O, V) /\ SinkPart(O, V) = Part(x)
  BY SinksShareAPart DEF SinkPart
<1>2. \A y \in Sinks(O, V) : Part(y) = Part(x) /\ y \in V
  BY <1>1, SinksShareAPart DEF Sinks
<1> HIDE DEF x
<1> QED
  BY <1>1, <1>2 DEF In

\* The orientations, counted by the part of their sinks.
LEMMA CountBySinkPart ==
  ASSUME NEW V, V # {}, IsFiniteSet(V), NEW C, IsFiniteSet(C),
         \A x \in V : Part(x) \in C,
         NEW f, \A c \in C : f[c] = Cardinality(SinksIn(V, c))
  PROVE  /\ IsSummable(f, C)
         /\ SumFunctionOnSet(f, C) = Cardinality(Oriented(V))
         /\ \A c \in C : SumFunctionOnSet(f, C \ {c})
                            = Cardinality(SinksNotIn(V, c))
<1> DEFINE A == Oriented(V)
           key == [O \in A |-> SinkPart(O, V)]
<1>1. IsFiniteSet(A)
  BY OrientedAreFinite
<1>2. ASSUME NEW O \in A PROVE key[O] \in C
  <2>1. \E x \in Sinks(O, V) : Part(x) = SinkPart(O, V)
    BY SinkPartIs
  <2> QED
    BY <2>1 DEF Sinks
<1>3. ASSUME NEW c \in C PROVE SinksIn(V, c) = WithKey(A, key, c)
  <2>1. \A O \in A : Sinks(O, V) \subseteq In(V, c) <=> SinkPart(O, V) = c
    BY SinkPartIs
  <2> QED
    BY <2>1 DEF SinksIn, WithKey
<1>4. ASSUME NEW c \in C
      PROVE  SumFunctionOnSet(f, C \ {c}) = Cardinality(SinksNotIn(V, c))
  <2> DEFINE B == SinksNotIn(V, c)
  <2>1. \A O \in A : Sinks(O, V) \cap In(V, c) = {} <=> SinkPart(O, V) # c
    BY SinkPartIs
  <2>2. B = {O \in A : key[O] # c}
    BY <2>1 DEF SinksNotIn
  <2>3. \A O \in B : key[O] \in C \ {c}
    BY <1>2, <2>2
  <2>4. \A d \in C \ {c} : WithKey(B, key, d) = WithKey(A, key, d)
    BY <2>2 DEF WithKey
  <2>5. IsFiniteSet(B) /\ IsFiniteSet(C \ {c})
    BY OrientedAreFinite, FS_Subset
  <2> HIDE DEF A, B, key
  <2>6. \A d \in C \ {c} : f[d] = Cardinality(WithKey(B, key, d))
    BY <1>3, <2>4
  <2> QED
    BY <2>3, <2>5, <2>6, CountByKey DEF B
<1> HIDE DEF A, key
<1>5. \A c \in C : f[c] = Cardinality(WithKey(A, key, c))
  BY <1>3
<1>6. IsSummable(f, C) /\ SumFunctionOnSet(f, C) = Cardinality(A)
  BY <1>1, <1>2, <1>5, CountByKey
<1> QED
  BY <1>4, <1>6 DEF A

\* All arcs into the sinks.
ArcsInto(V, S) == {a \in (V \ S) \X S : Part(a[1]) # Part(a[2])}

LEMMA IntoMeans ==
  ASSUME NEW V, NEW S
  PROVE  \A x, y : <<x, y>> \in ArcsInto(V, S)
                      <=> x \in V \ S /\ y \in S /\ Part(x) # Part(y)
BY DEF ArcsInto

\* The sinks are taken out: those of what is left are in other parts.
LEMMA WithoutSinks ==
  ASSUME NEW V, NEW c, NEW S \in SUBSET In(V, c), NEW O \in SinksAre(V, S)
  PROVE  \E R \in SinksNotIn(V \ S, c) : O = R \cup ArcsInto(V, S)
<1> DEFINE W == V \ S
           R == O \cap (W \X W)
<1>1. /\ O \in SUBSET (V \X V) /\ HasSinks(O, V)
      /\ \A x, y \in V : (<<x, y>> \in O \/ <<y, x>> \in O)
                            <=> Part(x) # Part(y)
      /\ Sinks(O, V) = S
  BY OrientedFacts DEF SinksAre
<1>2. \A x, y \in W : <<x, y>> \in R <=> <<x, y>> \in O
  OBVIOUS
<1>3. R \in SUBSET (W \X W) /\ R \subseteq O
  OBVIOUS
<1> HIDE DEF R
<1>4. HasSinks(R, W)
  <2>1. HasSinks(R, V)
    BY <1>1, <1>3, FewerArcs
  <2> QED
    BY <2>1 DEF HasSinks
<1>5. R \in Oriented(W)
  <2>1. \A x, y \in W : (<<x, y>> \in R \/ <<y, x>> \in R)
                           <=> Part(x) # Part(y)
    BY <1>1, <1>2
  <2> QED
    BY <1>3, <1>4, <2>1, OrientedFacts
<1>6. ASSUME NEW x \in In(W, c) PROVE x \notin Sinks(R, W)
  <2>1. x \in V /\ x \notin S /\ Part(x) = c /\ x \in W
    BY DEF In
  <2>2. PICK y \in V : <<x, y>> \in O
    BY <1>1, <2>1 DEF Sinks, IsSink
  <2>3. Part(y) # c
    BY <1>1, <2>1, <2>2
  <2>4. y \in W
    BY <2>3 DEF In
  <2>5. <<x, y>> \in R
    BY <1>2, <2>1, <2>2, <2>4
  <2> QED
    BY <2>4, <2>5 DEF Sinks, IsSink
<1>7. ASSUME NEW a \in O PROVE a \in R \cup ArcsInto(V, S)
  <2>1. PICK x \in V, y \in V : a = <<x, y>>
    BY <1>1
  <2>2. Part(x) # Part(y)
    BY <1>1, <2>1
  <2>3. x \notin S
    BY <1>1, <2>1 DEF Sinks, IsSink
  <2> QED
    BY <1>2, <2>1, <2>2, <2>3, IntoMeans
<1>8. ASSUME NEW a \in ArcsInto(V, S) PROVE a \in O
  <2>1. PICK x \in V \ S, y \in S : a = <<x, y>> /\ Part(x) # Part(y)
    BY DEF ArcsInto
  <2>2. x \in V /\ y \in V /\ <<y, x>> \notin O
    BY <1>1, <2>1 DEF Sinks, IsSink
  <2> QED
    BY <1>1, <2>1, <2>2
<1>9. O = R \cup ArcsInto(V, S)
  BY <1>3, <1>7, <1>8
<1>10. R \in SinksNotIn(W, c)
  BY <1>5, <1>6 DEF SinksNotIn
<1> HIDE DEF W
<1> QED
  BY <1>9, <1>10 DEF W

\* And they can be put back.
LEMMA WithSinks ==
  ASSUME NEW V, NEW c, NEW S \in SUBSET In(V, c), S # {},
         NEW R \in SinksNotIn(V \ S, c)
  PROVE  R \cup ArcsInto(V, S) \in SinksAre(V, S)
<1> DEFINE W == V \ S
           O == R \cup ArcsInto(V, S)
<1>1. /\ R \in SUBSET (W \X W) /\ HasSinks(R, W)
      /\ \A x, y \in W : (<<x, y>> \in R \/ <<y, x>> \in R)
                            <=> Part(x) # Part(y)
      /\ Sinks(R, W) \cap In(W, c) = {}
  BY OrientedFacts DEF SinksNotIn
<1>2. \A s \in S : s \in V /\ Part(s) = c
  BY DEF In
<1>3. O \in SUBSET (V \X V)
  <2>1. ArcsInto(V, S) \in SUBSET (V \X V)
    BY <1>2 DEF ArcsInto
  <2> QED
    BY <1>1, <2>1
<1>4. ASSUME NEW x \in V, NEW y \in V
      PROVE  <<x, y>> \in O <=>
                \/ x \in W /\ y \in W /\ <<x, y>> \in R
                \/ x \in W /\ y \in S /\ Part(x) # Part(y)
  BY <1>1, IntoMeans
<1> HIDE DEF O
<1>5. ASSUME NEW x \in V, NEW y \in V
      PROVE  (<<x, y>> \in O \/ <<y, x>> \in O) <=> Part(x) # Part(y)
  <2>1. CASE x \in S /\ y \in S
    BY <1>2, <1>4, <2>1
  <2>2. CASE x \in S /\ y \in W
    BY <1>4, <2>2
  <2>3. CASE x \in W /\ y \in S
    BY <1>4, <2>3
  <2>4. CASE x \in W /\ y \in W
    BY <1>1, <1>4, <2>4
  <2> QED
    BY <2>1, <2>2, <2>3, <2>4
<1>6. \A s \in S : \A y \in V : <<s, y>> \notin O
  BY <1>2, <1>4
<1>7. HasSinks(O, V)
  <2> SUFFICES ASSUME NEW A \in SUBSET V, A # {}
               PROVE  \E x \in A : IsSink(O, A, x)
    BY DEF HasSinks
  <2>1. CASE A \cap S # {}
    BY <1>6, <2>1 DEF IsSink
  <2>2. CASE A \cap S = {}
    <3>1. A \in SUBSET W
      BY <2>2
    <3>2. PICK x \in A : IsSink(R, A, x)
      BY <1>1, <3>1 DEF HasSinks
    <3>3. IsSink(O, A, x)
      BY <1>4, <2>2, <3>1, <3>2 DEF IsSink
    <3> QED
      BY <3>3
  <2> QED
    BY <2>1, <2>2
<1>8. Sinks(O, V) = S
  <2>1. \A s \in S : s \in Sinks(O, V)
    BY <1>2, <1>6 DEF Sinks, IsSink
  <2>2. ASSUME NEW x \in W PROVE x \notin Sinks(O, V)
    <3>1. CASE Part(x) = c
      <4>1. x \notin Sinks(R, W)
        BY <1>1, <3>1 DEF In
      <4>2. PICK y \in W : <<x, y>> \in R
        BY <4>1 DEF Sinks, IsSink
      <4>3. <<x, y>> \in O
        BY <1>4, <4>2
      <4> QED
        BY <4>3 DEF Sinks, IsSink
    <3>2. CASE Part(x) # c
      <4>1. PICK s \in S : TRUE
        OBVIOUS
      <4>2. <<x, s>> \in O /\ s \in V
        BY <1>2, <1>4, <3>2
      <4> QED
        BY <4>2 DEF Sinks, IsSink
    <3> QED
      BY <3>1, <3>2
  <2> QED
    BY <2>1, <2>2 DEF Sinks
<1>9. O \in SinksAre(V, S)
  BY <1>3, <1>5, <1>7, <1>8, OrientedFacts DEF SinksAre
<1> QED
  BY <1>9 DEF O

LEMMA CountWithSinks ==
  ASSUME NEW V, IsFiniteSet(V), NEW c, NEW S \in SUBSET In(V, c), S # {}
  PROVE  Cardinality(SinksAre(V, S)) = Cardinality(SinksNotIn(V \ S, c))
<1> DEFINE W == V \ S
           A == SinksNotIn(W, c)
           B == SinksAre(V, S)
           f == [R \in A |-> R \cup ArcsInto(V, S)]
<1>1. IsFiniteSet(A)
  <2>1. IsFiniteSet(W)
    BY FS_Subset
  <2> QED
    BY <2>1, OrientedAreFinite
<1>2. \A R \in A : f[R] \in B
  BY WithSinks
<1>3. \A R1, R2 \in A : f[R1] = f[R2] => R1 = R2
  <2> TAKE R1 \in A, R2 \in A
  <2> HAVE f[R1] = f[R2]
  <2>1. R1 \in SUBSET (W \X W) /\ R2 \in SUBSET (W \X W)
    BY OrientedFacts DEF SinksNotIn
  <2>2. R1 \cup ArcsInto(V, S) = R2 \cup ArcsInto(V, S)
    OBVIOUS
  <2>3. ArcsInto(V, S) \cap (W \X W) = {}
    BY DEF ArcsInto
  <2> HIDE DEF A, W, f
  <2> QED
    BY <2>1, <2>2, <2>3
<1>4. ASSUME NEW O \in B PROVE \E R \in A : f[R] = O
  <2>1. PICK R \in SinksNotIn(V \ S, c) : O = R \cup ArcsInto(V, S)
    BY WithoutSinks
  <2>2. R \in A /\ f[R] = O
    BY <2>1
  <2> HIDE DEF A, f
  <2> QED
    BY <2>2
<1> HIDE DEF A, B, f
<1>5. OneToOneOnto(f, A, B)
  BY <1>2, <1>3, <1>4 DEF OneToOneOnto
<1>6. Cardinality(B) = Cardinality(A)
  BY <1>1, <1>5, SameSize
<1> QED
  BY <1>6 DEF A, B

-----------------------------------------------------------------------------
(* Binomial coefficients                                                   *)

\* g is what the definition of factorial says, up to x.
Solves(g, x) ==
    /\ g \in [0..x -> Nat \ {0}]
    /\ g[0] = 1
    /\ \A y \in 1..x : g[y] = y * g[y - 1]

LEMMA SolutionsExist == \A x \in Nat : \E g : Solves(g, x)
<1> DEFINE S == {x \in Nat : ~\E g : Solves(g, x)}
<1>1. ASSUME S # {}
      PROVE  FALSE
  <2>1. PICK x \in S : \A y \in S : x <= y
    BY <1>1, LeastNumber
  <2>2. x # 0
    <3>1. Solves([i \in 0..0 |-> 1], 0)
      BY DEF Solves
    <3> QED
      BY <3>1
  <2>3. PICK g : Solves(g, x - 1)
    BY <2>1, <2>2
  <2> DEFINE h == [i \in 0..x |-> IF i = x THEN x * g[x - 1] ELSE g[i]]
  <2>4. x \in Nat \ {0} /\ x - 1 \in 0..(x - 1) /\ g[x - 1] \in Nat \ {0}
    BY <2>2, <2>3 DEF Solves
  <2>5. x * g[x - 1] \in Nat \ {0}
    BY <2>4
  <2>6. \A i \in 0..x : h[i] = IF i = x THEN x * g[x - 1] ELSE g[i]
    OBVIOUS
  <2>7. h \in [0..x -> Nat \ {0}]
    BY <2>3, <2>4, <2>5 DEF Solves
  <2>8. h[0] = 1
    BY <2>3, <2>4, <2>6 DEF Solves
  <2> HIDE DEF h
  <2>9. ASSUME NEW y \in 1..x
        PROVE  h[y] = y * h[y - 1]
    <3>1. h[y - 1] = g[y - 1]
      BY <2>4, <2>6
    <3>2. CASE y = x
      BY <2>6, <3>1, <3>2
    <3>3. CASE y # x
      BY <2>3, <2>4, <2>6, <3>1, <3>3 DEF Solves
    <3> QED
      BY <3>2, <3>3
  <2>10. Solves(h, x)
    BY <2>7, <2>8, <2>9 DEF Solves
  <2> QED
    BY <2>10
<1> QED
  BY <1>1

LEMMA SolutionsAgree ==
  ASSUME NEW x \in Nat, NEW y \in Nat, NEW g, NEW h,
         Solves(g, x), Solves(h, y)
  PROVE  \A i \in 0..x : i \in 0..y => g[i] = h[i]
<1> DEFINE S == {i \in Nat : i \in 0..x /\ i \in 0..y /\ g[i] # h[i]}
<1>1. ASSUME S # {}
      PROVE  FALSE
  <2>1. PICK i \in S : \A j \in S : i <= j
    BY <1>1, LeastNumber
  <2>2. i # 0
    BY DEF Solves
  <2>3. i \in 1..x /\ i \in 1..y /\ g[i - 1] = h[i - 1]
    BY <2>1, <2>2
  <2> QED
    BY <2>3 DEF Solves
<1> QED
  BY <1>1

\* The definition of factorial is met by a function.
LEMMA FactorialFacts ==
  /\ \A x \in Nat : factorial[x] \in Nat \ {0}
  /\ factorial[0] = 1
  /\ \A x \in Nat : factorial[x + 1] = (x + 1) * factorial[x]
<1> DEFINE G(x) == CHOOSE g : Solves(g, x)
           f == [x \in Nat |-> G(x)[x]]
<1>1. \A x \in Nat : Solves(G(x), x)
  BY SolutionsExist
<1> HIDE DEF G
<1>2. \A x \in Nat : f[x] = G(x)[x]
  OBVIOUS
<1>3. \A x \in Nat : f[x] \in Nat \ {0}
  <2> TAKE x \in Nat
  <2>1. x \in 0..x
    OBVIOUS
  <2> QED
    BY <1>1, <2>1 DEF Solves
<1>4. f[0] = 1
  BY <1>1 DEF Solves
<1>5. ASSUME NEW x \in Nat
      PROVE  f[x + 1] = (x + 1) * f[x]
  <2>1. x + 1 \in 1..(x + 1) /\ x + 1 - 1 = x /\ x + 1 \in Nat
    OBVIOUS
  <2>2. G(x + 1)[x + 1] = (x + 1) * G(x + 1)[x]
    <3> DEFINE g == G(x + 1)
    <3>1. Solves(g, x + 1)
      BY <1>1, <2>1
    <3> HIDE DEF g
    <3>2. \A y \in 1..(x + 1) : g[y] = y * g[y - 1]
      BY <3>1 DEF Solves
    <3>3. g[x + 1] = (x + 1) * g[x + 1 - 1]
      BY <2>1, <3>2
    <3> QED
      BY <2>1, <3>3 DEF g
  <2>3. G(x + 1)[x] = G(x)[x]
    <3>1. Solves(G(x), x) /\ Solves(G(x + 1), x + 1)
      BY <1>1, <2>1
    <3>2. x \in 0..x /\ x \in 0..(x + 1)
      OBVIOUS
    <3> QED
      BY <2>1, <3>1, <3>2, SolutionsAgree
  <2> QED
    BY <1>2, <2>1, <2>2, <2>3
<1>6. f = [x \in Nat |-> IF x = 0 THEN 1 ELSE x * f[x - 1]]
  <2>1. ASSUME NEW x \in Nat
        PROVE  f[x] = IF x = 0 THEN 1 ELSE x * f[x - 1]
    <3>1. CASE x = 0
      BY <1>4, <3>1
    <3>2. CASE x # 0
      <4>1. x - 1 \in Nat /\ x - 1 + 1 = x
        BY <3>2
      <4>2. f[x - 1 + 1] = (x - 1 + 1) * f[x - 1]
        BY <4>1, <1>5
      <4> QED
        BY <3>2, <4>1, <4>2
    <3> QED
      BY <3>1, <3>2
  <2>2. f = [x \in Nat |-> f[x]]
    OBVIOUS
  <2> HIDE DEF f
  <2> QED
    BY <2>1, <2>2
<1> HIDE DEF f
<1>7. factorial = [x \in Nat |-> IF x = 0 THEN 1 ELSE x * factorial[x - 1]]
  BY <1>6 DEF factorial
<1>8. \A x \in Nat : factorial[x] = IF x = 0 THEN 1 ELSE x * factorial[x - 1]
  <2> HIDE DEF factorial
  <2> QED
    BY <1>7
<1>9. factorial[0] = 1
  BY <1>8
<1>10. ASSUME NEW x \in Nat
       PROVE  factorial[x + 1] = (x + 1) * factorial[x]
  <2>1. x + 1 \in Nat /\ x + 1 # 0 /\ x + 1 - 1 = x
    OBVIOUS
  <2> QED
    BY <1>8, <2>1
<1>11. \A x \in Nat : factorial[x] \in Nat \ {0}
  <2> DEFINE S == {x \in Nat : factorial[x] \notin Nat \ {0}}
  <2>1. ASSUME S # {}
        PROVE  FALSE
    <3>1. PICK x \in S : \A y \in S : x <= y
      BY <2>1, LeastNumber
    <3>2. x \in Nat /\ x # 0
      BY <1>9
    <3>3. x - 1 \in Nat /\ ~(x <= x - 1)
      BY <3>2
    <3>4. factorial[x - 1] \in Nat \ {0}
      BY <3>1, <3>3
    <3>5. factorial[x] = x * factorial[x - 1]
      BY <1>8, <3>2
    <3>6. \A a, b \in Nat \ {0} : a * b \in Nat \ {0}
      OBVIOUS
    <3> QED
      BY <3>2, <3>4, <3>5, <3>6
  <2> QED
    BY <2>1
<1> QED
  BY <1>9, <1>10, <1>11

LEMMA Quotient ==
  ASSUME NEW a \in Nat, NEW d \in Nat \ {0}, NEW q \in Nat,
         NEW r \in 0..(d - 1), a = q * d + r
  PROVE  a \div d = q
<1>1. a \div d \in Int /\ a = d * (a \div d) + (a % d) /\ a % d \in 0..(d - 1)
  OBVIOUS
<1> DEFINE e == a \div d
           s == a % d
<1>2. e \in Int /\ q * d + r = d * e + s /\ s \in 0..(d - 1)
  BY <1>1
<1> HIDE DEF e, s
<1>3. (q - e) * d = s - r
  BY <1>2
<1>4. ASSUME q - e >= 1 PROVE FALSE
  <2>1. (q - e) * d >= d
    BY <1>2, <1>4
  <2> QED
    BY <1>2, <1>3, <2>1
<1>5. ASSUME q - e <= -1 PROVE FALSE
  <2>1. (q - e) * d <= -d
    BY <1>2, <1>5
  <2> QED
    BY <1>2, <1>3, <2>1
<1>6. q = e
  BY <1>2, <1>4, <1>5
<1> QED
  BY <1>6 DEF e

\* What makes a number the binomial coefficient.
Chooses(q, a, b) ==
    q \in Nat /\ q * (factorial[b] * factorial[a - b]) = factorial[a]

LEMMA ChosenIsChoose ==
  ASSUME NEW a \in Nat, NEW b \in 0..a, NEW q, Chooses(q, a, b)
  PROVE  q = choose(a, b)
<1> DEFINE d == factorial[b] * factorial[a - b]
<1>1. b \in Nat /\ a - b \in Nat
  OBVIOUS
<1>2. factorial[b] \in Nat \ {0} /\ factorial[a - b] \in Nat \ {0}
      /\ factorial[a] \in Nat
  BY <1>1, FactorialFacts
<1>3. d \in Nat \ {0}
  BY <1>2
<1>4. q \in Nat /\ factorial[a] = q * d
  BY DEF Chooses
<1> HIDE DEF d
<1>5. factorial[a] \div d = q
  <2>1. 0 \in 0..(d - 1) /\ factorial[a] = q * d + 0
    BY <1>2, <1>3, <1>4
  <2> QED
    BY <1>2, <1>3, <1>4, <2>1, Quotient
<1> QED
  BY <1>5 DEF choose, d


\* Of the sets of k elements of S, as many hold one element as another.
LEMMA CountSubsetsTwice ==
  ASSUME NEW S, IsFiniteSet(S), NEW k \in Nat \ {0}, NEW q \in Nat,
         \A x \in S : Cardinality(kSubset(k - 1, S \ {x})) = q
  PROVE  /\ IsFiniteSet(kSubset(k, S))
         /\ k * Cardinality(kSubset(k, S)) = q * Cardinality(S)
<1> DEFINE K == kSubset(k, S)
           A == {t \in S \X K : t[1] \in t[2]}
           chosen == [t \in A |-> t[2]]
           element == [t \in A |-> t[1]]
<1>1. IsFiniteSet(K) /\ IsFiniteSet(A)
  <2>1. K \in SUBSET (SUBSET S)
    BY DEF kSubset
  <2>2. IsFiniteSet(K)
    BY <2>1, FS_SUBSET, FS_Subset
  <2> HIDE DEF K
  <2>3. IsFiniteSet(S \X K)
    BY <2>2, FS_Product
  <2>4. A \in SUBSET (S \X K)
    OBVIOUS
  <2> QED
    BY <2>2, <2>3, <2>4, FS_Subset
<1>2. \A T \in K : T \in SUBSET S /\ IsFiniteSet(T) /\ Cardinality(T) = k
  BY FS_Subset DEF kSubset
<1> HIDE DEF K
<1>3. \A t \in A : chosen[t] \in K /\ element[t] \in S
  OBVIOUS
<1>4. ASSUME NEW T \in K PROVE Cardinality(WithKey(A, chosen, T)) = k
  <2> DEFINE f == [x \in T |-> <<x, T>>]
  <2>1. OneToOneOnto(f, T, WithKey(A, chosen, T))
    BY <1>2 DEF OneToOneOnto, WithKey
  <2> HIDE DEF f, A, chosen
  <2> QED
    BY <1>2, <2>1, SameSize
<1>5. ASSUME NEW x \in S PROVE Cardinality(WithKey(A, element, x)) = q
  <2> DEFINE B == WithKey(A, element, x)
             R == kSubset(k - 1, S \ {x})
             f == [t \in B |-> t[2] \ {x}]
  <2>1. ASSUME NEW t \in B
        PROVE  /\ t = <<x, t[2]>> /\ x \in t[2] /\ t[2] \in K
               /\ f[t] \in R
    <3>1. t \in A /\ element[t] = x
      BY DEF WithKey
    <3>2. t = <<x, t[2]>> /\ x \in t[2] /\ t[2] \in K
      BY <3>1
    <3>3. Cardinality(t[2] \ {x}) = k - 1
      <4> DEFINE T == t[2]
      <4>1. x \in T /\ IsFiniteSet(T) /\ Cardinality(T) = k
        BY <1>2, <3>2
      <4> HIDE DEF T
      <4>2. Cardinality(T \ {x}) = Cardinality(T) - 1
        BY <4>1, FS_RemoveElement
      <4> QED
        BY <4>1, <4>2 DEF T
    <3>4. t[2] \ {x} \in SUBSET (S \ {x})
      BY <1>2, <3>2
    <3> QED
      BY <3>2, <3>3, <3>4 DEF kSubset
  <2>2. ASSUME NEW U \in R PROVE \E t \in B : f[t] = U
    <3> DEFINE t == <<x, U \cup {x}>>
    <3>1. U \in SUBSET (S \ {x}) /\ Cardinality(U) = k - 1
      BY DEF kSubset
    <3>2. IsFiniteSet(U)
      BY <3>1, FS_Subset
    <3>3. Cardinality(U \cup {x}) = k
      <4>1. x \notin U
        BY <3>1
      <4>2. Cardinality(U \cup {x}) = Cardinality(U) + 1
        BY <3>2, <4>1, FS_AddElement
      <4> QED
        BY <3>1, <4>2
    <3>4. U \cup {x} \in K
      BY <3>1, <3>3 DEF K, kSubset
    <3>5. t \in B
      BY <3>4 DEF WithKey
    <3>6. t[2] \ {x} = U
      BY <3>1
    <3> QED
      BY <3>5, <3>6
  <2>3. \A s, t \in B : f[s] = f[t] => s = t
    <3> TAKE s \in B, t \in B
    <3> HAVE f[s] = f[t]
    <3>1. s[2] \ {x} = t[2] \ {x} /\ x \in s[2] /\ x \in t[2]
      BY <2>1
    <3>2. s[2] = t[2]
      <4> DEFINE T == s[2]
                 U == t[2]
      <4>1. T \ {x} = U \ {x} /\ x \in T /\ x \in U
        BY <3>1
      <4> HIDE DEF T, U
      <4>2. T = U
        BY <4>1
      <4> QED
        BY <4>2 DEF T, U
    <3> QED
      BY <2>1, <3>2
  <2>4. IsFiniteSet(B)
    <3>1. B \in SUBSET A
      BY DEF WithKey
    <3> QED
      BY <1>1, <3>1, FS_Subset
  <2> HIDE DEF B, R, f
  <2>5. OneToOneOnto(f, B, R)
    BY <2>1, <2>2, <2>3 DEF OneToOneOnto
  <2>6. Cardinality(R) = Cardinality(B)
    BY <2>4, <2>5, SameSize
  <2> QED
    BY <2>6 DEF B, R
<1> HIDE DEF A, chosen, element
<1>6. Cardinality(A) = k * Cardinality(K)
  BY <1>1, <1>3, <1>4, CountWithMultiplicity
<1>7. Cardinality(A) = q * Cardinality(S)
  BY <1>1, <1>3, <1>5, CountWithMultiplicity
<1> QED
  BY <1>1, <1>6, <1>7 DEF K

LEMMA SubsetsAreChosen ==
  ASSUME NEW S, IsFiniteSet(S), NEW k \in 0..Cardinality(S)
  PROVE  Chooses(Cardinality(kSubset(k, S)), Cardinality(S), k)
<1> DEFINE Right(T, j) == Chooses(Cardinality(kSubset(j, T)), Cardinality(T), j)
           X == {n \in Nat : \E T : /\ IsFiniteSet(T) /\ Cardinality(T) = n
                                    /\ \E j \in 0..n : ~Right(T, j)}
<1>1. ASSUME X # {} PROVE FALSE
  <2>1. PICK n \in X : \A m \in X : n <= m
    <3>1. X \in SUBSET Nat
      OBVIOUS
    <3> HIDE DEF X
    <3> QED
      BY <1>1, <3>1, LeastNumber
  <2>2. PICK T : /\ IsFiniteSet(T) /\ Cardinality(T) = n
                 /\ \E j \in 0..n : ~Right(T, j)
    OBVIOUS
  <2>3. PICK j \in 0..n : ~Right(T, j)
    BY <2>2
  <2>4. n \in Nat /\ j \in Nat
    OBVIOUS
  <2>5. CASE j = 0
    <3>1. kSubset(0, T) = {{}}
      <4>1. ASSUME NEW s \in SUBSET T, Cardinality(s) = 0 PROVE s = {}
        BY <2>2, <4>1, FS_Subset, FS_EmptySet
      <4> QED
        BY <4>1, FS_EmptySet DEF kSubset
    <3>2. Cardinality(kSubset(0, T)) = 1
      BY <3>1, FS_Singleton
    <3>3. factorial[0] = 1 /\ factorial[n] \in Nat /\ n - 0 = n
      BY <2>4, FactorialFacts
    <3>4. Chooses(1, n, 0)
      BY <3>3 DEF Chooses
    <3> QED
      BY <2>2, <2>3, <2>5, <3>2, <3>4
  <2>6. CASE j # 0
    <3> DEFINE q == choose(n - 1, j - 1)
    <3>1. n - 1 \in Nat /\ j - 1 \in 0..(n - 1) /\ n - 1 \notin X
      BY <2>1, <2>4, <2>6
    <3>2. ASSUME NEW x \in T
          PROVE  /\ Cardinality(kSubset(j - 1, T \ {x})) = q
                 /\ Chooses(q, n - 1, j - 1)
      <4>1. IsFiniteSet(T \ {x}) /\ Cardinality(T \ {x}) = n - 1
        BY <2>2, FS_RemoveElement
      <4>2. Right(T \ {x}, j - 1)
        BY <3>1, <4>1
      <4> HIDE DEF X
      <4>3. Chooses(Cardinality(kSubset(j - 1, T \ {x})), n - 1, j - 1)
        BY <4>1, <4>2
      <4> QED
        BY <3>1, <4>3, ChosenIsChoose
    <3>3. PICK x \in T : TRUE
      <4>1. T # {}
        BY <2>2, <2>4, <3>1, FS_EmptySet
      <4> QED
        BY <4>1
    <3> HIDE DEF q, X
    <3>4. q \in Nat /\ q * (factorial[j - 1] * factorial[n - 1 - (j - 1)])
                          = factorial[n - 1]
      BY <3>2, <3>3 DEF Chooses
    <3> DEFINE c == Cardinality(kSubset(j, T))
               a == factorial[j - 1]
               b == factorial[n - j]
    <3>5. j * c = q * n /\ c \in Nat
      <4>1. j \in Nat \ {0}
        BY <2>4, <2>6
      <4>2. /\ IsFiniteSet(kSubset(j, T))
            /\ j * Cardinality(kSubset(j, T)) = q * Cardinality(T)
        BY <2>2, <3>2, <3>4, <4>1, CountSubsetsTwice
      <4> QED
        BY <2>2, <4>2, FS_CardinalityType
    <3>6. /\ factorial[j] = j * a /\ factorial[n] = n * factorial[n - 1]
          /\ a \in Nat /\ b \in Nat /\ n - 1 - (j - 1) = n - j
      <4>1. factorial[j - 1 + 1] = (j - 1 + 1) * factorial[j - 1]
        BY <3>1, FactorialFacts
      <4>2. factorial[n - 1 + 1] = (n - 1 + 1) * factorial[n - 1]
        BY <3>1, FactorialFacts
      <4>3. j - 1 + 1 = j /\ n - 1 + 1 = n /\ j - 1 \in Nat /\ n - j \in Nat
            /\ n - 1 - (j - 1) = n - j
        BY <2>4, <3>1
      <4> QED
        BY <4>1, <4>2, <4>3, FactorialFacts
    <3> HIDE DEF c, a, b
    <3>7. c * ((j * a) * b) = factorial[n]
      <4>1. a * b \in Nat
        BY <3>6
      <4>2. c * ((j * a) * b) = (j * c) * (a * b)
        BY <2>4, <3>5, <3>6
      <4>3. (q * n) * (a * b) = n * (q * (a * b))
        BY <2>4, <3>4, <4>1
      <4>4. q * (a * b) = factorial[n - 1]
        BY <3>4, <3>6 DEF a, b
      <4> QED
        BY <3>5, <3>6, <4>2, <4>3, <4>4
    <3>8. Chooses(c, n, j)
      BY <3>5, <3>6, <3>7 DEF Chooses, b
    <3> QED
      BY <2>2, <2>3, <3>8 DEF c
  <2> QED
    BY <2>5, <2>6
<1>2. Cardinality(S) \in Nat /\ Cardinality(S) \notin X
  BY <1>1, FS_CardinalityType
<1> QED
  BY <1>2

\* choose counts subsets.
LEMMA CountSubsets ==
  ASSUME NEW S, IsFiniteSet(S), NEW k \in 0..Cardinality(S)
  PROVE  /\ IsFiniteSet(kSubset(k, S))
         /\ Cardinality(kSubset(k, S)) = choose(Cardinality(S), k)
<1>1. kSubset(k, S) \in SUBSET (SUBSET S)
  BY DEF kSubset
<1>2. IsFiniteSet(kSubset(k, S))
  BY <1>1, FS_SUBSET, FS_Subset
<1>3. Cardinality(S) \in Nat
  BY FS_CardinalityType
<1>4. Chooses(Cardinality(kSubset(k, S)), Cardinality(S), k)
  BY SubsetsAreChosen
<1> QED
  BY <1>2, <1>3, <1>4, ChosenIsChoose

-----------------------------------------------------------------------------
(* Vertices that are renamed, with the parts kept apart                    *)

\* f renames the vertices of V, and any two are in one part before iff they are
\* in one part afterwards.
SameParts(f, V, W) ==
    /\ OneToOneOnto(f, V, W)
    /\ \A x, y \in V : Part(f[x]) = Part(f[y]) <=> Part(x) = Part(y)

LEMMA SamePartsAreIsomorphic ==
  ASSUME NEW f, NEW V, NEW W, SameParts(f, V, W)
  PROVE  IsIsomorphism(f, Multi(V), Multi(W))
<1>1. Multi(V).node = V /\ Multi(W).node = W
  BY DEF Multi
<1>2. ASSUME NEW x \in V, NEW y \in V
      PROVE  Joined(Multi(V), x, y) <=> Joined(Multi(W), f[x], f[y])
  <2>1. f[x] \in W /\ f[y] \in W
    BY DEF SameParts, OneToOneOnto
  <2>2. /\ Joined(Multi(V), x, y) <=> Part(x) # Part(y)
        /\ Joined(Multi(W), f[x], f[y]) <=> Part(f[x]) # Part(f[y])
    BY <2>1, JoinedInMulti
  <2> QED
    BY <2>2 DEF SameParts
<1> QED
  BY <1>1, <1>2 DEF IsIsomorphism, SameParts

\* The names of the vertices do not matter.
LEMMA SamePartsCountTheSame ==
  ASSUME NEW V, IsFiniteSet(V), NEW W, NEW f, SameParts(f, V, W)
  PROVE  /\ Cardinality(Oriented(W)) = Cardinality(Oriented(V))
         /\ \A c, d : (\A x \in V : Part(x) = c <=> Part(f[x]) = d)
               => Cardinality(SinksIn(W, d)) = Cardinality(SinksIn(V, c))
<1> DEFINE G == Multi(V)
           H == Multi(W)
           A == Oriented(V)
           B == Oriented(W)
           push == [O \in A |-> Push(f, O)]
<1>1. IsIsomorphism(f, G, H) /\ G.node = V /\ H.node = W
  BY SamePartsAreIsomorphic DEF Multi
<1>2. OneToOneOnto(push, A, B)
  BY <1>1, IsomorphicOrientations DEF Oriented
<1>3. Cardinality(B) = Cardinality(A)
  <2> HIDE DEF A, B, push
  <2> QED
    BY <1>2, OrientedAreFinite, SameSize DEF A
<1>4. ASSUME NEW c, NEW d, \A x \in V : Part(x) = c <=> Part(f[x]) = d
      PROVE  Cardinality(SinksIn(W, d)) = Cardinality(SinksIn(V, c))
  <2>1. ASSUME NEW O \in A
        PROVE  /\ push[O] = Push(f, O)
               /\ O \in SinksIn(V, c) <=> Push(f, O) \in SinksIn(W, d)
    <3>1. push[O] = Push(f, O) /\ Push(f, O) \in B
      BY <1>2 DEF OneToOneOnto
    <3>2. Orients(O, G, G.node)
      BY <1>1 DEF Oriented, Acyclic
    <3>3. {f[y] : y \in V} = W /\ \A x \in V : f[x] \in W
      BY DEF SameParts, OneToOneOnto
    <3>4. ASSUME NEW x \in V
          PROVE  IsSink(O, V, x) <=> IsSink(Push(f, O), W, f[x])
      <4>1. IsSink(O, V, x) <=> IsSink(Push(f, O), {f[y] : y \in V}, f[x])
        BY <1>1, <3>2, SinkOfImage
      <4> QED
        BY <3>3, <4>1
    <3> HIDE DEF push, A, B
    <3>5. Sinks(O, V) \subseteq In(V, c) <=> Sinks(Push(f, O), W) \subseteq In(W, d)
      <4>1. ASSUME Sinks(O, V) \subseteq In(V, c), NEW a \in Sinks(Push(f, O), W)
            PROVE  a \in In(W, d)
        <5>1. PICK x \in V : a = f[x]
          BY <3>3 DEF Sinks
        <5>2. x \in Sinks(O, V)
          BY <3>4, <5>1 DEF Sinks
        <5> QED
          BY <1>4, <3>3, <4>1, <5>1, <5>2 DEF In
      <4>2. ASSUME Sinks(Push(f, O), W) \subseteq In(W, d), NEW x \in Sinks(O, V)
            PROVE  x \in In(V, c)
        <5>1. x \in V /\ f[x] \in Sinks(Push(f, O), W)
          BY <3>3, <3>4 DEF Sinks
        <5> QED
          BY <1>4, <4>2, <5>1 DEF In
      <4> QED
        BY <4>1, <4>2
    <3> QED
      BY <3>1, <3>5 DEF SinksIn, A, B
  <2>2. SinksIn(V, c) \in SUBSET A /\ SinksIn(W, d) \in SUBSET B
    BY DEF SinksIn
  <2>3. IsFiniteSet(SinksIn(V, c))
    BY OrientedAreFinite
  <2> HIDE DEF A, B, push
  <2>4. OneToOneOnto(push, SinksIn(V, c), SinksIn(W, d))
    BY <1>2, <2>1, <2>2 DEF OneToOneOnto
  <2> QED
    BY <2>3, <2>4, SameSize
<1> QED
  BY <1>3, <1>4

-----------------------------------------------------------------------------
(* Complete graphs with fewer vertices                                     *)

LEMMA InPart ==
  ASSUME NEW p \in Seq(Nat), NEW c \in DOMAIN p
  PROVE  In(Vertices(p), c) = VerticesOf(p, c)
BY VerticesOfPart DEF In

\* Some vertices of a part are taken away.
LEMMA PartShrinks ==
  ASSUME NEW p \in Seq(Nat \ {0}), NEW c \in DOMAIN p,
         NEW S \in SUBSET VerticesOf(p, c), Cardinality(S) \in 1..(p[c] - 1)
  PROVE  LET q == [p EXCEPT ![c] = @ - Cardinality(S)]
         IN  /\ q \in Seq(Nat \ {0}) /\ DOMAIN q = DOMAIN p
             /\ \E f : /\ SameParts(f, Vertices(p) \ S, Vertices(q))
                       /\ \A x \in Vertices(p) \ S : Part(f[x]) = Part(x)
<1> DEFINE j == Cardinality(S)
           q == [p EXCEPT ![c] = @ - j]
           V == Vertices(p)
           C == VerticesOf(p, c)
           D == VerticesOf(q, c)
<1>1. p \in Seq(Nat) /\ DOMAIN p = 1..Len(p) /\ Len(p) \in Nat
  OBVIOUS
<1>2. /\ q \in Seq(Nat \ {0}) /\ q \in Seq(Nat) /\ DOMAIN q = DOMAIN p
      /\ q[c] = p[c] - j /\ \A d \in DOMAIN p : d # c => q[d] = p[d]
  <2>1. j \in Nat /\ p[c] - j \in Nat \ {0}
    <3>1. p[c] \in Nat
      BY <1>1
    <3> HIDE DEF j
    <3> QED
      BY <3>1 DEF j
  <2> HIDE DEF j
  <2> QED
    BY <2>1
<1> HIDE DEF q, j
<1>3. IsFiniteSet(C) /\ Cardinality(C) = p[c] /\ p[c] \in Nat
  BY <1>1, PartSize
<1>4. IsFiniteSet(D) /\ Cardinality(D) = p[c] - j
  BY <1>2, PartSize
<1>5. IsFiniteSet(C \ S) /\ Cardinality(C \ S) = p[c] - j
  <2>1. IsFiniteSet(S) /\ C \cap S = S
    BY <1>3, FS_Subset
  <2> HIDE DEF C
  <2>2. Cardinality(C \ S) = Cardinality(C) - Cardinality(C \cap S)
    BY <1>3, FS_Difference
  <2>3. IsFiniteSet(C \ S)
    BY <1>3, FS_Difference
  <2> QED
    BY <1>3, <2>1, <2>2, <2>3 DEF j
<1> HIDE DEF C, D
<1>6. PICK g \in Bijection(C \ S, D) : TRUE
  <2>1. ExistsBijection(C \ S, D)
    BY <1>4, <1>5, FS_SameCardinalityBij
  <2> QED
    BY <2>1 DEF ExistsBijection
<1>7. OneToOneOnto(g, C \ S, D)
  <2>1. g \in Injection(C \ S, D) /\ g \in Surjection(C \ S, D)
    BY <1>6 DEF Bijection
  <2> QED
    BY <2>1 DEF Injection, Surjection, IsInjective, OneToOneOnto
<1> DEFINE f == [x \in V \ S |-> IF Part(x) = c THEN g[x] ELSE x]
<1>8. /\ \A x \in V : Part(x) \in DOMAIN p /\ (x \in C <=> Part(x) = c)
      /\ \A x \in V : Part(x) # c => x \in Vertices(q)
      /\ \A x \in Vertices(q) : Part(x) # c => x \in V
      /\ \A x \in Vertices(q) : x \in D <=> Part(x) = c
      /\ D \subseteq Vertices(q) /\ C \subseteq V
  <2>1. /\ C = {x \in V : Part(x) = c} /\ D = {x \in Vertices(q) : Part(x) = c}
    BY <1>1, <1>2, VerticesOfPart DEF C, D
  <2>2. \A x \in V : /\ x = <<Part(x), x[2]>> /\ Part(x) \in DOMAIN p
                     /\ x[2] \in 1..p[Part(x)]
    BY VertexFacts
  <2>3. \A x \in Vertices(q) :
           /\ x = <<Part(x), x[2]>> /\ Part(x) \in DOMAIN p
           /\ x[2] \in 1..q[Part(x)]
    BY <1>2, VertexFacts
  <2>4. ASSUME NEW x \in V, Part(x) # c PROVE x \in Vertices(q)
    <3>1. x[2] \in 1..q[Part(x)] /\ Part(x) \in DOMAIN q /\ x = <<Part(x), x[2]>>
      BY <1>2, <2>2, <2>4
    <3>2. <<Part(x), x[2]>> \in Vertices(q)
      BY <3>1, VertexFacts
    <3> QED
      BY <3>1, <3>2
  <2>5. ASSUME NEW x \in Vertices(q), Part(x) # c PROVE x \in V
    <3>1. x[2] \in 1..p[Part(x)] /\ Part(x) \in DOMAIN p /\ x = <<Part(x), x[2]>>
      BY <1>2, <2>3, <2>5
    <3>2. <<Part(x), x[2]>> \in V
      BY <3>1, VertexFacts
    <3> QED
      BY <3>1, <3>2
  <2> QED
    BY <2>1, <2>2, <2>4, <2>5
<1>9. \A x \in V \ S : f[x] = IF Part(x) = c THEN g[x] ELSE x
  OBVIOUS
<1> HIDE DEF f, V
<1>10. ASSUME NEW x \in V \ S PROVE f[x] \in Vertices(q) /\ Part(f[x]) = Part(x)
  <2>1. CASE Part(x) = c
    <3>1. f[x] \in D
      BY <1>7, <1>8, <1>9, <2>1 DEF OneToOneOnto
    <3> QED
      BY <1>8, <2>1, <3>1
  <2>2. CASE Part(x) # c
    BY <1>8, <1>9, <2>2
  <2> QED
    BY <2>1, <2>2
<1>11. ASSUME NEW x \in V \ S, NEW y \in V \ S, f[x] = f[y] PROVE x = y
  <2>1. Part(x) = Part(y)
    BY <1>10, <1>11
  <2>2. CASE Part(x) = c
    BY <1>7, <1>8, <1>9, <1>11, <2>1, <2>2 DEF OneToOneOnto
  <2>3. CASE Part(x) # c
    BY <1>9, <1>11, <2>1, <2>3
  <2> QED
    BY <2>2, <2>3
<1>12. ASSUME NEW y \in Vertices(q) PROVE \E x \in V \ S : f[x] = y
  <2>1. CASE Part(y) = c
    <3>1. PICK x \in C \ S : g[x] = y
      BY <1>7, <1>8, <2>1 DEF OneToOneOnto
    <3>2. x \in V \ S /\ Part(x) = c
      BY <1>8
    <3> QED
      BY <1>9, <3>1, <3>2
  <2>2. CASE Part(y) # c
    <3>1. y \in V \ S
      BY <1>8, <2>2 DEF C
    <3> QED
      BY <1>9, <2>2, <3>1
  <2> QED
    BY <2>1, <2>2
<1>13. SameParts(f, V \ S, Vertices(q))
  <2>1. OneToOneOnto(f, V \ S, Vertices(q))
    BY <1>10, <1>11, <1>12 DEF OneToOneOnto
  <2> QED
    BY <1>10, <2>1 DEF SameParts
<1> QED
  BY <1>2, <1>10, <1>13 DEF q, j, V

\* A whole part is taken away.
LEMMA PartVanishes ==
  ASSUME NEW p \in Seq(Nat \ {0}), NEW c \in DOMAIN p
  PROVE  LET q == RemoveAt(p, c)
         IN  /\ q \in Seq(Nat \ {0})
             /\ \E f : SameParts(f, Vertices(p) \ VerticesOf(p, c), Vertices(q))
<1> DEFINE q == RemoveAt(p, c)
           V == Vertices(p)
           W == V \ VerticesOf(p, c)
           f == [x \in W |-> <<IF Part(x) < c THEN Part(x) ELSE Part(x) - 1, x[2]>>]
<1>1. p \in Seq(Nat) /\ DOMAIN p = 1..Len(p) /\ Len(p) \in Nat /\ c \in 1..Len(p)
  OBVIOUS
<1>2. /\ q \in Seq(Nat \ {0}) /\ Len(q) = Len(p) - 1
      /\ \A j \in 1..(Len(p) - 1) : q[j] = IF j < c THEN p[j] ELSE p[j + 1]
  BY <1>1, RemoveAtFacts
<1> HIDE DEF q
<1>3. DOMAIN q = 1..(Len(p) - 1)
  BY <1>2
<1>4. \A x \in W : /\ x = <<Part(x), x[2]>> /\ Part(x) \in 1..Len(p)
                   /\ Part(x) # c /\ x[2] \in 1..p[Part(x)]
  <2>1. W = {x \in V : Part(x) # c}
    BY <1>1, VerticesOfPart
  <2> QED
    BY <1>1, <2>1, VertexFacts
<1>5. \A x : x \in 1..Len(p) /\ x # c => \A i \in 1..p[x] : <<x, i>> \in W
  <2>1. W = {x \in V : Part(x) # c}
    BY <1>1, VerticesOfPart
  <2> QED
    BY <1>1, <2>1, VertexFacts DEF Part
<1>6. \A x \in Vertices(q) : /\ x = <<Part(x), x[2]>>
                             /\ Part(x) \in 1..(Len(p) - 1)
                             /\ x[2] \in 1..q[Part(x)]
  BY <1>3, VertexFacts
<1>7. \A d \in 1..(Len(p) - 1) : \A i \in 1..q[d] : <<d, i>> \in Vertices(q)
  BY <1>3, VertexFacts
<1>8. \A x \in W : /\ Part(f[x]) = IF Part(x) < c THEN Part(x) ELSE Part(x) - 1
                   /\ f[x] = <<Part(f[x]), x[2]>>
  BY DEF Part
<1> HIDE DEF f, W, V
<1>9. ASSUME NEW x \in W PROVE f[x] \in Vertices(q)
  <2>1. Part(f[x]) \in 1..(Len(p) - 1) /\ q[Part(f[x])] = p[Part(x)]
    <3> DEFINE a == Part(x)
    <3>1. a \in 1..Len(p) /\ a # c
      BY <1>4
    <3>2. Part(f[x]) = IF a < c THEN a ELSE a - 1
      BY <1>8
    <3> HIDE DEF a
    <3>3. CASE a < c
      <4>1. a \in 1..(Len(p) - 1)
        BY <1>1, <3>1, <3>3
      <4> QED
        BY <1>2, <3>2, <3>3, <4>1 DEF a
    <3>4. CASE ~(a < c)
      <4>1. a - 1 \in 1..(Len(p) - 1) /\ ~(a - 1 < c) /\ a - 1 + 1 = a
        BY <1>1, <3>1, <3>4
      <4> QED
        BY <1>2, <3>2, <3>4, <4>1 DEF a
    <3> QED
      BY <3>3, <3>4
  <2>2. <<Part(f[x]), x[2]>> \in Vertices(q)
    BY <1>4, <1>7, <2>1
  <2> QED
    BY <1>8, <2>2
<1>10. ASSUME NEW x \in W, NEW y \in W
       PROVE  Part(f[x]) = Part(f[y]) <=> Part(x) = Part(y)
  <2> DEFINE a == Part(x)
             b == Part(y)
  <2>1. a \in 1..Len(p) /\ a # c /\ b \in 1..Len(p) /\ b # c
    BY <1>4
  <2>2. /\ Part(f[x]) = IF a < c THEN a ELSE a - 1
        /\ Part(f[y]) = IF b < c THEN b ELSE b - 1
    BY <1>8
  <2> HIDE DEF a, b
  <2>3. (IF a < c THEN a ELSE a - 1) = (IF b < c THEN b ELSE b - 1) <=> a = b
    BY <1>1, <2>1
  <2> QED
    BY <2>2, <2>3 DEF a, b
<1>11. ASSUME NEW x \in W, NEW y \in W, f[x] = f[y] PROVE x = y
  <2>1. Part(x) = Part(y)
    BY <1>10, <1>11
  <2>2. <<Part(f[x]), x[2]>> = <<Part(f[y]), y[2]>>
    BY <1>8, <1>11
  <2>3. x[2] = y[2]
    BY <2>2
  <2>4. x = <<Part(x), x[2]>> /\ y = <<Part(y), y[2]>>
    BY <1>4
  <2> QED
    BY <2>1, <2>3, <2>4
<1>12. ASSUME NEW y \in Vertices(q) PROVE \E x \in W : f[x] = y
  <2> DEFINE d == IF Part(y) < c THEN Part(y) ELSE Part(y) + 1
             x == <<d, y[2]>>
  <2>1. /\ d \in 1..Len(p) /\ d # c /\ q[Part(y)] = p[d]
        /\ (IF d < c THEN d ELSE d - 1) = Part(y)
    <3> DEFINE b == Part(y)
               n == Len(p)
    <3>1. b \in 1..(n - 1) /\ c \in 1..n /\ n \in Nat
      BY <1>1, <1>6
    <3>2. d = IF b < c THEN b ELSE b + 1
      OBVIOUS
    <3> HIDE DEF b, d
    <3>3. q[b] = IF b < c THEN p[b] ELSE p[b + 1]
      BY <1>2, <3>1
    <3> HIDE DEF n
    <3>4. d \in 1..n /\ d # c /\ (IF d < c THEN d ELSE d - 1) = b
      BY <3>1, <3>2
    <3>5. q[b] = p[d]
      BY <3>2, <3>3
    <3> QED
      BY <3>4, <3>5 DEF b, n
  <2>2. Part(x) = d /\ x[2] = y[2]
    BY DEF Part
  <2> HIDE DEF d
  <2>3. x \in W
    BY <1>5, <1>6, <2>1
  <2>4. f[x] = <<Part(y), y[2]>>
    <3> HIDE DEF x
    <3>1. Part(f[x]) = Part(y) /\ f[x] = <<Part(f[x]), y[2]>>
      BY <1>8, <2>1, <2>2, <2>3
    <3> QED
      BY <3>1
  <2> QED
    BY <1>6, <2>3, <2>4
<1>13. SameParts(f, W, Vertices(q))
  BY <1>9, <1>10, <1>11, <1>12 DEF SameParts, OneToOneOnto
<1> QED
  BY <1>2, <1>13 DEF q, W, V

-----------------------------------------------------------------------------
(* ComputeUnsafeForComponent: orientations by the part of their sinks      *)

\* The orientations of the complete graph with the parts p.
CountIn(p, c) == Cardinality(SinksIn(Vertices(p), c))
CountAll(p) == Cardinality(Oriented(Vertices(p)))

LEMMA DomainIsFinite ==
  ASSUME NEW S, NEW s \in Seq(S)
  PROVE  IsFiniteSet(DOMAIN s)
<1>1. DOMAIN s = 1..Len(s) /\ Len(s) \in Nat
  OBVIOUS
<1> QED
  BY <1>1, FS_Interval

LEMMA CountsOfOnePart ==
  ASSUME NEW p \in Seq(Nat \ {0}), Len(p) <= 1
  PROVE  CountAll(p) = 1
<1> DEFINE V == Vertices(p)
<1>1. \A x, y \in V : Part(x) = Part(y)
  <2>1. Len(p) \in Nat /\ DOMAIN p = 1..Len(p)
    OBVIOUS
  <2>2. \A a, b \in DOMAIN p : a = b
    BY <2>1
  <2> QED
    BY <2>2, VertexFacts
<1> HIDE DEF V
<1>2. {} \in Oriented(V)
  <2>1. HasSinks({}, V)
    BY DEF HasSinks, IsSink
  <2> QED
    BY <1>1, <2>1, OrientedFacts
<1>3. ASSUME NEW O \in Oriented(V) PROVE O = {}
  <2>1. /\ O \in SUBSET (V \X V)
        /\ \A x, y \in V : <<x, y>> \in O => Part(x) # Part(y)
    BY OrientedFacts
  <2> QED
    BY <1>1, <2>1
<1>4. Oriented(V) = {{}}
  BY <1>2, <1>3
<1> QED
  BY <1>4, FS_Singleton DEF CountAll, V

\* All orientations, by the part of their sinks.
LEMMA CountsOfPartsAdd ==
  ASSUME NEW p \in Seq(Nat \ {0}), p # << >>,
         NEW f, \A c \in DOMAIN p : f[c] = CountIn(p, c)
  PROVE  SumFunctionOnSet(f, DOMAIN p) = CountAll(p)
<1> DEFINE V == Vertices(p)
<1>1. p \in Seq(Nat) /\ DOMAIN p = 1..Len(p) /\ Len(p) \in Nat /\ 1 \in DOMAIN p
  OBVIOUS
<1>2. IsFiniteSet(V) /\ IsFiniteSet(DOMAIN p)
  BY <1>1, VerticesAreFinite, FS_Interval
<1>3. <<1, 1>> \in V
  <2>1. p[1] \in Nat \ {0}
    BY <1>1
  <2>2. 1 \in 1..p[1]
    BY <2>1
  <2> QED
    BY <1>1, <2>2, VertexFacts
<1>4. \A x \in V : Part(x) \in DOMAIN p
  BY VertexFacts
<1>5. \A c \in DOMAIN p : f[c] = Cardinality(SinksIn(V, c))
  BY DEF CountIn
<1> HIDE DEF V
<1>6. SumFunctionOnSet(f, DOMAIN p) = Cardinality(Oriented(V))
  BY <1>2, <1>3, <1>4, <1>5, CountBySinkPart
<1> QED
  BY <1>6 DEF CountAll, V

\* Some vertices of part c are the sinks.
LEMMA CountSomeSinks ==
  ASSUME NEW p \in Seq(Nat \ {0}), NEW c \in DOMAIN p,
         NEW S \in SUBSET VerticesOf(p, c), Cardinality(S) \in 1..(p[c] - 1),
         NEW f, \A d \in DOMAIN p :
                    f[d] = CountIn([p EXCEPT ![c] = @ - Cardinality(S)], d)
  PROVE  Cardinality(SinksAre(Vertices(p), S)) = SumFunctionOnSet(f, DOMAIN p \ {c})
<1> DEFINE q == [p EXCEPT ![c] = @ - Cardinality(S)]
           V == Vertices(p)
           W == V \ S
<1>1. p \in Seq(Nat) /\ IsFiniteSet(DOMAIN p)
  BY DomainIsFinite
<1>2. IsFiniteSet(V) /\ IsFiniteSet(W)
  BY <1>1, VerticesAreFinite, FS_Difference
<1>3. PICK h : SameParts(h, W, Vertices(q)) /\ \A x \in W : Part(h[x]) = Part(x)
  BY PartShrinks
<1>4. S \in SUBSET In(V, c)
  BY <1>1, InPart
<1>5. S # {}
  <2>1. S = {} => Cardinality(S) = 0
    BY FS_EmptySet
  <2> QED
    BY <2>1
<1>6. Cardinality(SinksAre(V, S)) = Cardinality(SinksNotIn(W, c))
  BY <1>2, <1>4, <1>5, CountWithSinks
<1>7. W # {}
  <2>1. Cardinality(VerticesOf(p, c)) = p[c] /\ p[c] \in Nat
    BY <1>1, PartSize
  <2>2. S # VerticesOf(p, c)
    BY <2>1
  <2>3. PICK x \in VerticesOf(p, c) : x \notin S
    BY <2>2
  <2>4. VerticesOf(p, c) \subseteq V
    BY <1>1, VerticesOfPart
  <2> QED
    BY <2>3, <2>4
<1>8. \A x \in W : Part(x) \in DOMAIN p
  BY VertexFacts
<1> HIDE DEF W, V, q
<1>9. \A d \in DOMAIN p : f[d] = Cardinality(SinksIn(W, d))
  <2> TAKE d \in DOMAIN p
  <2>1. \A x \in W : Part(x) = d <=> Part(h[x]) = d
    BY <1>3
  <2>2. Cardinality(SinksIn(Vertices(q), d)) = Cardinality(SinksIn(W, d))
    BY <1>2, <1>3, <2>1, SamePartsCountTheSame
  <2> QED
    BY <2>2 DEF CountIn, q
<1> DEFINE D == DOMAIN p
<1>10. SumFunctionOnSet(f, D \ {c}) = Cardinality(SinksNotIn(W, c))
  <2>1. /\ c \in D /\ IsFiniteSet(D) /\ \A x \in W : Part(x) \in D
        /\ \A d \in D : f[d] = Cardinality(SinksIn(W, d))
    BY <1>1, <1>8, <1>9
  <2> HIDE DEF D
  <2>2. \A d \in D : SumFunctionOnSet(f, D \ {d}) = Cardinality(SinksNotIn(W, d))
    BY <1>2, <1>7, <2>1, CountBySinkPart
  <2> QED
    BY <2>1, <2>2
<1> QED
  BY <1>6, <1>10 DEF V

\* All vertices of part c are sinks.
LEMMA CountAllSinks ==
  ASSUME NEW p \in Seq(Nat \ {0}), NEW c \in DOMAIN p
  PROVE  Cardinality(SinksAre(Vertices(p), VerticesOf(p, c)))
            = CountAll(RemoveAt(p, c))
<1> DEFINE q == RemoveAt(p, c)
           V == Vertices(p)
           S == VerticesOf(p, c)
           W == V \ S
<1>1. p \in Seq(Nat) /\ p[c] \in Nat \ {0}
  OBVIOUS
<1>2. IsFiniteSet(V) /\ IsFiniteSet(W)
  BY <1>1, VerticesAreFinite, FS_Difference
<1>3. PICK h : SameParts(h, W, Vertices(q))
  BY PartVanishes
<1>4. S = In(V, c)
  BY <1>1, InPart
<1>5. S # {}
  <2>1. S = {} => Cardinality(S) = 0
    BY FS_EmptySet
  <2> QED
    BY <1>1, <2>1, PartSize
<1> HIDE DEF S, V, q
<1>6. Cardinality(SinksAre(V, S)) = Cardinality(SinksNotIn(W, c))
  BY <1>2, <1>4, <1>5, CountWithSinks
<1>7. SinksNotIn(W, c) = Oriented(W)
  <2>1. In(W, c) = {}
    BY <1>4 DEF In
  <2> QED
    BY <2>1 DEF SinksNotIn
<1>8. Cardinality(Oriented(Vertices(q))) = Cardinality(Oriented(W))
  BY <1>2, <1>3, SamePartsCountTheSame
<1> QED
  BY <1>6, <1>7, <1>8 DEF CountAll, S, V, q

\* How many have j sinks, all of them in part c.
ManySinks(p, c, j) ==
    {O \in SinksIn(Vertices(p), c) : Cardinality(Sinks(O, Vertices(p))) = j}

\* The orientations with their sinks in part c, by the number of these.
LEMMA CountByManySinks ==
  ASSUME NEW p \in Seq(Nat \ {0}), NEW c \in DOMAIN p,
         NEW f, \A j \in 1..p[c] : f[j] = Cardinality(ManySinks(p, c, j))
  PROVE  /\ IsSummable(f, 1..p[c])
         /\ SumFunctionOnSet(f, 1..p[c]) = CountIn(p, c)
<1> DEFINE V == Vertices(p)
           C == VerticesOf(p, c)
           A == SinksIn(V, c)
           key == [O \in A |-> Cardinality(Sinks(O, V))]
<1>1. p \in Seq(Nat) /\ p[c] \in Nat /\ IsFiniteSet(1..p[c])
  <2>1. p \in Seq(Nat) /\ p[c] \in Nat
    OBVIOUS
  <2> QED
    BY <2>1, FS_Interval
<1>2. IsFiniteSet(V) /\ IsFiniteSet(C) /\ Cardinality(C) = p[c] /\ In(V, c) = C
  BY <1>1, VerticesAreFinite, PartSize, InPart
<1>3. IsFiniteSet(A)
  BY <1>2, OrientedAreFinite
<1>4. ASSUME NEW O \in A PROVE key[O] \in 1..p[c]
  <2>1. O \in Oriented(V) /\ Sinks(O, V) \subseteq C
    BY <1>2 DEF SinksIn
  <2>2. V # {}
    BY <1>1, <1>2, VerticesOfPart, FS_EmptySet
  <2>3. Sinks(O, V) # {}
    BY <2>1, <2>2, SinksShareAPart
  <2> DEFINE T == Sinks(O, V)
  <2> HIDE DEF C, T
  <2>4. IsFiniteSet(T) /\ Cardinality(T) <= Cardinality(C)
    BY <1>2, <2>1, FS_Subset DEF T
  <2>5. Cardinality(T) \in Nat /\ Cardinality(T) # 0
    BY <2>3, <2>4, FS_CardinalityType, FS_EmptySet DEF T
  <2>6. key[O] = Cardinality(T)
    BY DEF T
  <2> HIDE DEF key
  <2> QED
    BY <1>1, <1>2, <2>4, <2>5, <2>6
<1>5. \A j \in 1..p[c] : f[j] = Cardinality(WithKey(A, key, j))
  <2> TAKE j \in 1..p[c]
  <2>1. ManySinks(p, c, j) = WithKey(A, key, j)
    BY DEF ManySinks, WithKey
  <2> QED
    BY <2>1
<1> DEFINE K == 1..p[c]
<1>6. IsSummable(f, K) /\ SumFunctionOnSet(f, K) = Cardinality(A)
  <2>1. /\ IsFiniteSet(K) /\ \A O \in A : key[O] \in K
        /\ \A j \in K : f[j] = Cardinality(WithKey(A, key, j))
    BY <1>1, <1>4, <1>5
  <2> HIDE DEF A, key, K
  <2> QED
    BY <1>3, <2>1, CountByKey
<1> QED
  BY <1>6 DEF CountIn

\* Each j vertices of part c are the sinks of as many orientations.
LEMMA CountManySinks ==
  ASSUME NEW p \in Seq(Nat \ {0}), NEW c \in DOMAIN p, NEW j \in 1..p[c],
         NEW n \in Nat,
         \A S \in kSubset(j, VerticesOf(p, c)) :
             Cardinality(SinksAre(Vertices(p), S)) = n
  PROVE  Cardinality(ManySinks(p, c, j)) = choose(p[c], j) * n
<1> DEFINE V == Vertices(p)
           C == VerticesOf(p, c)
           A == ManySinks(p, c, j)
           B == kSubset(j, C)
           key == [O \in A |-> Sinks(O, V)]
<1>1. p \in Seq(Nat) /\ p[c] \in Nat /\ j \in 0..p[c]
  OBVIOUS
<1>2. IsFiniteSet(V) /\ IsFiniteSet(C) /\ Cardinality(C) = p[c] /\ In(V, c) = C
  BY <1>1, VerticesAreFinite, PartSize, InPart
<1>3. IsFiniteSet(A)
  <2>1. IsFiniteSet(SinksIn(V, c))
    BY <1>2, OrientedAreFinite
  <2>2. A \in SUBSET SinksIn(V, c)
    BY DEF ManySinks
  <2> QED
    BY <2>1, <2>2, FS_Subset
<1>4. IsFiniteSet(B) /\ Cardinality(B) = choose(p[c], j)
  <2> HIDE DEF C
  <2> QED
    BY <1>1, <1>2, CountSubsets
<1>5. \A O \in A : key[O] \in B
  BY <1>2 DEF ManySinks, SinksIn, kSubset
<1>6. \A S \in B : Cardinality(WithKey(A, key, S)) = n
  <2> TAKE S \in B
  <2>1. S \in SUBSET C /\ Cardinality(S) = j
    BY DEF kSubset
  <2>2. WithKey(A, key, S) = SinksAre(V, S)
    BY <1>2, <2>1 DEF WithKey, ManySinks, SinksIn, SinksAre
  <2> QED
    BY <2>2
<1> HIDE DEF A, B, key
<1>7. Cardinality(A) = n * Cardinality(B)
  BY <1>3, <1>4, <1>5, <1>6, CountWithMultiplicity
<1>8. choose(p[c], j) \in Nat
  BY <1>4, FS_CardinalityType
<1>9. n * choose(p[c], j) = choose(p[c], j) * n
  <2> DEFINE m == choose(p[c], j)
  <2>1. m \in Nat
    BY <1>8
  <2> HIDE DEF m
  <2>2. n * m = m * n
    BY <2>1
  <2> QED
    BY <2>2 DEF m
<1> QED
  BY <1>4, <1>7, <1>9 DEF A

\* Without j vertices of part c; and the sums of the code, with f for the counts
\* of smaller graphs.
Taken(p, c, j) == [p EXCEPT ![c] = @ - j]
Terms(f, p, c) ==
    [j \in 1..(p[c] - 1) |->
        choose(p[c], j) * SumFunctionOnSet(f[Taken(p, c, j)], DOMAIN p \ {c})]
LastTerm(f, p, c) == IF Len(RemoveAt(p, c)) <= 1 THEN 1
                     ELSE SumFunction(f[RemoveAt(p, c)])
Computed(f, p, c) == SumFunction(Terms(f, p, c)) + LastTerm(f, p, c)

\* f holds the counts of p.
Counts(f, p) ==
    DOMAIN f[p] = DOMAIN p /\ \A c \in DOMAIN p : f[p][c] = CountIn(p, c)

LEMMA TakenFacts ==
  ASSUME NEW p \in Seq(Nat \ {0}), NEW c \in DOMAIN p, NEW j \in 1..(p[c] - 1)
  PROVE  /\ Taken(p, c, j) \in Seq(Nat \ {0}) /\ DOMAIN Taken(p, c, j) = DOMAIN p
         /\ \E S \in SUBSET VerticesOf(p, c) : Cardinality(S) = j
<1>1. p \in Seq(Nat) /\ p[c] \in Nat /\ j \in 0..p[c]
  OBVIOUS
<1>2. IsFiniteSet(VerticesOf(p, c)) /\ Cardinality(VerticesOf(p, c)) = p[c]
  BY <1>1, PartSize
<1>3. \E S \in SUBSET VerticesOf(p, c) : Cardinality(S) = j
  <2> DEFINE f == [i \in 1..j |-> <<c, i>>]
             S == {<<c, i>> : i \in 1..j}
  <2>1. OneToOneOnto(f, 1..j, S)
    BY DEF OneToOneOnto
  <2>2. IsFiniteSet(1..j) /\ Cardinality(1..j) = j
    BY <1>1, FS_Interval
  <2>3. S \in SUBSET VerticesOf(p, c)
    BY <1>1 DEF VerticesOf
  <2> HIDE DEF S, f
  <2>4. Cardinality(S) = j
    BY <2>1, <2>2, SameSize
  <2> QED
    BY <2>3, <2>4
<1>4. p[c] - j \in Nat \ {0}
  BY <1>1
<1> QED
  BY <1>3, <1>4 DEF Taken

\* One step of ComputeUnsafeForComponent, if the smaller graphs are counted.
LEMMA CountsAreComputed ==
  ASSUME NEW p \in Seq(Nat \ {0}), NEW c \in DOMAIN p, NEW f,
         \A j \in 1..(p[c] - 1) : Counts(f, Taken(p, c, j)),
         Counts(f, RemoveAt(p, c))
  PROVE  Computed(f, p, c) = CountIn(p, c)
<1> DEFINE n == p[c]
           h == [j \in 1..n |-> Cardinality(ManySinks(p, c, j))]
           q == RemoveAt(p, c)
           V == Vertices(p)
           C == VerticesOf(p, c)
<1>1. p \in Seq(Nat) /\ n \in Nat \ {0} /\ c \in 1..Len(p)
  OBVIOUS
<1>2. IsSummable(h, 1..n) /\ SumFunctionOnSet(h, 1..n) = CountIn(p, c)
  <2>1. \A j \in 1..n : h[j] = Cardinality(ManySinks(p, c, j))
    OBVIOUS
  <2> HIDE DEF h
  <2> QED
    BY <2>1, CountByManySinks
<1>3. ASSUME NEW j \in 1..(n - 1) PROVE Terms(f, p, c)[j] = h[j]
  <2> DEFINE g == f[Taken(p, c, j)]
             m == SumFunctionOnSet(g, DOMAIN p \ {c})
  <2>1. \A d \in DOMAIN p : g[d] = CountIn(Taken(p, c, j), d)
    BY TakenFacts DEF Counts
  <2> HIDE DEF g
  <2>2. \A S \in kSubset(j, C) : Cardinality(SinksAre(V, S)) = m
    <3> TAKE S \in kSubset(j, C)
    <3>1. S \in SUBSET C /\ Cardinality(S) = j
      BY DEF kSubset
    <3>2. \A d \in DOMAIN p : g[d] = CountIn([p EXCEPT ![c] = @ - Cardinality(S)], d)
      BY <2>1, <3>1 DEF Taken
    <3> QED
      BY <3>1, <3>2, CountSomeSinks
  <2>3. PICK S \in kSubset(j, C) : TRUE
    BY TakenFacts DEF kSubset
  <2>4. m \in Nat
    <3>1. IsFiniteSet(V)
      BY <1>1, VerticesAreFinite
    <3>2. IsFiniteSet(SinksAre(V, S))
      BY <3>1, OrientedAreFinite
    <3> QED
      BY <2>2, <2>3, <3>2, FS_CardinalityType
  <2> HIDE DEF m, V, C
  <2>5. j \in 1..p[c]
    BY <1>1
  <2>6. Cardinality(ManySinks(p, c, j)) = choose(p[c], j) * m
    BY <2>2, <2>4, <2>5, CountManySinks DEF V, C
  <2> QED
    BY <2>5, <2>6 DEF Terms, m, g
<1>4. LastTerm(f, p, c) = h[n]
  <2>1. ManySinks(p, c, n) = SinksAre(V, C)
    <3>1. IsFiniteSet(C) /\ Cardinality(C) = n /\ In(V, c) = C
      BY <1>1, PartSize, InPart
    <3> HIDE DEF C, V, n
    <3>2. \A T : T \subseteq C => (Cardinality(T) = n <=> T = C)
      <4> SUFFICES ASSUME NEW T, T \subseteq C, Cardinality(T) = n PROVE T = C
        BY <3>1
      <4> QED
        BY <3>1, FS_Subset
    <3>3. \A O : O \in SinksIn(V, c) <=> O \in Oriented(V) /\ Sinks(O, V) \subseteq C
      BY <3>1 DEF SinksIn
    <3> QED
      BY <3>2, <3>3 DEF ManySinks, SinksAre, V
  <2>2. h[n] = CountAll(q)
    BY <1>1, <2>1, CountAllSinks
  <2>3. q \in Seq(Nat \ {0})
    BY <1>1, PartVanishes
  <2> HIDE DEF q, h
  <2>4. CASE Len(q) <= 1
    BY <2>2, <2>3, <2>4, CountsOfOnePart DEF LastTerm, q
  <2>5. CASE ~(Len(q) <= 1)
    <3>1. q # << >>
      BY <2>5
    <3>2. SumFunctionOnSet(f[q], DOMAIN q) = CountAll(q)
      BY <2>3, <3>1, CountsOfPartsAdd DEF Counts, q
    <3>3. SumFunction(f[q]) = CountAll(q)
      BY <3>2 DEF SumFunction, Counts, q
    <3> QED
      BY <2>2, <2>5, <3>3 DEF LastTerm, q
  <2> QED
    BY <2>4, <2>5
<1> HIDE DEF h
<1>5. (1..n) \ {n} = 1..(n - 1) /\ n \in 1..n
  BY <1>1
<1>6. SumFunctionOnSet(h, 1..n) = h[n] + SumFunctionOnSet(h, 1..(n - 1))
  BY <1>2, <1>5, SumWithout
<1>7. IsSummable(h, 1..(n - 1))
  BY <1>2, <1>5, SummableSubset
<1>8. SumFunctionOnSet(Terms(f, p, c), 1..(n - 1)) = SumFunctionOnSet(h, 1..(n - 1))
  <2> HIDE DEF n
  <2> QED
    BY <1>3, <1>7, SumSame
<1>9. SumFunction(Terms(f, p, c)) = SumFunctionOnSet(h, 1..(n - 1))
  BY <1>8 DEF SumFunction, Terms
<1>10. SumFunctionOnSet(h, 1..(n - 1)) \in Int /\ h[n] \in Int
  BY <1>2, <1>5, <1>7, SumIsInt DEF IsSummable
<1>11. \A a, b \in Int : a + b = b + a
  OBVIOUS
<1> HIDE DEF n
<1> QED
  BY <1>2, <1>4, <1>6, <1>9, <1>10, <1>11 DEF Computed

\* f is what the definition of ComputeUnsafeForComponent says.
Computes(f) ==
    f = [p \in Seq(Nat \ {0}) |-> [c \in DOMAIN p |-> Computed(f, p, c)]]

\* The definition of ComputeUnsafeForComponent is met by a function.
LEMMA CountsCompute == \E f : Computes(f)
<1> DEFINE f == [p \in Seq(Nat \ {0}) |-> [c \in DOMAIN p |-> CountIn(p, c)]]
<1>1. \A p \in Seq(Nat \ {0}) : Counts(f, p)
  BY DEF Counts
<1>2. ASSUME NEW p \in Seq(Nat \ {0})
      PROVE  f[p] = [c \in DOMAIN p |-> Computed(f, p, c)]
  <2>1. ASSUME NEW c \in DOMAIN p PROVE CountIn(p, c) = Computed(f, p, c)
    <3>1. \A j \in 1..(p[c] - 1) : Taken(p, c, j) \in Seq(Nat \ {0})
      BY TakenFacts
    <3>2. RemoveAt(p, c) \in Seq(Nat \ {0})
      BY PartVanishes
    <3> HIDE DEF f
    <3> QED
      BY <1>1, <3>1, <3>2, CountsAreComputed
  <2>2. f[p] = [c \in DOMAIN p |-> CountIn(p, c)]
    OBVIOUS
  <2> HIDE DEF f
  <2> QED
    BY <2>1, <2>2
<1>3. f = [p \in Seq(Nat \ {0}) |-> f[p]]
  OBVIOUS
<1> HIDE DEF f
<1> QED
  BY <1>2, <1>3 DEF Computes

\* Both smaller graphs have fewer vertices.
LEMMA SmallerGraphs ==
  ASSUME NEW p \in Seq(Nat \ {0}), NEW c \in DOMAIN p
  PROVE  LET N(q) == Cardinality(Vertices(q))
         IN  /\ N(p) \in Nat
             /\ \A j \in 1..(p[c] - 1) : N(Taken(p, c, j)) \in Nat
                                         /\ N(Taken(p, c, j)) < N(p)
             /\ N(RemoveAt(p, c)) \in Nat /\ N(RemoveAt(p, c)) < N(p)
<1> DEFINE V == Vertices(p)
           C == VerticesOf(p, c)
<1>1. p \in Seq(Nat) /\ p[c] \in Nat \ {0}
  OBVIOUS
<1>2. /\ IsFiniteSet(V) /\ Cardinality(V) \in Nat /\ C \subseteq V
      /\ IsFiniteSet(C) /\ Cardinality(C) = p[c]
  <2>1. IsFiniteSet(V) /\ IsFiniteSet(C) /\ Cardinality(C) = p[c]
    BY <1>1, VerticesAreFinite, PartSize
  <2>2. C \subseteq V
    BY <1>1, VerticesOfPart
  <2> HIDE DEF V, C
  <2> QED
    BY <2>1, <2>2, FS_CardinalityType
<1>3. ASSUME NEW S \in SUBSET C, S # {}, NEW q, NEW f, SameParts(f, V \ S, Vertices(q))
      PROVE  Cardinality(Vertices(q)) \in Nat /\ Cardinality(Vertices(q)) < Cardinality(V)
  <2>1. IsFiniteSet(V \ S)
    BY <1>2, FS_Difference
  <2>2. Cardinality(Vertices(q)) = Cardinality(V \ S)
    BY <1>3, <2>1, SameSize DEF SameParts
  <2>3. V \ S \in SUBSET V /\ V \ S # V
    BY <1>2, <1>3
  <2> DEFINE W == V \ S
  <2> HIDE DEF V, C, W
  <2>4. IsFiniteSet(W) /\ W \in SUBSET V /\ W # V
    BY <2>1, <2>3 DEF W
  <2>5. Cardinality(W) <= Cardinality(V) /\ Cardinality(W) # Cardinality(V)
    BY <1>2, <2>4, FS_Subset
  <2>6. Cardinality(W) \in Nat
    BY <2>4, FS_CardinalityType
  <2> QED
    BY <1>2, <2>2, <2>5, <2>6 DEF W
<1>4. ASSUME NEW j \in 1..(p[c] - 1)
      PROVE  Cardinality(Vertices(Taken(p, c, j))) \in Nat
             /\ Cardinality(Vertices(Taken(p, c, j))) < Cardinality(V)
  <2>1. PICK S \in SUBSET C : Cardinality(S) = j
    BY TakenFacts
  <2>2. S # {}
    <3>1. S = {} => Cardinality(S) = 0
      BY FS_EmptySet
    <3> QED
      BY <2>1, <3>1
  <2>3. PICK f : SameParts(f, V \ S, Vertices(Taken(p, c, j)))
    BY <2>1, PartShrinks DEF Taken
  <2> QED
    BY <1>3, <2>2, <2>3
<1>5. Cardinality(Vertices(RemoveAt(p, c))) \in Nat
      /\ Cardinality(Vertices(RemoveAt(p, c))) < Cardinality(V)
  <2>1. PICK f : SameParts(f, V \ C, Vertices(RemoveAt(p, c)))
    BY PartVanishes
  <2>2. C # {}
    <3>1. C = {} => Cardinality(C) = 0
      BY FS_EmptySet
    <3> HIDE DEF C
    <3> QED
      BY <1>1, <1>2, <3>1
  <2> QED
    BY <1>3, <2>1, <2>2
<1> QED
  BY <1>2, <1>4, <1>5

\* Every function that meets it counts: the smallest graph of which it did not
\* would be counted by the step from smaller ones.
LEMMA ComputingCounts ==
  ASSUME NEW f, Computes(f), NEW p \in Seq(Nat \ {0})
  PROVE  Counts(f, p)
<1> DEFINE X == {q \in Seq(Nat \ {0}) : ~Counts(f, q)}
           N(q) == Cardinality(Vertices(q))
<1>1. SUFFICES ASSUME X # {} PROVE FALSE
  OBVIOUS
<1>2. \A q \in X : q \in Seq(Nat \ {0}) /\ N(q) \in Nat
  <2> TAKE q \in X
  <2>1. q \in Seq(Nat)
    OBVIOUS
  <2>2. IsFiniteSet(Vertices(q))
    BY <2>1, VerticesAreFinite
  <2> QED
    BY <2>2, FS_CardinalityType
<1>3. PICK n \in {N(q) : q \in X} : \A k \in {N(q) : q \in X} : n <= k
  <2>1. {N(q) : q \in X} \in SUBSET Nat /\ {N(q) : q \in X} # {}
    BY <1>1, <1>2
  <2> QED
    BY <2>1, LeastNumber
<1>4. PICK q \in X : N(q) = n
  BY <1>3
<1>5. q \in Seq(Nat \ {0}) /\ N(q) \in Nat /\ \A r \in X : N(q) <= N(r)
  BY <1>2, <1>3, <1>4
<1>6. \A r \in Seq(Nat \ {0}) : N(r) \in Nat /\ N(r) < N(q) => Counts(f, r)
  BY <1>5
<1>7. f[q] = [c \in DOMAIN q |-> Computed(f, q, c)]
  BY <1>5 DEF Computes
<1>8. ASSUME NEW c \in DOMAIN q PROVE f[q][c] = CountIn(q, c)
  <2>1. \A j \in 1..(q[c] - 1) : Counts(f, Taken(q, c, j))
    <3> TAKE j \in 1..(q[c] - 1)
    <3>1. Taken(q, c, j) \in Seq(Nat \ {0})
      BY <1>5, TakenFacts
    <3>2. N(Taken(q, c, j)) \in Nat /\ N(Taken(q, c, j)) < N(q)
      BY <1>5, SmallerGraphs
    <3> QED
      BY <1>6, <3>1, <3>2
  <2>2. Counts(f, RemoveAt(q, c))
    <3>1. RemoveAt(q, c) \in Seq(Nat \ {0})
      BY <1>5, PartVanishes
    <3>2. N(RemoveAt(q, c)) \in Nat /\ N(RemoveAt(q, c)) < N(q)
      BY <1>5, SmallerGraphs
    <3> QED
      BY <1>6, <3>1, <3>2
  <2> QED
    BY <1>5, <1>7, <2>1, <2>2, CountsAreComputed
<1>9. Counts(f, q)
  BY <1>7, <1>8 DEF Counts
<1> QED
  BY <1>4, <1>9

LEMMA ComputeUnsafeCounts ==
  ASSUME NEW p \in Seq(Nat \ {0})
  PROVE  ComputeUnsafe(p) = CountAll(p)
<1> DEFINE f == ComputeUnsafeForComponent
<1>1. f = CHOOSE g : Computes(g)
  BY DEF ComputeUnsafeForComponent, Computes, Computed, Terms, LastTerm, Taken
<1>2. Computes(f)
  BY <1>1, CountsCompute
<1> HIDE DEF f
<1>3. Counts(f, p)
  BY <1>2, ComputingCounts
<1>4. CASE Len(p) <= 1
  BY <1>4, CountsOfOnePart DEF ComputeUnsafe
<1>5. CASE ~(Len(p) <= 1)
  <2>1. p # << >>
    BY <1>5
  <2>2. SumFunctionOnSet(f[p], DOMAIN p) = CountAll(p)
    BY <1>3, <2>1, CountsOfPartsAdd DEF Counts
  <2> QED
    BY <1>3, <1>5, <2>2 DEF ComputeUnsafe, SumFunction, Counts, f
<1> QED
  BY <1>4, <1>5

-----------------------------------------------------------------------------
(* The parts may be sorted first                                           *)

\* The parts up to part i, in order of their sizes.
Below(p, i) == {k \in DOMAIN p : p[k] < p[i] \/ (p[k] = p[i] /\ k <= i)}

LEMMA BelowFacts ==
  ASSUME NEW p \in Seq(Nat), NEW i \in DOMAIN p
  PROVE  /\ Cardinality(Below(p, i)) \in DOMAIN p
         /\ \A j \in DOMAIN p :
              Below(p, i) \subseteq Below(p, j) /\ i # j
                 => Cardinality(Below(p, i)) < Cardinality(Below(p, j))
         /\ \A j \in DOMAIN p : p[i] < p[j] \/ (p[i] = p[j] /\ i <= j)
                 => Below(p, i) \subseteq Below(p, j)
<1> DEFINE D == DOMAIN p
<1>1. D = 1..Len(p) /\ Len(p) \in Nat /\ \A k \in D : p[k] \in Nat /\ k \in Nat
  OBVIOUS
<1>2. IsFiniteSet(D) /\ Cardinality(D) = Len(p)
  <2> DEFINE n == Len(p)
  <2>1. n \in Nat /\ D = 1..n
    BY <1>1
  <2> HIDE DEF n, D
  <2>2. IsFiniteSet(1..n) /\ Cardinality(1..n) = n
    BY <2>1, FS_Interval
  <2> QED
    BY <2>1, <2>2 DEF n
<1>3. \A k \in D : Below(p, k) \in SUBSET D /\ k \in Below(p, k)
  BY <1>1 DEF Below
<1>4. \A k \in D : /\ IsFiniteSet(Below(p, k)) /\ Cardinality(Below(p, k)) \in Nat
                   /\ Cardinality(Below(p, k)) <= Len(p)
                   /\ Cardinality(Below(p, k)) # 0
  <2> HIDE DEF D
  <2> TAKE k \in D
  <2> DEFINE B == Below(p, k)
  <2>1. B \in SUBSET D /\ k \in B
    BY <1>3
  <2> HIDE DEF B
  <2>2. IsFiniteSet(B) /\ Cardinality(B) <= Cardinality(D)
    BY <1>2, <2>1, FS_Subset
  <2>3. Cardinality(B) \in Nat /\ Cardinality(B) # 0
    BY <2>1, <2>2, FS_CardinalityType, FS_EmptySet
  <2> QED
    BY <1>2, <2>2, <2>3 DEF B
<1>5. Cardinality(Below(p, i)) \in D
  <2> DEFINE b == Cardinality(Below(p, i))
  <2>1. b \in Nat /\ b <= Len(p) /\ b # 0
    BY <1>4
  <2> HIDE DEF b
  <2>2. b \in 1..Len(p)
    BY <1>1, <2>1
  <2> QED
    BY <1>1, <2>2 DEF b
<1>6. ASSUME NEW j \in D, Below(p, i) \subseteq Below(p, j), i # j
      PROVE  Cardinality(Below(p, i)) < Cardinality(Below(p, j))
  <2> DEFINE A == Below(p, i)
             B == Below(p, j)
  <2>1. A # B
    <3>1. i \in A /\ j \in B
      BY <1>3
    <3>2. ~(i \in B /\ j \in A)
      BY <1>1, <1>6 DEF Below
    <3> QED
      BY <3>1, <3>2
  <2>2. /\ A \in SUBSET B /\ IsFiniteSet(B)
        /\ Cardinality(A) \in Nat /\ Cardinality(B) \in Nat
    BY <1>4, <1>6
  <2> HIDE DEF A, B
  <2>3. Cardinality(A) <= Cardinality(B) /\ Cardinality(A) # Cardinality(B)
    BY <2>1, <2>2, FS_Subset
  <2> QED
    BY <2>2, <2>3 DEF A, B
<1>7. ASSUME NEW j \in D, p[i] < p[j] \/ (p[i] = p[j] /\ i <= j)
      PROVE  Below(p, i) \subseteq Below(p, j)
  BY <1>1, <1>7 DEF Below
<1> QED
  BY <1>5, <1>6, <1>7

LEMMA RanksAreOneToOne ==
  ASSUME NEW p \in Seq(Nat)
  PROVE  OneToOneOnto([i \in DOMAIN p |-> Cardinality(Below(p, i))],
                      DOMAIN p, DOMAIN p)
<1> DEFINE D == DOMAIN p
           r == [i \in D |-> Cardinality(Below(p, i))]
           R == {r[i] : i \in D}
<1>1. /\ \A k \in D : p[k] \in Nat /\ k \in Nat
      /\ IsFiniteSet(D) /\ Cardinality(D) \in Nat
  BY DomainIsFinite, FS_CardinalityType
<1>2. \A i \in D : r[i] \in D
  BY BelowFacts
<1>3. ASSUME NEW i \in D, NEW j \in D, i # j PROVE r[i] # r[j]
  <2>1. \/ p[i] < p[j] \/ (p[i] = p[j] /\ i <= j)
        \/ p[j] < p[i] \/ (p[j] = p[i] /\ j <= i)
    <3>1. p[i] \in Nat /\ p[j] \in Nat /\ i \in Nat /\ j \in Nat
      BY <1>1
    <3> QED
      BY <3>1
  <2>2. Below(p, i) \subseteq Below(p, j) \/ Below(p, j) \subseteq Below(p, i)
    BY <2>1, BelowFacts
  <2>3. r[i] < r[j] \/ r[j] < r[i]
    BY <1>3, <2>2, BelowFacts
  <2>4. r[i] \in Nat /\ r[j] \in Nat
    BY <1>1, <1>2
  <2> HIDE DEF r
  <2> QED
    BY <2>3, <2>4
<1> HIDE DEF r, D
<1>4. OneToOneOnto(r, D, R)
  BY <1>3 DEF OneToOneOnto
<1>5. R \in SUBSET D
  BY <1>2
<1> HIDE DEF R
<1>6. Cardinality(R) = Cardinality(D)
  BY <1>1, <1>4, SameSize
<1>7. R = D
  BY <1>1, <1>5, <1>6, FS_Subset
<1> QED
  BY <1>4, <1>7 DEF r, D

\* The parts can be sorted: each goes to its rank.
LEMMA SortedIsRearranged ==
  ASSUME NEW p \in Seq(Nat)
  PROVE  Sorted(p) \in Rearranged(p)
<1> DEFINE D == DOMAIN p
           r == [i \in D |-> Cardinality(Below(p, i))]
           f == [k \in D |-> CHOOSE i \in D : r[i] = k]
           s == [k \in D |-> p[f[k]]]
<1>1. /\ \A k \in D : p[k] \in Nat /\ k \in Nat
      /\ \A i \in D : r[i] = Cardinality(Below(p, i))
  OBVIOUS
<1>2. OneToOneOnto(r, D, D)
  BY RanksAreOneToOne
<1> HIDE DEF r, D
<1>3. \A k \in D : f[k] \in D /\ r[f[k]] = k
  BY <1>2 DEF OneToOneOnto
<1>4. f \in [D -> D]
  BY <1>3
<1>5. s \in Rearranged(p)
  <2> HIDE DEF f
  <2>1. \A i, j \in D : f[i] = f[j] => i = j
    BY <1>3
  <2>2. \A i \in D : f[r[i]] = i /\ r[i] \in D
    BY <1>2, <1>3 DEF OneToOneOnto
  <2>3. f \in Bijection(D, D)
    BY <1>4, <2>1, <2>2 DEF Bijection, Injection, Surjection, IsInjective
  <2> QED
    BY <2>3 DEF Rearranged, D
<1> HIDE DEF f
<1>6. ASSUME NEW i \in D, NEW j \in D, i < j PROVE s[i] <= s[j]
  <2> DEFINE a == f[i]
             b == f[j]
  <2>1. a \in D /\ b \in D /\ r[a] = i /\ r[b] = j /\ s[i] = p[a] /\ s[j] = p[b]
    BY <1>3
  <2>2. i \in Nat /\ j \in Nat /\ p[a] \in Nat /\ p[b] \in Nat
    BY <1>1, <2>1
  <2> HIDE DEF a, b, s
  <2>3. ASSUME p[b] < p[a] PROVE FALSE
    <3>1. Below(p, b) \subseteq Below(p, a)
      <4>1. a \in DOMAIN p /\ b \in DOMAIN p
        BY <2>1 DEF D
      <4> QED
        BY <2>3, <4>1, BelowFacts
    <3>2. a # b
      BY <1>6, <2>1, <2>2
    <3>3. r[b] < r[a]
      <4>1. a \in DOMAIN p /\ b \in DOMAIN p
        BY <2>1 DEF D
      <4>2. Cardinality(Below(p, b)) < Cardinality(Below(p, a))
        BY <3>1, <3>2, <4>1, BelowFacts
      <4> QED
        BY <1>1, <2>1, <4>2
    <3> QED
      BY <1>6, <2>1, <2>2, <3>3
  <2> QED
    BY <2>1, <2>2, <2>3
<1>7. DOMAIN s = D
  OBVIOUS
<1> HIDE DEF s
<1>8. \E t \in Rearranged(p) : \A i, j \in DOMAIN t : i < j => t[i] <= t[j]
  BY <1>5, <1>6, <1>7
<1> QED
  BY <1>8 DEF Sorted

\* The order of the parts does not matter.
LEMMA RearrangedCountsTheSame ==
  ASSUME NEW p \in Seq(Nat \ {0}), NEW s \in Rearranged(p)
  PROVE  s \in Seq(Nat \ {0}) /\ CountAll(s) = CountAll(p)
<1> DEFINE D == DOMAIN p
<1>1. D = 1..Len(p) /\ Len(p) \in Nat /\ \A i \in D : p[i] \in Nat \ {0}
  OBVIOUS
<1>2. PICK f \in Bijection(D, D) : s = [i \in D |-> p[f[i]]]
  BY DEF Rearranged
<1>3. OneToOneOnto(f, D, D)
  BY <1>2 DEF Bijection, Injection, Surjection, IsInjective, OneToOneOnto
<1>4. s \in Seq(Nat \ {0}) /\ DOMAIN s = D /\ \A i \in D : s[i] = p[f[i]]
  <2>1. \A i \in D : f[i] \in D
    BY <1>3 DEF OneToOneOnto
  <2>2. s \in [1..Len(p) -> Nat \ {0}]
    BY <1>1, <1>2, <2>1
  <2> QED
    BY <1>1, <1>2, <2>2
<1> DEFINE h == [x \in Vertices(s) |-> <<f[Part(x)], x[2]>>]
<1>5. \A x \in Vertices(s) : Part(h[x]) = f[Part(x)] /\ h[x] = <<f[Part(x)], x[2]>>
  BY DEF Part
<1> HIDE DEF h
<1>6. \A x \in Vertices(s) : /\ x = <<Part(x), x[2]>>
                             /\ Part(x) \in D /\ x[2] \in 1..s[Part(x)]
  BY <1>4, VertexFacts
<1>7. ASSUME NEW x \in Vertices(s) PROVE h[x] \in Vertices(p)
  <2>1. f[Part(x)] \in D /\ x[2] \in 1..p[f[Part(x)]]
    BY <1>3, <1>4, <1>6 DEF OneToOneOnto
  <2>2. <<f[Part(x)], x[2]>> \in Vertices(p)
    BY <2>1, VertexFacts
  <2> QED
    BY <1>5, <2>2
<1>8. ASSUME NEW x \in Vertices(s), NEW y \in Vertices(s)
      PROVE  Part(h[x]) = Part(h[y]) <=> Part(x) = Part(y)
  <2>1. Part(x) \in D /\ Part(y) \in D
    BY <1>6
  <2>2. Part(h[x]) = f[Part(x)] /\ Part(h[y]) = f[Part(y)]
    BY <1>5
  <2>3. f[Part(x)] = f[Part(y)] => Part(x) = Part(y)
    BY <1>3, <2>1 DEF OneToOneOnto
  <2> QED
    BY <2>2, <2>3
<1>9. ASSUME NEW x \in Vertices(s), NEW y \in Vertices(s), h[x] = h[y]
      PROVE  x = y
  <2>1. Part(x) = Part(y)
    BY <1>8, <1>9
  <2>2. <<f[Part(x)], x[2]>> = <<f[Part(y)], y[2]>>
    BY <1>5, <1>9
  <2>3. x[2] = y[2]
    BY <2>2
  <2>4. x = <<Part(x), x[2]>> /\ y = <<Part(y), y[2]>>
    BY <1>6
  <2> QED
    BY <2>1, <2>3, <2>4
<1>10. ASSUME NEW y \in Vertices(p) PROVE \E x \in Vertices(s) : h[x] = y
  <2>1. y = <<Part(y), y[2]>> /\ Part(y) \in D /\ y[2] \in 1..p[Part(y)]
    BY VertexFacts
  <2>2. PICK i \in D : f[i] = Part(y)
    BY <1>3, <2>1 DEF OneToOneOnto
  <2> DEFINE x == <<i, y[2]>>
  <2>3. x \in Vertices(s)
    BY <1>4, <2>1, <2>2, VertexFacts
  <2>4. Part(x) = i /\ x[2] = y[2]
    BY DEF Part
  <2> HIDE DEF x
  <2>5. h[x] = <<f[i], y[2]>>
    BY <1>5, <2>3, <2>4
  <2> QED
    BY <2>1, <2>2, <2>3, <2>5
<1>11. SameParts(h, Vertices(s), Vertices(p))
  BY <1>7, <1>8, <1>9, <1>10 DEF SameParts, OneToOneOnto
<1>12. IsFiniteSet(Vertices(s))
  <2>1. s \in Seq(Nat)
    BY <1>4
  <2> QED
    BY <2>1, VerticesAreFinite
<1> QED
  BY <1>4, <1>11, <1>12, SamePartsCountTheSame DEF CountAll

\* The acyclic orientations of a graph.
CountOf(g) == Cardinality(Acyclic(Simple(g), Vertices(g.parts)))

LEMMA JoinedMeans ==
  ASSUME NEW g, IsGraph(g), NEW x \in Vertices(g.parts), NEW y \in Vertices(g.parts)
  PROVE  Joined(Simple(g), x, y) <=> AdjacentIn(g.parts, g.deleted, x, y)
<1>1. Adjacent(Simple(g), x, y) <=> IsAdjacent(g, x, y)
  BY AdjacentIsEdge
<1> QED
  BY <1>1 DEF Joined, IsAdjacent, AdjacentIn

LEMMA GraphsAre ==
  /\ \A g \in Graphs : IsGraph(g)
  /\ \A p, D : IsGraph([parts |-> p, deleted |-> D])
                  => [parts |-> p, deleted |-> D] \in Graphs
<1>1. ASSUME NEW p, NEW D, IsGraph([parts |-> p, deleted |-> D])
      PROVE  [parts |-> p, deleted |-> D] \in Graphs
  <2>1. p \in Seq(Nat \ {0}) /\ D \subseteq AllEdges(p) /\ p \in Seq(Nat)
    BY <1>1 DEF IsGraph
  <2>2. Vertices(p) \subseteq Nat \X Nat
    <3>1. DOMAIN p = 1..Len(p) /\ Len(p) \in Nat
      BY <2>1
    <3> QED
      BY <3>1 DEF Vertices, VerticesOf
  <2>3. \A e \in AllEdges(p) : e \in SUBSET Vertices(p)
    BY DEF AllEdges, kSubset
  <2>4. D \in SUBSET SUBSET (Nat \X Nat)
    BY <2>1, <2>2, <2>3
  <2> QED
    BY <2>1, <2>4 DEF Graphs
<1>2. \A g \in Graphs : IsGraph(g)
  BY DEF Graphs, IsGraph
<1> QED
  BY <1>1, <1>2

\* The counter of complete graphs counts orientations.
LEMMA CompleteIsCounted ==
  ASSUME NEW g \in Graphs, g.deleted = {}
  PROVE  CountOfComplete(g.parts) = CountOf(g)
<1> DEFINE p == g.parts
           V == Vertices(p)
<1>1. p \in Seq(Nat \ {0}) /\ p \in Seq(Nat)
  BY DEF Graphs
<1>2. CountOfComplete(p) = CountAll(p)
  <2>1. Sorted(p) \in Seq(Nat \ {0}) /\ CountAll(Sorted(p)) = CountAll(p)
    BY <1>1, SortedIsRearranged, RearrangedCountsTheSame
  <2> QED
    BY <2>1, ComputeUnsafeCounts DEF CountOfComplete
<1>3. Acyclic(Simple(g), V) = Oriented(V)
  <2>1. IsGraph(g)
    BY GraphsAre
  <2>2. \A x, y \in V : Joined(Simple(g), x, y) <=> Joined(Multi(V), x, y)
    BY <2>1, JoinedMeans, JoinedInMulti DEF AdjacentIn
  <2> HIDE DEF V
  <2> QED
    BY <2>2 DEF Oriented, Acyclic, Orients
<1> QED
  BY <1>2, <1>3 DEF CountOf, CountAll

\* What the counter of complete graphs computes is the number of acyclic
\* orientations, for every complete multipartite graph.
THEOREM CompleteGraphsAreCounted ==
  ASSUME NEW p \in Seq(Nat \ {0})
  PROVE  CountOfComplete(p) =
            Cardinality(AcyclicOrientations(Simple([parts |-> p, deleted |-> {}])))
<1> DEFINE g == [parts |-> p, deleted |-> {}]
<1>1. g \in Graphs /\ g.parts = p /\ g.deleted = {}
  BY DEF Graphs
<1> HIDE DEF g
<1>2. IsGraph(g)
  BY <1>1, GraphsAre
<1>3. IsFiniteSet(Simple(g).node) /\ Simple(g).node = Vertices(p)
  BY <1>1, <1>2, GraphFacts DEF Simple
<1>4. AcyclicOrientations(Simple(g)) = Acyclic(Simple(g), Vertices(p))
  BY <1>3, AcyclicOrientationsAre
<1>5. CountOfComplete(p) = CountOf(g)
  BY <1>1, CompleteIsCounted
<1> QED
  BY <1>1, <1>4, <1>5 DEF CountOf, g

-----------------------------------------------------------------------------
(* CountAcyclicOrientations: deletion and contraction                      *)

LEMMA MovesAreOneToOne ==
  ASSUME NEW p, NEW u, NEW v, AreEnds(p, u, v)
  PROVE  OneToOne(Moves(p, u, v), Vertices(p) \ {v})
<1> DEFINE a == Part(u)
           b == Part(v)
           V == Vertices(p) \ {v}
           U == Vertices(Shrunk(p, a, b))
           tau == Tau(p, a, b)
           fill == Fill(p, u, v)
<1>1. /\ p \in Seq(Nat \ {0}) /\ a \in 1..Len(p) /\ b \in 1..Len(p) /\ a # b
  BY EndsFacts DEF AreEnds
<1>2. OneToOne(tau, U)
  <2> HIDE DEF a, b
  <2> QED
    BY <1>1, TauFacts
<1>3. Onto(fill, V, U) /\ OneToOne(fill, V)
  BY FillFacts, VerticesLeft
<1>4. \A x \in V : Moves(p, u, v)[x] = tau[fill[x]]
  BY DEF Moves
<1> HIDE DEF V, U, tau, fill
<1>5. OneToOne(Moves(p, u, v), V)
  BY <1>2, <1>3, <1>4 DEF OneToOne, Onto
<1> QED
  BY <1>5 DEF V

\* The moves of ContractEdge are an isomorphism from the contraction.
LEMMA ContractedIsIsomorphic ==
  ASSUME NEW g, IsGraph(g), NEW u, NEW v, AreEnds(g.parts, u, v)
  PROVE  IsIsomorphism(Moves(g.parts, u, v), Contraction(Simple(g), u, v),
                       Simple(ContractEdge(g, u, v)))
<1> DEFINE C == Contraction(Simple(g), u, v)
           phi == Moves(g.parts, u, v)
           H == Simple(ContractEdge(g, u, v))
           V == Vertices(g.parts) \ {v}
<1>1. H = [node |-> {phi[x] : x \in C.node},
           edge |-> RenamesAll(phi, C.edge)]
  BY ContractedFacts DEF Renamed, RenamesAll, Renames
<1>2. C.node = V /\ ArePairs(C.edge, V)
  BY ContractionEdges
<1>3. OneToOne(phi, V)
  BY MovesAreOneToOne
<1> HIDE DEF C, phi, H, V
<1>4. H.node = {phi[x] : x \in V} /\ H.edge = RenamesAll(phi, C.edge)
  BY <1>1, <1>2
<1>5. C.edge \in SUBSET (SUBSET V)
  BY <1>2 DEF ArePairs
<1>6. ASSUME NEW x \in V, NEW y \in V
      PROVE  Joined(C, x, y) <=> Joined(H, phi[x], phi[y])
  <2>1. {x, y} \in SUBSET V
    OBVIOUS
  <2>2. Renames(phi, {x, y}) \in RenamesAll(phi, C.edge) <=> {x, y} \in C.edge
    BY <1>3, <1>5, <2>1, RenamesOneToOne
  <2>3. Renames(phi, {x, y}) = {phi[x], phi[y]}
    BY RenamesPair
  <2>4. x = y <=> phi[x] = phi[y]
    BY <1>3 DEF OneToOne
  <2> QED
    BY <1>4, <2>2, <2>3, <2>4 DEF Joined, Adjacent
<1>7. OneToOneOnto(phi, V, H.node)
  BY <1>3, <1>4 DEF OneToOneOnto, OneToOne
<1>8. IsIsomorphism(phi, C, H)
  BY <1>2, <1>6, <1>7 DEF IsIsomorphism
<1> QED
  BY <1>8 DEF phi, C, H

\* The graph with a deleted edge put back.
Restored(g, e) == [parts |-> g.parts, deleted |-> g.deleted \ {e}]

LEMMA RestoredAddsEdge ==
  ASSUME NEW g, IsGraph(g), NEW e \in g.deleted, NEW u \in e, NEW v \in e \ {u}
  PROVE  /\ AreEnds(g.parts, u, v) /\ e = {u, v} /\ IsGraph(Restored(g, e))
         /\ AddsEdge(Simple(Restored(g, e)), Simple(g), u, v)
<1> DEFINE V == Vertices(g.parts)
           r == Restored(g, e)
<1>1. g.parts \in Seq(Nat \ {0}) /\ g.parts \in Seq(Nat) /\ e \in AllEdges(g.parts)
  BY DEF IsGraph
<1>2. PICK s, t \in V : Part(s) # Part(t) /\ e = {s, t}
  BY <1>1, EdgesArePairs
<1>3. AreEnds(g.parts, u, v) /\ e = {u, v}
  BY <1>1, <1>2 DEF AreEnds
<1>4. r.parts = g.parts /\ r.deleted = g.deleted \ {e}
  BY DEF Restored
<1>5. IsGraph(r)
  BY <1>1, <1>4 DEF IsGraph
<1> HIDE DEF r
<1>6. ASSUME NEW x \in V, NEW y \in V
      PROVE  Joined(Simple(r), x, y)
               <=> Joined(Simple(g), x, y) \/ (x = u /\ y = v) \/ (x = v /\ y = u)
  <2>1. Joined(Simple(r), x, y) <=> AdjacentIn(g.parts, g.deleted \ {e}, x, y)
    BY <1>4, <1>5, JoinedMeans
  <2>2. Joined(Simple(g), x, y) <=> AdjacentIn(g.parts, g.deleted, x, y)
    BY JoinedMeans
  <2>3. {x, y} = e <=> (x = u /\ y = v) \/ (x = v /\ y = u)
    BY <1>3
  <2>4. {x, y} = e => Part(x) # Part(y)
    BY <1>3, <2>3 DEF AreEnds
  <2> QED
    BY <2>1, <2>2, <2>3, <2>4 DEF AdjacentIn
<1>7. Simple(r).node = V /\ Simple(g).node = V
  BY <1>4 DEF Simple
<1>8. AddsEdge(Simple(r), Simple(g), u, v)
  BY <1>6, <1>7 DEF AddsEdge
<1> QED
  BY <1>3, <1>5, <1>8 DEF r

LEMMA ContractionMerges ==
  ASSUME NEW g, IsGraph(g), NEW e \in g.deleted, NEW u \in e, NEW v \in e \ {u}
  PROVE  Merges(Contraction(Simple(g), u, v), Simple(g), u, v)
<1> DEFINE C == Contraction(Simple(g), u, v)
           V == Vertices(g.parts)
<1>1. AreEnds(g.parts, u, v) /\ e = {u, v}
  BY RestoredAddsEdge
<1>2. u \in V /\ v \in V /\ u # v
  BY <1>1 DEF AreEnds
<1>3. /\ C.node = V \ {v}
      /\ \A x, y \in V \ {v} : x # y =>
            ({x, y} \in C.edge <=> Linked(g.parts, g.deleted, u, v, x, y))
  BY <1>1, ContractionEdges
<1>4. Simple(g).node = V
  BY DEF Simple
<1>5. ~Joined(Simple(g), u, v)
  BY <1>1, <1>2, JoinedMeans DEF AdjacentIn
<1> HIDE DEF C
<1>6. ASSUME NEW x \in V \ {v}, NEW y \in V \ {v}
      PROVE  Joined(C, x, y) <=>
                x # y /\ \/ Joined(Simple(g), x, y)
                         \/ x = u /\ Joined(Simple(g), v, y)
                         \/ y = u /\ Joined(Simple(g), x, v)
  <2>1. /\ Joined(Simple(g), x, y) <=> AdjacentIn(g.parts, g.deleted, x, y)
        /\ Joined(Simple(g), v, y) <=> AdjacentIn(g.parts, g.deleted, v, y)
        /\ Joined(Simple(g), x, v) <=> AdjacentIn(g.parts, g.deleted, x, v)
    BY <1>2, JoinedMeans
  <2>2. Joined(C, x, y) <=> x # y /\ Linked(g.parts, g.deleted, u, v, x, y)
    BY <1>3 DEF Joined, Adjacent
  <2> QED
    BY <2>1, <2>2 DEF Linked
<1>7. Merges(C, Simple(g), u, v)
  BY <1>2, <1>3, <1>4, <1>5, <1>6 DEF Merges
<1> QED
  BY <1>7 DEF C

\* A graph with an edge deleted has as many orientations as the one with the
\* edge, less those of the one with its ends contracted.
LEMMA OrientationsByEdge ==
  ASSUME NEW g, IsGraph(g), NEW e \in g.deleted, NEW u \in e, NEW v \in e \ {u}
  PROVE  CountOf(g) = CountOf(Restored(g, e)) - CountOf(ContractEdge(g, u, v))
<1> DEFINE G == Simple(g)
           P == Simple(Restored(g, e))
           C == Contraction(G, u, v)
           H == Simple(ContractEdge(g, u, v))
           phi == Moves(g.parts, u, v)
<1>1. /\ AreEnds(g.parts, u, v) /\ AddsEdge(P, G, u, v)
      /\ Merges(C, G, u, v)
  BY RestoredAddsEdge, ContractionMerges
<1>2. /\ G.node = Vertices(g.parts) /\ P.node = Vertices(Restored(g, e).parts)
      /\ H.node = Vertices(ContractEdge(g, u, v).parts)
  BY DEF Simple
<1>3. IsFiniteSet(G.node) /\ IsFiniteSet(C.node)
  <2>1. IsFiniteSet(G.node)
    BY <1>2, GraphFacts
  <2>2. C.node \in SUBSET G.node
    BY DEF Contraction
  <2> HIDE DEF C, G
  <2> QED
    BY <2>1, <2>2, FS_Subset
<1>4. IsIsomorphism(phi, C, H)
  BY <1>1, ContractedIsIsomorphic
<1> HIDE DEF G, P, C, H, phi
<1>5. Cardinality(Acyclic(G, G.node))
         = Cardinality(Acyclic(P, P.node)) - Cardinality(Acyclic(C, C.node))
  BY <1>1, <1>3, DeletionContraction
<1>6. Cardinality(Acyclic(H, H.node)) = Cardinality(Acyclic(C, C.node))
  <2>1. IsFiniteSet(Acyclic(C, C.node))
    BY <1>3, OrientationsAreFinite
  <2>2. OneToOneOnto([O \in Acyclic(C, C.node) |-> Push(phi, O)],
                     Acyclic(C, C.node), Acyclic(H, H.node))
    BY <1>4, IsomorphicOrientations
  <2> QED
    BY <2>1, <2>2, SameSize
<1> QED
  BY <1>2, <1>5, <1>6 DEF CountOf, G, P, H

\* What CountAcyclicOrientations takes one edge for.
EdgeOf(g) == CHOOSE x \in g.deleted : TRUE
FirstEnd(g) == CHOOSE x \in EdgeOf(g) : TRUE
SecondEnd(g) == CHOOSE x \in EdgeOf(g) \ {FirstEnd(g)} : TRUE
WithoutEdge(g) == ContractEdge(g, FirstEnd(g), SecondEnd(g))

LEMMA EdgeOfGraph ==
  ASSUME NEW g \in Graphs, g.deleted # {}
  PROVE  LET r == Restored(g, EdgeOf(g))
             c == WithoutEdge(g)
         IN  /\ r \in Graphs /\ c \in Graphs
             /\ CountOf(g) = CountOf(r) - CountOf(c)
             /\ IsFiniteSet(Vertices(g.parts)) /\ IsFiniteSet(g.deleted)
             /\ r.parts = g.parts
             /\ Cardinality(r.deleted) < Cardinality(g.deleted)
             /\ Cardinality(Vertices(c.parts)) < Cardinality(Vertices(g.parts))
<1> DEFINE e == EdgeOf(g)
           u == FirstEnd(g)
           v == SecondEnd(g)
           r == Restored(g, e)
           c == WithoutEdge(g)
<1>1. IsGraph(g)
  BY GraphsAre
<1>2. e \in g.deleted
  BY DEF EdgeOf
<1>3. Cardinality(e) = 2 /\ IsFiniteSet(e)
  BY <1>1, <1>2, GraphFacts
<1>4. PICK x, y \in e : x # y /\ e = {x, y}
  BY <1>3, PairsHaveTwo
<1>5. u \in e /\ v \in e \ {u}
  BY <1>4 DEF FirstEnd, SecondEnd
<1>6. IsGraph(r) /\ AreEnds(g.parts, u, v)
  BY <1>1, <1>2, <1>5, RestoredAddsEdge
<1>7. c = ContractEdge(g, u, v) /\ IsGraph(c)
  BY <1>1, <1>6, ContractedFacts DEF WithoutEdge
<1>8. c = [parts |-> c.parts, deleted |-> c.deleted]
  BY <1>7 DEF ContractEdge
<1>9. r \in Graphs /\ c \in Graphs
  <2>1. r \in Graphs
    BY <1>6, GraphsAre DEF Restored
  <2> HIDE DEF c
  <2>2. c \in Graphs
    BY <1>7, <1>8, GraphsAre
  <2> QED
    BY <2>1, <2>2
<1>10. CountOf(g) = CountOf(r) - CountOf(c)
  BY <1>1, <1>2, <1>5, OrientationsByEdge DEF WithoutEdge
<1>11. IsFiniteSet(Vertices(g.parts)) /\ IsFiniteSet(g.deleted)
  BY <1>1, GraphFacts
<1>12. r.parts = g.parts /\ r.deleted = g.deleted \ {e}
  BY DEF Restored
<1>13. Cardinality(r.deleted) < Cardinality(g.deleted)
  <2>1. Cardinality(g.deleted \ {e}) = Cardinality(g.deleted) - 1
    BY <1>2, <1>11, FS_RemoveElement
  <2>2. Cardinality(g.deleted) \in Nat
    BY <1>11, FS_CardinalityType
  <2> QED
    BY <1>12, <2>1, <2>2
<1>14. Cardinality(Vertices(c.parts)) < Cardinality(Vertices(g.parts))
  <2> DEFINE V == Vertices(g.parts)
             C == Contraction(Simple(g), u, v)
             f == Moves(g.parts, u, v)
  <2>1. IsIsomorphism(f, C, Simple(c))
    BY <1>1, <1>6, <1>7, ContractedIsIsomorphic
  <2>2. C.node = V \ {v} /\ Simple(c).node = Vertices(c.parts)
    BY DEF Contraction, Simple
  <2>3. OneToOneOnto(f, V \ {v}, Vertices(c.parts))
    BY <2>1, <2>2 DEF IsIsomorphism
  <2>4. v \in V
    BY <1>6 DEF AreEnds
  <2> HIDE DEF V, C, f, v, c
  <2>5. IsFiniteSet(V \ {v}) /\ Cardinality(V \ {v}) = Cardinality(V) - 1
    BY <1>11, <2>4, FS_RemoveElement DEF V
  <2>6. Cardinality(Vertices(c.parts)) = Cardinality(V \ {v})
    BY <2>3, <2>5, SameSize
  <2>7. Cardinality(V) \in Nat
    BY <1>11, FS_CardinalityType DEF V
  <2> QED
    BY <2>5, <2>6, <2>7 DEF V
<1> QED
  BY <1>9, <1>10, <1>11, <1>12, <1>13, <1>14

\* f is what the definition of CountAcyclicOrientations says.
Deletes(f) ==
    f = [g \in Graphs |->
           IF g.deleted = {} THEN CountOfComplete(g.parts)
           ELSE LET e == CHOOSE x \in g.deleted : TRUE
                    u == CHOOSE x \in e : TRUE
                    v == CHOOSE x \in e \ {u} : TRUE
                IN  f[[parts |-> g.parts, deleted |-> g.deleted \ {e}]]
                    - f[ContractEdge(g, u, v)]]

LEMMA DeletesMeans ==
  ASSUME NEW f
  PROVE  Deletes(f) <=>
           f = [g \in Graphs |->
                  IF g.deleted = {} THEN CountOfComplete(g.parts)
                  ELSE f[Restored(g, EdgeOf(g))] - f[WithoutEdge(g)]]
BY DEF Deletes, Restored, WithoutEdge, EdgeOf, FirstEnd, SecondEnd

\* The definition of CountAcyclicOrientations is met by a function.
LEMMA CountsDelete == \E f : Deletes(f)
<1> DEFINE f == [g \in Graphs |-> CountOf(g)]
           step(g) == IF g.deleted = {} THEN CountOfComplete(g.parts)
                      ELSE f[Restored(g, EdgeOf(g))] - f[WithoutEdge(g)]
<1>1. ASSUME NEW g \in Graphs PROVE f[g] = step(g)
  <2>1. CASE g.deleted = {}
    BY <2>1, CompleteIsCounted
  <2>2. CASE g.deleted # {}
    <3>1. /\ Restored(g, EdgeOf(g)) \in Graphs /\ WithoutEdge(g) \in Graphs
          /\ CountOf(g) = CountOf(Restored(g, EdgeOf(g))) - CountOf(WithoutEdge(g))
      BY <2>2, EdgeOfGraph
    <3> QED
      BY <2>2, <3>1
  <2> QED
    BY <2>1, <2>2
<1>2. f = [g \in Graphs |-> f[g]]
  OBVIOUS
<1> HIDE DEF f, step
<1>3. f = [g \in Graphs |-> step(g)]
  BY <1>1, <1>2
<1> QED
  BY <1>3, DeletesMeans DEF step

\* Every function that meets it counts: a graph of which it did not, with the
\* fewest vertices and then the fewest deleted edges, would be counted by a step.
LEMMA DeletingCounts ==
  ASSUME NEW f, Deletes(f), NEW g \in Graphs
  PROVE  f[g] = CountOf(g)
<1> DEFINE X == {h \in Graphs : f[h] # CountOf(h)}
           N(h) == Cardinality(Vertices(h.parts))
           D(h) == Cardinality(h.deleted)
<1>1. SUFFICES ASSUME X # {} PROVE FALSE
  OBVIOUS
<1>2. \A h \in X : h \in Graphs /\ N(h) \in Nat /\ D(h) \in Nat
  <2> TAKE h \in X
  <2>1. h \in Graphs /\ IsGraph(h)
    BY GraphsAre
  <2>2. IsFiniteSet(Vertices(h.parts)) /\ IsFiniteSet(h.deleted)
    BY <2>1, GraphFacts
  <2> QED
    BY <2>1, <2>2, FS_CardinalityType
<1>3. PICK n \in {N(h) : h \in X} : \A k \in {N(h) : h \in X} : n <= k
  <2>1. {N(h) : h \in X} \in SUBSET Nat /\ {N(h) : h \in X} # {}
    BY <1>1, <1>2
  <2> QED
    BY <2>1, LeastNumber
<1> DEFINE Y == {h \in X : N(h) = n}
<1>4. PICK d \in {D(h) : h \in Y} : \A k \in {D(h) : h \in Y} : d <= k
  <2>1. {D(h) : h \in Y} \in SUBSET Nat /\ {D(h) : h \in Y} # {}
    BY <1>2, <1>3
  <2> QED
    BY <2>1, LeastNumber
<1>5. PICK h \in Y : D(h) = d
  BY <1>4
<1>6. /\ h \in Graphs /\ f[h] # CountOf(h) /\ N(h) = n /\ n \in Nat /\ d \in Nat
      /\ \A k \in X : n <= N(k)
      /\ \A k \in X : N(k) = n => d <= D(k)
  BY <1>2, <1>3, <1>4, <1>5
<1>7. f[h] = IF h.deleted = {} THEN CountOfComplete(h.parts)
             ELSE f[Restored(h, EdgeOf(h))] - f[WithoutEdge(h)]
  <2>1. f = [k \in Graphs |->
               IF k.deleted = {} THEN CountOfComplete(k.parts)
               ELSE f[Restored(k, EdgeOf(k))] - f[WithoutEdge(k)]]
    BY DeletesMeans
  <2> QED
    BY <1>6, <2>1
<1>8. h.deleted # {}
  BY <1>6, <1>7, CompleteIsCounted
<1> DEFINE r == Restored(h, EdgeOf(h))
           c == WithoutEdge(h)
<1>9. /\ r \in Graphs /\ c \in Graphs /\ CountOf(h) = CountOf(r) - CountOf(c)
      /\ N(r) = n /\ D(r) < D(h) /\ N(c) < N(h)
  BY <1>6, <1>8, EdgeOfGraph
<1>10. r \notin X
  <2> HIDE DEF r, c, X, Y
  <2>1. ASSUME r \in X PROVE FALSE
    BY <1>2, <1>5, <1>6, <1>9, <2>1
  <2> QED
    BY <2>1
<1>11. c \notin X
  <2> HIDE DEF r, c, X, Y
  <2>1. ASSUME c \in X PROVE FALSE
    BY <1>2, <1>6, <1>9, <2>1
  <2> QED
    BY <2>1
<1>12. f[r] = CountOf(r) /\ f[c] = CountOf(c)
  BY <1>9, <1>10, <1>11
<1> QED
  BY <1>6, <1>7, <1>8, <1>9, <1>12

\* CountAcyclicOrientations of every graph that is reached is the number of its
\* acyclic orientations.
THEOREM OrientationsAreCounted == Spec => []OrientationsCount
<1>1. GraphIInv => OrientationsCount
  <2> SUFFICES ASSUME GraphIInv PROVE OrientationsCount
    OBVIOUS
  <2>1. IsGraph(graph) /\ graph = [parts |-> graph.parts, deleted |-> graph.deleted]
    BY DEF GraphIInv, TypeOK, IsGraph
  <2>2. graph \in Graphs
    BY <2>1, GraphsAre
  <2>3. CountAcyclicOrientations = CHOOSE f : Deletes(f)
    BY DEF CountAcyclicOrientations, Deletes
  <2>4. Deletes(CountAcyclicOrientations)
    BY <2>3, CountsDelete
  <2>5. CountAcyclicOrientations[graph] = CountOf(graph)
    BY <2>2, <2>4, DeletingCounts
  <2>6. IsFiniteSet(Simple(graph).node) /\ Simple(graph).node = Vertices(graph.parts)
    BY <2>1, GraphFacts DEF Simple
  <2>7. AcyclicOrientations(Simple(graph))
           = Acyclic(Simple(graph), Vertices(graph.parts))
    BY <2>6, AcyclicOrientationsAre
  <2> QED
    BY <2>5, <2>7 DEF OrientationsCount, CountOf
<1>2. GraphIInv /\ [Next]_graph => GraphIInv'
  BY NextGraphIInv
<1> QED
  BY <1>1, <1>2, InitGraphIInv, PTL DEF Spec

=============================================================================
