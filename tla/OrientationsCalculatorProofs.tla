-------------------- MODULE OrientationsCalculatorProofs --------------------
(***************************************************************************)
(* Proofs about OptParser, in the program that OrientationsCalculator      *)
(* models: for every command line, of any length, Parse throws exactly if  *)
(* it is wrong, and if not gives each option what belongs to it.  Then     *)
(* about the calculator itself: for every input it answers what was asked. *)
(***************************************************************************)
EXTENDS OrientationsCalculator, FiniteSetTheorems, SequenceTheorems,
        WellFoundedInduction, TLAPS

-----------------------------------------------------------------------------
(* The definition of IsName is met by a function                           *)

LEMMA LeastNumber ==
  ASSUME NEW S \in SUBSET Nat, S # {}
  PROVE  \E x \in S : \A y \in S : x <= y
<1> DEFINE R == OpToRel(<, Nat)
<1>1. IsWellFoundedOn(R, Nat)
  BY NatLessThanWellFounded
<1>2. \A x, y \in Nat : <<x, y>> \in R <=> x < y
  BY DEF OpToRel
<1>3. PICK x \in S : \A y \in S : ~(<<y, x>> \in R)
  <2> HIDE DEF R
  <2> QED
    BY <1>1, WFMin, Zenon
<1> HIDE DEF R
<1>4. \A y \in S : ~(y < x) /\ y \in Nat /\ x \in Nat
  BY <1>2, <1>3
<1> QED
  BY <1>4

\* N is the set of the names up to x, if D are the words with a dash and T
\* those that take the next word for their value.
AreNames(N, x, D, T) ==
    \A i \in 0..x :
        i \in N <=> i > 0 /\ i \in D /\ ~(i - 1 \in N /\ i - 1 \in T)

LEMMA NamesExist ==
  ASSUME NEW D, NEW T
  PROVE  \A x \in Nat : \E N : AreNames(N, x, D, T)
<1> DEFINE S == {x \in Nat : ~\E N : AreNames(N, x, D, T)}
<1>1. ASSUME S # {}
      PROVE  FALSE
  <2>1. PICK x \in S : \A y \in S : x <= y
    BY <1>1, LeastNumber
  <2>2. x # 0
    <3>1. AreNames({}, 0, D, T)
      BY DEF AreNames
    <3> QED
      BY <3>1
  <2>3. x \in Nat /\ x - 1 \in Nat /\ x - 1 < x /\ x - 1 \in 0..(x - 1) /\ x > 0
    BY <2>2
  <2>4. PICK N : AreNames(N, x - 1, D, T)
    BY <2>1, <2>3
  <2> DEFINE M == {i \in N : i \in 0..(x - 1)} \cup
                  {i \in {x} : x \in D /\ ~(x - 1 \in N /\ x - 1 \in T)}
  <2>5. ASSUME NEW i \in 0..x
        PROVE  i \in M <=> i > 0 /\ i \in D /\ ~(i - 1 \in M /\ i - 1 \in T)
    <3>1. CASE i = x
      <4>1. x \notin 0..(x - 1)
        BY <2>3
      <4>2. x - 1 \in M <=> x - 1 \in N
        BY <2>3
      <4>3. x \in M <=> x \in D /\ ~(x - 1 \in N /\ x - 1 \in T)
        BY <4>1
      <4> HIDE DEF M
      <4> QED
        BY <2>3, <3>1, <4>2, <4>3
    <3>2. CASE i # x
      <4>1. /\ i \in 0..(x - 1) /\ i \in Nat
            /\ i > 0 => i - 1 \in 0..(x - 1) /\ i - 1 # x
        BY <2>3, <3>2
      <4>2. i \in M <=> i \in N
        BY <3>2, <4>1
      <4>3. i > 0 => (i - 1 \in M <=> i - 1 \in N)
        BY <4>1
      <4>4. i \in N <=> i > 0 /\ i \in D /\ ~(i - 1 \in N /\ i - 1 \in T)
        BY <2>4, <4>1 DEF AreNames
      <4> HIDE DEF M
      <4> QED
        BY <4>2, <4>3, <4>4
    <3> QED
      BY <3>1, <3>2
  <2> HIDE DEF M
  <2>6. AreNames(M, x, D, T)
    BY <2>5 DEF AreNames
  <2> QED
    BY <2>6
<1> QED
  BY <1>1

LEMMA NamesAgree ==
  ASSUME NEW D, NEW T, NEW x \in Nat, NEW y \in Nat, NEW N, NEW M,
         AreNames(N, x, D, T), AreNames(M, y, D, T)
  PROVE  \A i \in 0..x : i \in 0..y => (i \in N <=> i \in M)
<1> DEFINE S == {i \in Nat : i \in 0..x /\ i \in 0..y /\ ~(i \in N <=> i \in M)}
<1>1. ASSUME S # {}
      PROVE  FALSE
  <2>1. PICK i \in S : \A j \in S : i <= j
    BY <1>1, LeastNumber
  <2>2. i \in 0..x /\ i \in 0..y /\ ~(i \in N <=> i \in M)
    BY <2>1
  <2>3. i # 0
    BY <2>2 DEF AreNames
  <2>4. i - 1 \in Nat /\ i - 1 \in 0..x /\ i - 1 \in 0..y /\ i - 1 < i
    BY <2>2, <2>3
  <2>5. i - 1 \in N <=> i - 1 \in M
    BY <2>1, <2>4
  <2> QED
    BY <2>2, <2>5 DEF AreNames
<1> QED
  BY <1>1

LEMMA IsNameFacts ==
  \A i \in Nat :
     IsName[i] <=> /\ i > 0 /\ IsDashed(argv[i])
                   /\ ~(IsName[i - 1] /\ StoresNext(i - 1))
<1> DEFINE D == {i \in Nat : IsDashed(argv[i])}
           T == {i \in Nat : StoresNext(i)}
           G(x) == CHOOSE N : AreNames(N, x, D, T)
           f == [i \in Nat |-> i \in G(i)]
<1>1. \A x \in Nat : AreNames(G(x), x, D, T)
  <2> HIDE DEF D, T
  <2> QED
    BY NamesExist
<1> HIDE DEF G
<1>2. \A i \in Nat : f[i] <=> i \in G(i)
  OBVIOUS
<1>3. ASSUME NEW i \in Nat
      PROVE  f[i] <=> i > 0 /\ i \in D /\ ~(f[i - 1] /\ i - 1 \in T)
  <2>1. i \in G(i) <=> i > 0 /\ i \in D /\ ~(i - 1 \in G(i) /\ i - 1 \in T)
    <3>1. i \in 0..i
      OBVIOUS
    <3> QED
      BY <1>1, <3>1 DEF AreNames
  <2>2. CASE i = 0
    <3>1. i \notin G(i)
      BY <2>1, <2>2
    <3>2. ~f[i]
      BY <1>2, <3>1
    <3> HIDE DEF f, D, T
    <3> QED
      BY <2>2, <3>2
  <2>3. CASE i # 0
    <3>1. i - 1 \in Nat /\ i - 1 \in 0..i /\ i - 1 \in 0..(i - 1)
      BY <2>3
    <3>2. i - 1 \in G(i) <=> i - 1 \in G(i - 1)
      <4> HIDE DEF D, T
      <4> QED
        BY <1>1, <3>1, NamesAgree
    <3>3. f[i] <=> i \in G(i)
      BY <1>2
    <3>4. f[i - 1] <=> i - 1 \in G(i - 1)
      BY <1>2, <3>1
    <3> HIDE DEF f, D, T
    <3> QED
      BY <2>1, <3>2, <3>3, <3>4
  <2> QED
    BY <2>2, <2>3
<1>4. f = [i \in Nat |-> i > 0 /\ IsDashed(argv[i])
                         /\ ~(f[i - 1] /\ StoresNext(i - 1))]
  <2> DEFINE g == [i \in Nat |-> i > 0 /\ IsDashed(argv[i])
                                   /\ ~(f[i - 1] /\ StoresNext(i - 1))]
  <2>1. ASSUME NEW i \in Nat PROVE f[i] = g[i]
    <3>1. f[i] \in BOOLEAN
      OBVIOUS
    <3>2. i \in D <=> IsDashed(argv[i])
      OBVIOUS
    <3>3. i > 0 => (i - 1 \in T <=> StoresNext(i - 1))
      OBVIOUS
    <3> HIDE DEF f, D, T
    <3>4. g[i] = (i > 0 /\ IsDashed(argv[i])
                    /\ ~(f[i - 1] /\ StoresNext(i - 1)))
      OBVIOUS
    <3> HIDE DEF g
    <3> QED
      BY <1>3, <3>1, <3>2, <3>3, <3>4
  <2>2. f = [i \in Nat |-> f[i]]
    OBVIOUS
  <2> HIDE DEF f
  <2> QED
    BY <2>1, <2>2
<1> HIDE DEF f
<1>5. IsName = [i \in Nat |-> i > 0 /\ IsDashed(argv[i])
                              /\ ~(IsName[i - 1] /\ StoresNext(i - 1))]
  BY <1>4 DEF IsName
<1> HIDE DEF IsName
<1> QED
  BY <1>5

\* What an argument is depends on the command line only.
LEMMA CommandLineStays ==
  ASSUME argv' = argv, program' = program
  PROVE  /\ IsName' = IsName /\ Options' = Options
         /\ FreeArguments' = FreeArguments
         /\ Wrong' = Wrong
<1>1. IsName' = IsName
  BY DEF IsName, IsDashed, StoresNext, NamedBy, Options
<1>2. Options' = Options /\ FreeArguments' = FreeArguments
  BY DEF Options, FreeArguments
<1>3. Wrong' = Wrong
  BY <1>1 DEF Wrong, Positions, NamedBy, StoresNext, FreeRuns, IsFree, IsValue,
     BelongsTo, Appends, NamesOf, ValuesOf, Options, FreeArguments
<1> QED
  BY <1>1, <1>2, <1>3

-----------------------------------------------------------------------------
(* The options of the programs                                             *)

\* An option that is not required, and one that is, has no default and collects
\* what it gets.
IsPlain(o, names, handler) ==
    o.names = names /\ o.handler = handler /\ o.required = FALSE
IsRequired(o, names, handler) ==
    /\ o.names = names /\ o.handler = handler
    /\ o.before = <<>> /\ o.default = <<>>

LEMMA OptionRecords ==
  ASSUME NEW names, NEW handler, NEW type, NEW before, NEW value
  PROVE  LET o == Option(names, handler, type, before)
         IN  /\ IsPlain(o, names, handler)
             /\ before = <<>> => IsRequired(Required(o), names, handler)
             /\ IsPlain(Default(o, value), names, handler)
<1>1. IsPlain(Option(names, handler, type, before), names, handler)
  BY DEF IsPlain, Option
<1>2. before = <<>> =>
         IsRequired(Required(Option(names, handler, type, before)), names,
                    handler)
  BY DEF IsRequired, Required, Option
<1>3. IsPlain(Default(Option(names, handler, type, before), value), names,
              handler)
  BY DEF IsPlain, Default, Option
<1> QED
  BY <1>1, <1>2, <1>3

\* What Parse relies on: it knows the handlers, no word names two options, no
\* option is required and has a default, and one that repeats begins with
\* nothing.
GoodOptions(options) ==
    /\ \A o \in DOMAIN options :
          /\ options[o].handler \in {"Store", "AppendTo", "SetFlag"}
          /\ options[o].required => options[o].default = <<>>
          /\ options[o].handler = "AppendTo" =>
                options[o].before = <<>> /\ options[o].default = <<>>
    /\ \A o, q \in DOMAIN options : \A word :
          word \in options[o].names /\ word \in options[q].names => o = q

LEMMA GraphCasesOptions == GoodOptions(GraphCases)
<1> DEFINE G == GraphCases
<1>1. DOMAIN G = {"s", "t", "threadCount", "outputFile", "computeAll",
                  "writeAllEdges"}
  BY DEF GraphCases
<1>2. /\ IsRequired(G.s, {"-s"}, "AppendTo")
      /\ IsRequired(G.t, {"-t", "-t4"}, "AppendTo")
      /\ IsPlain(G.threadCount, {"--thread-count"}, "Store")
      /\ IsPlain(G.outputFile, {"--output-file"}, "Store")
      /\ IsPlain(G.computeAll, {"--compute-all"}, "SetFlag")
      /\ IsPlain(G.writeAllEdges, {"--write-all-edges"}, "SetFlag")
  BY OptionRecords DEF GraphCases
<1> HIDE DEF G
<1>3. \A o \in DOMAIN G :
         /\ G[o].handler \in {"Store", "AppendTo", "SetFlag"}
         /\ G[o].required => G[o].default = <<>>
         /\ G[o].handler = "AppendTo" =>
               G[o].before = <<>> /\ G[o].default = <<>>
  BY <1>1, <1>2 DEF IsPlain, IsRequired
<1>4. \A o, q \in DOMAIN G : \A word :
         word \in G[o].names /\ word \in G[q].names => o = q
  BY <1>1, <1>2 DEF IsPlain, IsRequired
<1> QED
  BY <1>3, <1>4 DEF GoodOptions, G

LEMMA InvariantExplorerOptions == GoodOptions(InvariantExplorer)
<1> DEFINE G == InvariantExplorer
<1>1. DOMAIN G = {"graph", "maxEdgeNumber", "invariant", "threadCount",
                  "maxQueueSize"}
  BY DEF InvariantExplorer
<1>2. /\ IsRequired(G.graph, {}, "AppendTo")
      /\ IsPlain(G.maxEdgeNumber, {"-e", "--max-edge-number"}, "Store")
      /\ IsPlain(G.invariant, {"-i", "--invariant"}, "Store")
      /\ IsPlain(G.threadCount, {"-t", "-t4", "--thread-count"}, "Store")
      /\ IsPlain(G.maxQueueSize, {"--max-queue-size"}, "Store")
  BY OptionRecords DEF InvariantExplorer
<1> HIDE DEF G
<1>3. \A o \in DOMAIN G :
         /\ G[o].handler \in {"Store", "AppendTo", "SetFlag"}
         /\ G[o].required => G[o].default = <<>>
         /\ G[o].handler = "AppendTo" =>
               G[o].before = <<>> /\ G[o].default = <<>>
  BY <1>1, <1>2 DEF IsPlain, IsRequired
<1>4. \A o, q \in DOMAIN G : \A word :
         word \in G[o].names /\ word \in G[q].names => o = q
  BY <1>1, <1>2 DEF IsPlain, IsRequired
<1> QED
  BY <1>3, <1>4 DEF GoodOptions, G

LEMMA CalculatorOptions == GoodOptions(Calculator)
<1> DEFINE G == Calculator
<1>1. DOMAIN G = {"inputFile", "outputFile"}
  BY DEF Calculator
<1>2. /\ IsPlain(G.inputFile, {"-i", "--input-file"}, "Store")
      /\ IsPlain(G.outputFile, {"-o", "--output-file"}, "Store")
  BY OptionRecords DEF Calculator
<1> HIDE DEF G
<1>3. \A o \in DOMAIN G :
         /\ G[o].handler \in {"Store", "AppendTo", "SetFlag"}
         /\ G[o].required => G[o].default = <<>>
         /\ G[o].handler = "AppendTo" =>
               G[o].before = <<>> /\ G[o].default = <<>>
  BY <1>1, <1>2 DEF IsPlain, IsRequired
<1>4. \A o, q \in DOMAIN G : \A word :
         word \in G[o].names /\ word \in G[q].names => o = q
  BY <1>1, <1>2 DEF IsPlain, IsRequired
<1> QED
  BY <1>3, <1>4 DEF GoodOptions, G

LEMMA OptionsAreGood ==
  ASSUME program \in Programs
  PROVE  GoodOptions(Options)
<1>1. Options \in {GraphCases, InvariantExplorer, Calculator}
  BY DEF Options, OptionsOf, Programs
<1> QED
  BY <1>1, GraphCasesOptions, InvariantExplorerOptions, CalculatorOptions

\* The only free argument is the graph of invariant_explorer.
LEMMA FreeArgumentIs ==
  ASSUME program \in Programs
  PROVE  \/ FreeArguments = <<>>
         \/ /\ FreeArguments = <<"graph">>
            /\ "graph" \in DOMAIN Options
            /\ Options["graph"].handler = "AppendTo"
<1>1. CASE program = "invariant_explorer"
  <2>1. FreeArguments = <<"graph">>
    BY <1>1 DEF FreeArguments, FreeArgumentsOf
  <2>2. Options = InvariantExplorer
    BY <1>1 DEF Options, OptionsOf, Programs
  <2>3. /\ "graph" \in DOMAIN InvariantExplorer
        /\ InvariantExplorer["graph"].handler = "AppendTo"
    BY OptionRecords DEF InvariantExplorer, IsRequired
  <2> QED
    BY <2>1, <2>2, <2>3
<1>2. CASE program # "invariant_explorer"
  BY <1>2 DEF FreeArguments, FreeArgumentsOf
<1> QED
  BY <1>1, <1>2

LEMMA NamesAreDashed ==
  /\ \A word : word \in Names(program) => IsDashed(word)
  /\ \A word : word \in Names(program)
                  <=> \E o \in DOMAIN Options : word \in Options[o].names
BY DEF Names, IsDashed, Dashed, Options

-----------------------------------------------------------------------------
(* What an argument is                                                     *)

\* m is the first position in D, of those from i to n, or n + 1.
IsFirst(m, D, i, n) ==
    /\ {j \in i..n : \A l \in i..j : l \notin D} = i..(m - 1)
    /\ \A l \in i..(m - 1) : l \notin D
    /\ m <= n => m \in D
    /\ Cardinality(i..(m - 1)) = m - i

LEMMA FirstExists ==
  ASSUME NEW D, NEW n \in Nat, NEW i \in 1..(n + 1)
  PROVE  \E m \in i..(n + 1) : IsFirst(m, D, i, n)
<1> DEFINE S == {j \in i..(n + 1) : j = n + 1 \/ j \in D}
<1>1. PICK m \in S : \A j \in S : m <= j
  <2>1. S \in SUBSET Nat /\ n + 1 \in S
    OBVIOUS
  <2> HIDE DEF S
  <2> QED
    BY <2>1, LeastNumber
<1>2. m \in i..(n + 1) /\ (m <= n => m \in D)
  BY <1>1
<1>3. \A l \in i..(m - 1) : l \notin D
  <2>1. ASSUME NEW l \in i..(m - 1), l \in D
        PROVE  FALSE
    <3>1. l \in i..(n + 1) /\ l < m
      BY <1>2
    <3>2. l \in S
      BY <3>1, <2>1
    <3> QED
      BY <1>1, <3>1, <3>2
  <2> QED
    BY <2>1
<1> HIDE DEF S
<1>4. {j \in i..n : \A l \in i..j : l \notin D} = i..(m - 1)
  <2>1. ASSUME NEW j \in i..n, \A l \in i..j : l \notin D
        PROVE  j \in i..(m - 1)
    <3>1. CASE m <= j
      <4>1. m \in i..j /\ m <= n
        BY <1>2, <3>1
      <4> QED
        BY <1>2, <2>1, <4>1
    <3>2. CASE ~(m <= j)
      BY <1>2, <3>2
    <3> QED
      BY <3>1, <3>2
  <2>2. ASSUME NEW j \in i..(m - 1)
        PROVE  j \in i..n /\ \A l \in i..j : l \notin D
    <3>1. j \in i..n /\ \A l \in i..j : l \in i..(m - 1)
      BY <1>2
    <3> QED
      BY <1>3, <3>1
  <2> QED
    BY <2>1, <2>2
<1>5. Cardinality(i..(m - 1)) = m - i
  <2>1. i \in Int /\ m - 1 \in Int /\ m \in Int /\ i <= m
    BY <1>2
  <2>2. Cardinality(i..(m - 1)) = IF i > m - 1 THEN 0 ELSE (m - 1) - i + 1
    BY <2>1, FS_Interval
  <2> QED
    BY <2>1, <2>2
<1> QED
  BY <1>2, <1>3, <1>4, <1>5 DEF IsFirst

\* The arguments from P to before Q have no dash, and Q ends them.
PlainUpTo(P, Q) ==
    /\ Q \in P..(Len(argv) + 1)
    /\ \A l \in P..(Q - 1) : ~IsDashed(argv[l])
    /\ Q <= Len(argv) => IsDashed(argv[Q])

\* words are the arguments from P to before Q.
AreWords(words, P, Q) ==
    /\ words \in Seq(STRING) /\ Len(words) = Q - P
    /\ \A j \in 1..(Q - P) : words[j] = argv[P + j - 1]

LEMMA RunFacts ==
  ASSUME argv \in Seq(STRING), NEW P \in 1..(Len(argv) + 1)
  PROVE  \E Q : /\ PlainUpTo(P, Q) /\ P + Len(Run(P)) = Q
               /\ AreWords(Run(P), P, Q)
<1> DEFINE n == Len(argv)
           D == {l \in Nat : IsDashed(argv[l])}
           taken == {j \in P..n : \A l \in P..j : ~IsDashed(argv[l])}
<1>1. n \in Nat /\ P \in Nat
  OBVIOUS
<1>2. PICK Q \in P..(n + 1) : IsFirst(Q, D, P, n)
  <2> HIDE DEF D, n
  <2> QED
    BY <1>1, FirstExists DEF n
<1>3. taken = {j \in P..n : \A l \in P..j : l \notin D}
  <2>1. \A l \in Nat : l \in D <=> IsDashed(argv[l])
    OBVIOUS
  <2>2. \A j \in P..n : \A l \in P..j : l \in Nat
    BY <1>1
  <2> HIDE DEF D, n
  <2> QED
    BY <2>1, <2>2
<1>4. PlainUpTo(P, Q)
  <2>1. \A l \in P..(Q - 1) : l \in Nat
    BY <1>1, <1>2
  <2> QED
    BY <1>2, <2>1 DEF PlainUpTo, IsFirst
<1>5. Run(P) = SubSeq(argv, P, P - 1 + Cardinality(taken))
  BY DEF Run
<1> HIDE DEF taken, D
<1>6. Cardinality(taken) = Q - P
  BY <1>2, <1>3 DEF IsFirst
<1>7. P - 1 + Cardinality(taken) = Q - 1
  BY <1>1, <1>2, <1>6
<1>8. AreWords(SubSeq(argv, P, Q - 1), P, Q)
  <2>1. P \in Int /\ Q - 1 \in Int /\ (Q - 1) - P + 1 = Q - P
    BY <1>1, <1>2
  <2>2. \A l \in P..(Q - 1) : argv[l] \in STRING
    <3>1. \A l \in P..(Q - 1) : l \in 1..Len(argv)
      BY <1>1, <1>2
    <3> QED
      BY <3>1
  <2> DEFINE words == SubSeq(argv, P, Q - 1)
  <2>3. /\ words \in Seq(STRING)
        /\ Len(words) = IF P <= Q - 1 THEN (Q - 1) - P + 1 ELSE 0
        /\ \A j \in 1..((Q - 1) - P + 1) : words[j] = argv[P + j - 1]
    BY <2>1, <2>2, SubSeqProperties
  <2> HIDE DEF words
  <2>4. Len(words) = Q - P
    BY <1>1, <1>2, <2>3
  <2> QED
    BY <2>1, <2>3, <2>4 DEF AreWords
<1> QED
  BY <1>1, <1>2, <1>4, <1>5, <1>7, <1>8 DEF AreWords

-----------------------------------------------------------------------------
(* What Parse has before it, and what it takes                             *)

\* Where Parse stands between two of its steps: no name waits for its value,
\* every name before P is that of an option, and an argument without a dash
\* starts a run of free ones.
Stands(P) ==
    /\ P \in 1..(Len(argv) + 1)
    /\ ~IsValue(P)
    /\ P <= Len(argv) /\ ~IsDashed(argv[P]) => P \in FreeRuns
    /\ \A i \in 1..(P - 1) : IsName[i] => NamedBy(i) # {}

\* The arguments from P to before Q are one run of free arguments, ...
IsFreeRun(P, Q) ==
    /\ P < Q
    /\ \A i \in P..(Q - 1) : ~IsName[i] /\ IsFree(i)
    /\ \A i \in (P + 1)..(Q - 1) : IsFree(i - 1)

\* ... or a name of option o and what o takes.
IsOption(P, Q, o) ==
    /\ P < Q
    /\ IsName[P] /\ NamedBy(P) = {o}
    /\ \A i \in P..(Q - 1) : ~IsFree(i)
    /\ \A i \in (P + 1)..(Q - 1) : ~IsName[i]

LEMMA ValueFacts ==
  ASSUME NEW i \in Nat
  PROVE  /\ IsValue(i + 1) <=> IsName[i] /\ StoresNext(i)
         /\ ~IsDashed(argv[i]) => ~IsName[i]
         /\ IsName[i] <=> i > 0 /\ IsDashed(argv[i]) /\ ~IsValue(i)
<1>1. i + 1 - 1 = i
  OBVIOUS
<1>2. IsValue(i + 1) <=> IsName[i] /\ StoresNext(i)
  BY <1>1 DEF IsValue
<1>3. IsName[i] <=> i > 0 /\ IsDashed(argv[i]) /\ ~IsValue(i)
  BY IsNameFacts DEF IsValue
<1> QED
  BY <1>2, <1>3

\* Behind an argument that is no name and no value, arguments without a dash
\* are free as long as that one is.
LEMMA FreeStays ==
  ASSUME argv \in Seq(STRING), NEW i \in Nat, ~IsDashed(argv[i + 1]),
         IsFree(i)
  PROVE  IsFree(i + 1) /\ ~IsName[i + 1]
<1>1. ~IsName[i + 1] /\ ~IsValue(i + 1)
  <2>1. ~IsName[i] /\ i + 1 \in Nat
    BY DEF IsFree
  <2>2. ~IsValue(i + 1)
    BY <2>1, ValueFacts
  <2>3. ~IsName[i + 1]
    BY <2>1, ValueFacts
  <2> QED
    BY <2>2, <2>3
<1>2. ASSUME NEW j \in Positions, BelongsTo(i + 1, j)
      PROVE  FALSE
  <2>1. /\ j \in Nat /\ j < i + 1 /\ IsName[j] /\ Appends(j)
        /\ \A l \in (j + 1)..(i + 1) : ~IsName[l] /\ ~IsValue(l)
    BY <1>2 DEF BelongsTo, Positions
  <2>2. j # i
    BY <2>1 DEF IsFree
  <2>3. j < i /\ \A l \in (j + 1)..i : l \in (j + 1)..(i + 1)
    BY <2>1, <2>2
  <2>4. BelongsTo(i, j)
    BY <2>1, <2>3 DEF BelongsTo
  <2> QED
    BY <2>4 DEF IsFree
<1> QED
  BY <1>1, <1>2 DEF IsFree

\* Nothing behind a name belongs to an earlier name.
LEMMA NothingBelongs ==
  ASSUME argv \in Seq(STRING), NEW P \in Nat, NEW i \in Nat, P < i,
         IsName[P], ~Appends(P), \A j \in (P + 1)..i : ~IsName[j]
  PROVE  \A j \in Positions : ~BelongsTo(i, j)
<1>1. ASSUME NEW j \in Positions, BelongsTo(i, j)
      PROVE  FALSE
  <2>1. /\ j \in Nat /\ j < i /\ IsName[j] /\ Appends(j)
        /\ \A l \in (j + 1)..i : ~IsName[l]
    BY <1>1 DEF BelongsTo, Positions
  <2>2. j # P /\ ~(P < j)
    BY <2>1
  <2>3. P \in (j + 1)..i
    BY <2>1, <2>2
  <2> QED
    BY <2>1, <2>3
<1> QED
  BY <1>1

LEMMA FreeRunFound ==
  ASSUME argv \in Seq(STRING), NEW P, Stands(P), P <= Len(argv),
         ~IsDashed(argv[P]), NEW Q, PlainUpTo(P, Q)
  PROVE  IsFreeRun(P, Q) /\ Stands(Q)
<1> DEFINE n == Len(argv)
<1>1. /\ n \in Nat /\ P \in Nat /\ P > 0 /\ Q \in Nat /\ P <= Q /\ Q <= n + 1
      /\ P \in FreeRuns /\ ~IsValue(P)
  BY DEF Stands, PlainUpTo
<1>2. P < Q
  BY <1>1 DEF PlainUpTo
<1>3. \A i \in P..(Q - 1) : IsFree(i)
  <2> DEFINE S == {i \in P..(Q - 1) : ~IsFree(i)}
  <2>1. ASSUME S # {}
        PROVE  FALSE
    <3>1. PICK i \in S : \A j \in S : i <= j
      <4>1. S \in SUBSET Nat
        BY <1>1
      <4> HIDE DEF S
      <4> QED
        BY <2>1, <4>1, LeastNumber
    <3>2. i # P
      BY <1>1 DEF FreeRuns
    <3>3. i - 1 \in P..(Q - 1) /\ i - 1 \in Nat /\ i - 1 < i /\ i \in P..(Q - 1)
      BY <1>1, <3>1, <3>2
    <3>4. IsFree(i - 1)
      BY <3>1, <3>3
    <3>5. ~IsDashed(argv[i])
      BY <3>3 DEF PlainUpTo
    <3>6. IsFree(i - 1 + 1)
      <4>1. i - 1 + 1 = i
        BY <3>3
      <4> QED
        BY <3>3, <3>4, <3>5, <4>1, FreeStays
    <3>7. i - 1 + 1 = i
      BY <3>3
    <3> QED
      BY <3>1, <3>6, <3>7
  <2> QED
    BY <2>1
<1>4. \A i \in P..(Q - 1) : ~IsName[i]
  BY <1>3 DEF IsFree
<1>5. IsFreeRun(P, Q)
  <2>1. \A i \in (P + 1)..(Q - 1) : i - 1 \in P..(Q - 1)
    BY <1>1
  <2> QED
    BY <1>2, <1>3, <1>4, <2>1 DEF IsFreeRun
<1>6. Stands(Q)
  <2>1. ~IsValue(Q)
    <3>1. Q - 1 \in P..(Q - 1)
      BY <1>1, <1>2
    <3> QED
      BY <1>4, <3>1 DEF IsValue
  <2>2. ASSUME NEW i \in 1..(Q - 1), IsName[i]
        PROVE  NamedBy(i) # {}
    <3>1. ~(i \in P..(Q - 1))
      BY <1>4, <2>2
    <3>2. i \in 1..(P - 1)
      BY <1>1, <3>1
    <3> QED
      BY <2>2, <3>2 DEF Stands
  <2> QED
    BY <1>1, <2>1, <2>2 DEF Stands, PlainUpTo
<1> QED
  BY <1>5, <1>6

LEMMA NameFound ==
  ASSUME argv \in Seq(STRING), NEW P, Stands(P), P <= Len(argv),
         IsDashed(argv[P])
  PROVE  P \in Positions /\ IsName[P]
<1>1. P \in Nat /\ P > 0 /\ ~IsValue(P)
  BY DEF Stands
<1> QED
  BY <1>1, ValueFacts DEF Positions

LEMMA OneName ==
  ASSUME NEW P, NEW o, NamedBy(P) = {o}
  PROVE  /\ StoresNext(P) <=> Options[o].handler = "Store"
         /\ Appends(P) <=> Options[o].handler = "AppendTo"
BY DEF StoresNext, Appends

\* Every name before Q is known, if that at P is and there is none between.
LEMMA StandsBehind ==
  ASSUME argv \in Seq(STRING), NEW P, Stands(P),
         NEW Q \in (P + 1)..(Len(argv) + 1),
         NamedBy(P) # {}, \A i \in (P + 1)..(Q - 1) : ~IsName[i],
         ~IsValue(Q), Q <= Len(argv) /\ ~IsDashed(argv[Q]) => Q \in FreeRuns
  PROVE  Stands(Q)
<1>1. P \in Nat /\ P > 0 /\ Len(argv) \in Nat /\ Q \in Nat /\ P < Q
  BY DEF Stands
<1>2. ASSUME NEW i \in 1..(Q - 1), IsName[i]
      PROVE  NamedBy(i) # {}
  <2>1. i \in 1..(P - 1) \/ i = P \/ i \in (P + 1)..(Q - 1)
    BY <1>1
  <2> QED
    BY <1>2, <2>1 DEF Stands
<1> QED
  BY <1>1, <1>2 DEF Stands

LEMMA StoreFound ==
  ASSUME argv \in Seq(STRING), NEW P, Stands(P), P < Len(argv),
         IsDashed(argv[P]), NEW o, NamedBy(P) = {o},
         Options[o].handler = "Store"
  PROVE  IsOption(P, P + 2, o) /\ Stands(P + 2)
<1> DEFINE n == Len(argv)
<1>1. P \in Nat /\ P > 0 /\ n \in Nat /\ P + 1 \in Nat /\ P + 2 \in Nat
  BY DEF Stands
<1>2. IsName[P] /\ StoresNext(P) /\ ~Appends(P)
  BY <1>1, NameFound, OneName
<1>3. IsValue(P + 1) /\ ~IsName[P + 1] /\ ~IsFree(P + 1) /\ ~IsFree(P)
  <2>1. IsValue(P + 1)
    BY <1>1, <1>2, ValueFacts
  <2> QED
    BY <1>1, <1>2, <2>1, ValueFacts DEF IsFree
<1>4. ~IsValue(P + 2)
  <2>1. (P + 2) - 1 = P + 1
    BY <1>1
  <2> QED
    BY <1>1, <1>3, <2>1 DEF IsValue
<1>5. IsOption(P, P + 2, o)
  <2>1. \A i \in P..((P + 2) - 1) : i = P \/ i = P + 1
    BY <1>1
  <2>2. \A i \in (P + 1)..((P + 2) - 1) : i = P + 1
    BY <1>1
  <2> QED
    BY <1>1, <1>2, <1>3, <2>1, <2>2 DEF IsOption
<1>6. ASSUME P + 2 <= n, ~IsDashed(argv[P + 2])
      PROVE  P + 2 \in FreeRuns
  <2>1. ~IsName[P + 2]
    BY <1>1, <1>6, ValueFacts
  <2>2. \A j \in (P + 1)..(P + 2) : ~IsName[j]
    <3>1. \A j \in (P + 1)..(P + 2) : j = P + 1 \/ j = P + 2
      BY <1>1
    <3> QED
      BY <1>3, <2>1, <3>1
  <2>3. IsFree(P + 2)
    BY <1>1, <1>2, <1>4, <2>1, <2>2, NothingBelongs DEF IsFree
  <2>4. P + 2 \in Positions /\ (P + 2) - 1 = P + 1
    BY <1>1, <1>6 DEF Positions
  <2> QED
    BY <1>1, <1>3, <2>3, <2>4 DEF FreeRuns
<1>7. Stands(P + 2)
  <2>1. P + 2 \in (P + 1)..(n + 1) /\ (P + 2) - 1 = P + 1
    BY <1>1
  <2>2. \A i \in (P + 1)..((P + 2) - 1) : ~IsName[i]
    BY <1>1, <1>5 DEF IsOption
  <2> QED
    BY <1>1, <1>4, <1>6, <2>1, <2>2, StandsBehind
<1> QED
  BY <1>5, <1>7

LEMMA AppendToFound ==
  ASSUME argv \in Seq(STRING), NEW P, Stands(P), P <= Len(argv),
         IsDashed(argv[P]), NEW o, NamedBy(P) = {o},
         Options[o].handler = "AppendTo", NEW Q, PlainUpTo(P + 1, Q)
  PROVE  IsOption(P, Q, o) /\ Stands(Q)
<1> DEFINE n == Len(argv)
<1>1. /\ P \in Nat /\ P > 0 /\ n \in Nat /\ Q \in Nat /\ P < Q
      /\ Q \in (P + 1)..(n + 1)
  BY DEF Stands, PlainUpTo
<1>2. P \in Positions /\ IsName[P] /\ ~StoresNext(P) /\ Appends(P) /\ ~IsFree(P)
  BY <1>1, NameFound, OneName DEF IsFree
<1>3. ASSUME NEW i \in (P + 1)..(Q - 1)
      PROVE  ~IsName[i]
  BY <1>1, ValueFacts DEF PlainUpTo
<1>4. ASSUME NEW i \in (P + 1)..Q
      PROVE  ~IsValue(i)
  <2>1. i \in Nat /\ (i - 1 = P \/ i - 1 \in (P + 1)..(Q - 1))
    BY <1>1
  <2> QED
    BY <1>2, <1>3, <2>1 DEF IsValue
<1>5. ASSUME NEW i \in (P + 1)..(Q - 1)
      PROVE  ~IsFree(i)
  <2>1. /\ P < i
        /\ \A l \in (P + 1)..i : l \in (P + 1)..(Q - 1) /\ l \in (P + 1)..Q
    BY <1>1
  <2>2. BelongsTo(i, P)
    BY <1>2, <1>3, <1>4, <2>1 DEF BelongsTo
  <2> QED
    BY <1>2, <2>2 DEF IsFree
<1>6. IsOption(P, Q, o)
  <2>1. \A i \in P..(Q - 1) : i = P \/ i \in (P + 1)..(Q - 1)
    BY <1>1
  <2> QED
    BY <1>1, <1>2, <1>3, <1>5, <2>1 DEF IsOption
<1>7. Stands(Q)
  <2>1. Q <= n => IsDashed(argv[Q])
    BY DEF PlainUpTo
  <2>2. ~IsValue(Q)
    BY <1>1, <1>4
  <2> QED
    BY <1>1, <1>3, <2>1, <2>2, StandsBehind
<1> QED
  BY <1>6, <1>7

LEMMA SetFlagFound ==
  ASSUME argv \in Seq(STRING), NEW P, Stands(P), P <= Len(argv),
         IsDashed(argv[P]), NEW o, NamedBy(P) = {o},
         Options[o].handler = "SetFlag"
  PROVE  IsOption(P, P + 1, o) /\ Stands(P + 1)
<1> DEFINE n == Len(argv)
<1>1. P \in Nat /\ P > 0 /\ n \in Nat /\ P + 1 \in Nat /\ P + 1 - 1 = P
  BY DEF Stands
<1>2. IsName[P] /\ ~StoresNext(P) /\ ~Appends(P) /\ ~IsFree(P)
  BY <1>1, NameFound, OneName DEF IsFree
<1>3. ~IsValue(P + 1)
  BY <1>1, <1>2, ValueFacts
<1>4. \A i \in (P + 1)..(P + 1 - 1) : FALSE
  BY <1>1
<1>5. IsOption(P, P + 1, o)
  <2>1. \A i \in P..(P + 1 - 1) : i = P
    BY <1>1
  <2> QED
    BY <1>1, <1>2, <1>4, <2>1 DEF IsOption
<1>6. ASSUME P + 1 <= n, ~IsDashed(argv[P + 1])
      PROVE  P + 1 \in FreeRuns
  <2>1. ~IsName[P + 1]
    BY <1>1, <1>6, ValueFacts
  <2>2. \A j \in (P + 1)..(P + 1) : ~IsName[j]
    <3>1. \A j \in (P + 1)..(P + 1) : j = P + 1
      BY <1>1
    <3> QED
      BY <2>1, <3>1
  <2>3. IsFree(P + 1)
    BY <1>1, <1>2, <1>3, <2>1, <2>2, NothingBelongs DEF IsFree
  <2>4. P + 1 \in Positions
    BY <1>1, <1>6 DEF Positions
  <2> QED
    BY <1>1, <1>2, <2>3, <2>4 DEF FreeRuns
<1>7. Stands(P + 1)
  <2>1. P + 1 \in (P + 1)..(n + 1)
    BY <1>1
  <2> QED
    BY <1>3, <1>4, <1>6, <2>1, StandsBehind
<1> QED
  BY <1>5, <1>7

-----------------------------------------------------------------------------
(* What Parse has handled                                                  *)

FreeBefore(P) == {i \in FreeRuns : i < P}

\* Option o has an argument before P.
HasOne(P, o) ==
    \/ \E i \in NamesOf(o) : i < P
    \/ FreeArguments = <<o>> /\ \E i \in Positions : i < P /\ IsFree(i)

\* Parse stands at P, has found k runs of free arguments, and U are the options
\* with an argument so far.
Handled(P, k, U) ==
    /\ Stands(P)
    /\ k \in Nat /\ k <= Len(FreeArguments)
    /\ IsFiniteSet(FreeBefore(P)) /\ Cardinality(FreeBefore(P)) = k
    /\ \A o \in DOMAIN Options : o \in U <=> HasOne(P, o)

LEMMA RunsAreFinite ==
  ASSUME argv \in Seq(STRING)
  PROVE  IsFiniteSet(FreeRuns)
<1>1. FreeRuns \subseteq 1..Len(argv)
  BY DEF FreeRuns, Positions
<1>2. Len(argv) \in Int /\ 1 \in Int
  OBVIOUS
<1>3. IsFiniteSet(1..Len(argv))
  BY <1>2, FS_Interval
<1> QED
  BY <1>1, <1>3, FS_Subset

LEMMA HandledAtFirst ==
  ASSUME argv \in Seq(STRING), program \in Programs
  PROVE  Handled(1, 0, {})
<1>1. ~IsName[0] /\ ~IsValue(1)
  BY IsNameFacts DEF IsValue
<1>2. ASSUME 1 <= Len(argv), ~IsDashed(argv[1])
      PROVE  1 \in FreeRuns
  <2>1. 1 \in Positions /\ ~IsName[1]
    BY <1>2, ValueFacts DEF Positions
  <2>2. \A j \in Positions : ~BelongsTo(1, j)
    BY DEF Positions, BelongsTo
  <2> QED
    BY <1>1, <2>1, <2>2 DEF FreeRuns, IsFree
<1>3. Stands(1)
  <2>1. 1 \in 1..(Len(argv) + 1) /\ 1..(1 - 1) = {}
    OBVIOUS
  <2> QED
    BY <1>1, <1>2, <2>1 DEF Stands
<1>4. FreeBefore(1) = {} /\ \A o : ~HasOne(1, o)
  BY DEF FreeBefore, FreeRuns, Positions, HasOne, NamesOf
<1>5. IsFiniteSet({}) /\ Cardinality({}) = 0
  BY FS_EmptySet
<1>6. Len(FreeArguments) \in Nat
  BY FreeArgumentIs
<1>7. /\ 0 \in Nat /\ 0 <= Len(FreeArguments)
      /\ \A o \in DOMAIN Options : o \in {} <=> HasOne(1, o)
  BY <1>4, <1>6
<1> QED
  BY <1>3, <1>4, <1>5, <1>7 DEF Handled

LEMMA HandledFree ==
  ASSUME argv \in Seq(STRING), program \in Programs, NEW P, NEW k, NEW U,
         Handled(P, k, U), P <= Len(argv), ~IsDashed(argv[P]),
         k < Len(FreeArguments), NEW Q, PlainUpTo(P, Q)
  PROVE  Handled(Q, k + 1, U \cup {FreeArguments[k + 1]})
<1>1. Stands(P) /\ IsFreeRun(P, Q) /\ Stands(Q)
  BY FreeRunFound DEF Handled
<1>2. /\ P \in Nat /\ Q \in Nat /\ P < Q /\ P \in FreeRuns
      /\ \A i \in P..(Q - 1) : ~IsName[i] /\ IsFree(i)
      /\ Len(argv) \in Nat
  BY <1>1 DEF Stands, IsFreeRun
<1>3. k = 0 /\ FreeArguments = <<"graph">> /\ FreeArguments[k + 1] = "graph"
      /\ Len(FreeArguments) = 1
  <2>1. k \in Nat
    BY DEF Handled
  <2>2. FreeArguments = <<"graph">>
    <3>1. FreeArguments # <<>>
      BY <2>1
    <3> QED
      BY <3>1, FreeArgumentIs
  <2>3. Len(FreeArguments) = 1 /\ FreeArguments[1] = "graph"
    BY <2>2
  <2> QED
    BY <2>1, <2>2, <2>3
<1>4. FreeBefore(Q) = FreeBefore(P) \cup {P}
  <2>1. ASSUME NEW i \in FreeRuns, i < Q, ~(i < P), i # P
        PROVE  FALSE
    <3>1. i \in (P + 1)..(Q - 1) /\ i # 1
      BY <1>2, <2>1 DEF FreeRuns, Positions
    <3>2. IsFree(i - 1)
      BY <1>1, <3>1 DEF IsFreeRun
    <3> QED
      BY <3>1, <3>2 DEF FreeRuns
  <2>2. ASSUME NEW i \in FreeRuns
        PROVE  i < Q <=> i < P \/ i = P
    <3>1. i \in Nat
      BY DEF FreeRuns, Positions
    <3> QED
      BY <1>2, <2>1, <3>1
  <2> QED
    BY <1>2, <2>2 DEF FreeBefore
<1>5. IsFiniteSet(FreeBefore(Q)) /\ Cardinality(FreeBefore(Q)) = k + 1
  <2>1. P \notin FreeBefore(P) /\ IsFiniteSet(FreeBefore(P))
        /\ Cardinality(FreeBefore(P)) = k
    BY <1>2 DEF FreeBefore, Handled
  <2> QED
    BY <1>4, <2>1, FS_AddElement
<1>6. ASSUME NEW o \in DOMAIN Options
      PROVE  o \in U \cup {"graph"} <=> HasOne(Q, o)
  <2>1. CASE o = "graph"
    <3>1. P \in Positions /\ IsFree(P)
      BY <1>2 DEF FreeRuns
    <3> QED
      BY <1>2, <1>3, <2>1, <3>1 DEF HasOne
  <2>2. CASE o # "graph"
    <3>1. FreeArguments # <<o>>
      BY <1>3, <2>2
    <3>2. \A i \in NamesOf(o) : i < Q <=> i < P
      <4>1. ASSUME NEW i \in NamesOf(o), i < Q, ~(i < P)
            PROVE  FALSE
        <5>1. i \in P..(Q - 1) /\ IsName[i]
          BY <1>2, <4>1 DEF NamesOf, Positions
        <5> QED
          BY <1>2, <5>1
      <4>2. \A i \in NamesOf(o) : i \in Nat
        BY DEF NamesOf, Positions
      <4> QED
        BY <1>2, <4>1, <4>2
    <3>3. HasOne(Q, o) <=> HasOne(P, o)
      BY <3>1, <3>2 DEF HasOne
    <3> QED
      BY <2>2, <3>3 DEF Handled
  <2> QED
    BY <2>1, <2>2
<1> QED
  BY <1>1, <1>3, <1>5, <1>6 DEF Handled

LEMMA TooManyFree ==
  ASSUME argv \in Seq(STRING), program \in Programs, NEW P, NEW k, NEW U,
         Handled(P, k, U), P <= Len(argv), ~IsDashed(argv[P]),
         k >= Len(FreeArguments)
  PROVE  Wrong
<1>1. P \in FreeRuns /\ P \notin FreeBefore(P) /\ Len(FreeArguments) \in Nat
  <2>1. P \in Nat
    BY DEF Handled, Stands
  <2> QED
    BY <2>1, FreeArgumentIs DEF Handled, Stands, FreeBefore
<1>2. /\ IsFiniteSet(FreeBefore(P) \cup {P})
      /\ Cardinality(FreeBefore(P) \cup {P}) = k + 1
  BY <1>1, FS_AddElement DEF Handled
<1>3. FreeBefore(P) \cup {P} \subseteq FreeRuns
  BY <1>1 DEF FreeBefore
<1>4. Cardinality(FreeRuns) \in Nat /\ Cardinality(FreeRuns) >= k + 1
  BY <1>2, <1>3, RunsAreFinite, FS_Subset, FS_CardinalityType
<1>5. Cardinality(FreeRuns) > Len(FreeArguments)
  BY <1>1, <1>4 DEF Handled
<1> QED
  BY <1>5 DEF Wrong

LEMMA HandledOption ==
  ASSUME argv \in Seq(STRING), NEW P, NEW k, NEW U,
         Handled(P, k, U), NEW Q, NEW o, IsOption(P, Q, o), Stands(Q)
  PROVE  Handled(Q, k, U \cup {o})
<1>1. /\ P \in Nat /\ Q \in Nat /\ P < Q /\ Len(argv) \in Nat /\ P > 0
      /\ Q <= Len(argv) + 1
      /\ IsName[P] /\ NamedBy(P) = {o}
      /\ \A i \in P..(Q - 1) : ~IsFree(i)
      /\ \A i \in (P + 1)..(Q - 1) : ~IsName[i]
  BY DEF Handled, Stands, IsOption
<1>2. ASSUME NEW i \in Positions, IsFree(i)
      PROVE  i < Q <=> i < P
  <2>1. i \in Nat
    BY DEF Positions
  <2>2. i \notin P..(Q - 1)
    BY <1>1, <1>2
  <2> QED
    BY <1>1, <2>1, <2>2
<1>3. FreeBefore(Q) = FreeBefore(P)
  BY <1>2 DEF FreeBefore, FreeRuns
<1>4. ASSUME NEW q \in DOMAIN Options
      PROVE  q \in U \cup {o} <=> HasOne(Q, q)
  <2>1. CASE q = o
    <3>1. P \in NamesOf(o)
      BY <1>1 DEF NamesOf, Positions
    <3> QED
      BY <1>1, <2>1, <3>1 DEF HasOne
  <2>2. CASE q # o
    <3>1. ASSUME NEW i \in NamesOf(q)
          PROVE  i < Q <=> i < P
      <4>1. i \in Nat /\ IsName[i] /\ i # P
        BY <1>1, <2>2 DEF NamesOf, Positions
      <4>2. i \notin (P + 1)..(Q - 1)
        BY <1>1, <4>1
      <4> QED
        BY <1>1, <4>1, <4>2
    <3>2. HasOne(Q, q) <=> HasOne(P, q)
      BY <1>2, <3>1 DEF HasOne
    <3> QED
      BY <2>2, <3>2 DEF Handled
  <2> QED
    BY <2>1, <2>2
<1> QED
  BY <1>3, <1>4 DEF Handled

LEMMA WrongAtTheEnd ==
  ASSUME argv \in Seq(STRING), program \in Programs, NEW P, NEW k, NEW U,
         Handled(P, k, U), P > Len(argv)
  PROVE  Wrong <=> \E o \in DOMAIN Options \ U : Options[o].required
<1>1. P = Len(argv) + 1 /\ Len(argv) \in Nat /\ P \in Nat
  BY DEF Handled, Stands
<1>2. \A i \in Positions : i < P /\ i \in 1..(P - 1)
  BY <1>1 DEF Positions
<1>3. \A i \in Positions : IsName[i] => NamedBy(i) # {}
  BY <1>2 DEF Handled, Stands
<1>4. \A i \in Positions : ~(IsName[i] /\ StoresNext(i) /\ i = Len(argv))
  <2>1. P - 1 = Len(argv)
    BY <1>1
  <2> QED
    BY <2>1 DEF Handled, Stands, IsValue
<1>5. FreeBefore(P) = FreeRuns
  BY <1>2 DEF FreeBefore, FreeRuns
<1>6. ~(Cardinality(FreeRuns) > Len(FreeArguments))
  <2>1. Len(FreeArguments) \in Nat
    BY FreeArgumentIs
  <2> QED
    BY <1>5, <2>1 DEF Handled
<1>7. ASSUME NEW o \in DOMAIN Options
      PROVE  HasOne(P, o) <=> ~(NamesOf(o) = {} /\ ValuesOf(o) = {})
  <2>1. NamesOf(o) # {} <=> \E i \in NamesOf(o) : i < P
    BY <1>2 DEF NamesOf
  <2>2. ASSUME NamesOf(o) = {}
        PROVE  ValuesOf(o) # {}
                  <=> /\ FreeArguments = <<o>>
                      /\ \E i \in Positions : i < P /\ IsFree(i)
    BY <1>2, <2>2 DEF ValuesOf
  <2> QED
    BY <2>1, <2>2 DEF HasOne
<1> QED
  BY <1>3, <1>4, <1>6, <1>7 DEF Wrong, Handled

-----------------------------------------------------------------------------
(* The steps                                                               *)

ParserInv ==
    /\ program \in Programs /\ argv \in Seq(STRING)
    /\ outcome = "parsing" => Handled(optNum, freeArgNum, used)
    /\ WrongLinesAreRejected

\* Where Parse stands next is seen on the command line it began with.
LEMMA HandledNext ==
  ASSUME argv' = argv, program' = program,
         Handled(optNum', freeArgNum', used')
  PROVE  Handled(optNum, freeArgNum, used)'
<1>1. IsName' = IsName /\ Options' = Options /\ FreeArguments' = FreeArguments
  BY CommandLineStays
<1>2. FreeRuns' = FreeRuns
  BY <1>1 DEF FreeRuns, IsFree, IsValue, BelongsTo, Appends, StoresNext,
     NamedBy, Positions
<1>3. FreeBefore(optNum)' = FreeBefore(optNum')
  BY <1>2 DEF FreeBefore
<1>4. Stands(optNum)' <=> Stands(optNum')
  BY <1>1, <1>2 DEF Stands, IsValue, StoresNext, NamedBy, IsDashed
<1>5. \A o : HasOne(optNum, o)' <=> HasOne(optNum', o)
  BY <1>1 DEF HasOne, NamesOf, NamedBy, IsFree, IsValue, BelongsTo, Appends,
     StoresNext, Positions
<1> QED
  BY <1>1, <1>3, <1>4, <1>5 DEF Handled

LEMMA ParserInitially == Init => ParserInv
<1> SUFFICES ASSUME Init
             PROVE  ParserInv
  OBVIOUS
<1>1. program \in Programs /\ argv \in Seq(STRING)
  BY OptParserAssumption DEF Init
<1>2. Handled(optNum, freeArgNum, used)
  BY <1>1, HandledAtFirst DEF Init
<1> QED
  BY <1>1, <1>2 DEF Init, ParserInv, WrongLinesAreRejected

\* A step that ends Parse, and one that goes on.
LEMMA RejectStep ==
  ASSUME ParserInv, Reject, Wrong
  PROVE  ParserInv'
<1>1. argv' = argv /\ program' = program /\ outcome' = "rejected"
  BY DEF Reject
<1>2. Wrong'
  BY <1>1, CommandLineStays
<1> QED
  BY <1>1, <1>2 DEF ParserInv, WrongLinesAreRejected

LEMMA ParsingStep ==
  ASSUME ParserInv, outcome = "parsing",
         UNCHANGED <<program, argv, outcome>>,
         Handled(optNum', freeArgNum', used')
  PROVE  ParserInv'
<1>1. Handled(optNum, freeArgNum, used)'
  BY HandledNext
<1> QED
  BY <1>1 DEF ParserInv, WrongLinesAreRejected

LEMMA FreeArgStep ==
  ASSUME ParserInv, HandleFreeArg
  PROVE  ParserInv'
<1> DEFINE P == optNum
           k == freeArgNum
<1>1. /\ outcome = "parsing" /\ P <= Len(argv) /\ ~IsDashed(argv[P])
      /\ Handled(P, k, used) /\ Stands(P) /\ P \in 1..(Len(argv) + 1)
      /\ argv \in Seq(STRING) /\ program \in Programs
  BY DEF ParserInv, HandleFreeArg, InLoop, Handled, Stands
<1>2. CASE k >= Len(FreeArguments)
  <2>1. Wrong
    BY <1>1, <1>2, TooManyFree
  <2>2. Reject
    BY <1>2 DEF HandleFreeArg
  <2> QED
    BY <2>1, <2>2, RejectStep
<1>3. CASE ~(k >= Len(FreeArguments))
  <2>1. k < Len(FreeArguments) /\ k \in Nat
    BY <1>1, <1>3, FreeArgumentIs DEF Handled
  <2>2. FreeArguments[k + 1] \in DOMAIN Options
        /\ Options[FreeArguments[k + 1]].handler = "AppendTo"
    <3>1. FreeArguments # <<>>
      BY <2>1
    <3>2. FreeArguments = <<"graph">> /\ Len(FreeArguments) = 1
      BY <1>1, <3>1, FreeArgumentIs
    <3>3. k + 1 = 1
      BY <2>1, <3>2
    <3> QED
      BY <1>1, <3>1, <3>2, <3>3, FreeArgumentIs
  <2>3. /\ Handle(FreeArguments[k + 1], P)
        /\ freeArgNum' = k + 1
    BY <1>3 DEF HandleFreeArg
  <2>4. /\ used' = used \cup {FreeArguments[k + 1]}
        /\ optNum' = P + Len(Run(P))
        /\ UNCHANGED <<program, argv, outcome>>
    BY <2>2, <2>3 DEF Handle
  <2>5. PICK Q : PlainUpTo(P, Q) /\ P + Len(Run(P)) = Q
    BY <1>1, RunFacts
  <2>6. Handled(Q, k + 1, used \cup {FreeArguments[k + 1]})
    BY <1>1, <2>1, <2>5, HandledFree
  <2> QED
    BY <1>1, <2>3, <2>4, <2>5, <2>6, ParsingStep
<1> QED
  BY <1>2, <1>3

LEMMA UnknownName ==
  ASSUME argv \in Seq(STRING), NEW P, Stands(P), P <= Len(argv),
         IsDashed(argv[P]), argv[P] \notin Names(program)
  PROVE  Wrong
<1>1. P \in Positions /\ IsName[P]
  BY NameFound
<1>2. NamedBy(P) = {}
  BY NamesAreDashed DEF NamedBy
<1> QED
  BY <1>1, <1>2 DEF Wrong

LEMMA NoValue ==
  ASSUME argv \in Seq(STRING), NEW P, Stands(P), P = Len(argv),
         IsDashed(argv[P]), NEW o, NamedBy(P) = {o},
         Options[o].handler = "Store"
  PROVE  Wrong
<1>1. P \in Positions /\ IsName[P]
  <2>1. P \in Nat /\ P <= Len(argv)
    BY DEF Stands
  <2> QED
    BY <2>1, NameFound
<1>2. StoresNext(P)
  BY OneName
<1> QED
  BY <1>1, <1>2 DEF Wrong

LEMMA OptionStep ==
  ASSUME ParserInv, HandleOption
  PROVE  ParserInv'
<1> DEFINE P == optNum
           k == freeArgNum
<1>1. /\ outcome = "parsing" /\ P <= Len(argv) /\ IsDashed(argv[P])
      /\ Handled(P, k, used) /\ Stands(P) /\ P \in 1..(Len(argv) + 1)
      /\ argv \in Seq(STRING) /\ program \in Programs
  BY DEF ParserInv, HandleOption, InLoop, Handled, Stands
<1>2. CASE argv[P] \notin Names(program)
  <2>1. Wrong
    BY <1>1, <1>2, UnknownName
  <2>2. Reject
    BY <1>2 DEF HandleOption
  <2> QED
    BY <2>1, <2>2, RejectStep
<1>3. CASE argv[P] \in Names(program)
  <2>1. PICK o \in DOMAIN Options : /\ argv[P] \in Options[o].names
                                    /\ Handle(o, P + 1)
                                    /\ UNCHANGED freeArgNum
    BY <1>3 DEF HandleOption
  <2>2. NamedBy(P) = {o}
        /\ Options[o].handler \in {"Store", "AppendTo", "SetFlag"}
    BY <1>1, <2>1, OptionsAreGood DEF GoodOptions, NamedBy
  <2>3. P \in Nat /\ Len(argv) \in Nat /\ P + 1 \in 1..(Len(argv) + 1)
    BY <1>1
  <2>4. ASSUME NEW Q, IsOption(P, Q, o), Stands(Q),
               UNCHANGED <<program, argv, outcome>>, optNum' = Q,
               used' = used \cup {o}
        PROVE  ParserInv'
    <3>1. Handled(Q, k, used \cup {o})
      BY <1>1, <2>4, HandledOption
    <3> QED
      BY <1>1, <2>1, <2>4, <3>1, ParsingStep
  <2>5. CASE Options[o].handler = "Store" /\ NothingLeft(P + 1)
    <3>1. P = Len(argv)
      BY <1>1, <2>3, <2>5 DEF NothingLeft
    <3>2. Reject
      BY <2>1, <2>5 DEF Handle
    <3>3. Wrong
      BY <1>1, <2>2, <2>5, <3>1, NoValue
    <3> QED
      BY <3>2, <3>3, RejectStep
  <2>6. CASE Options[o].handler = "Store" /\ ~NothingLeft(P + 1)
    <3>1. P < Len(argv)
      BY <1>1, <2>3, <2>6 DEF NothingLeft
    <3>2. /\ used' = used \cup {o} /\ optNum' = P + 1 + Len(<<argv[P + 1]>>)
          /\ UNCHANGED <<program, argv, outcome>>
      BY <2>1, <2>6 DEF Handle
    <3>3. optNum' = P + 2
      BY <2>3, <3>2
    <3>4. IsOption(P, P + 2, o) /\ Stands(P + 2)
      BY <1>1, <2>2, <2>6, <3>1, StoreFound
    <3> QED
      BY <2>4, <3>2, <3>3, <3>4
  <2>7. CASE Options[o].handler = "AppendTo"
    <3>1. PICK Q : PlainUpTo(P + 1, Q) /\ P + 1 + Len(Run(P + 1)) = Q
      BY <1>1, <2>3, RunFacts
    <3>2. /\ used' = used \cup {o} /\ optNum' = P + 1 + Len(Run(P + 1))
          /\ UNCHANGED <<program, argv, outcome>>
      BY <2>1, <2>7 DEF Handle
    <3>3. IsOption(P, Q, o) /\ Stands(Q)
      BY <1>1, <2>2, <2>7, <3>1, AppendToFound
    <3> QED
      BY <2>4, <3>1, <3>2, <3>3
  <2>8. CASE Options[o].handler = "SetFlag"
    <3>1. /\ used' = used \cup {o} /\ optNum' = P + 1 + Len(<<>>)
          /\ UNCHANGED <<program, argv, outcome>>
      BY <2>1, <2>8 DEF Handle
    <3>2. optNum' = P + 1
      BY <2>3, <3>1
    <3>3. IsOption(P, P + 1, o) /\ Stands(P + 1)
      BY <1>1, <2>2, <2>8, SetFlagFound
    <3> QED
      BY <2>4, <3>1, <3>2, <3>3
  <2> QED
    BY <2>2, <2>5, <2>6, <2>7, <2>8
<1> QED
  BY <1>2, <1>3

LEMMA CheckStep ==
  ASSUME ParserInv, Check
  PROVE  ParserInv'
<1> DEFINE Missing == {o \in DOMAIN Options \ used : Options[o].required}
<1>1. /\ outcome = "parsing" /\ optNum > Len(argv)
      /\ Handled(optNum, freeArgNum, used)
      /\ argv \in Seq(STRING) /\ program \in Programs
  BY DEF ParserInv, Check
<1>2. Wrong <=> Missing # {}
  BY <1>1, WrongAtTheEnd
<1>3. \A o \in DOMAIN Options : Options[o].required => Options[o].default = <<>>
  BY <1>1, OptionsAreGood DEF GoodOptions
<1>4. CASE Missing # {}
  <2>1. Reject
    BY <1>3, <1>4 DEF Check
  <2> QED
    BY <1>2, <1>4, <2>1, RejectStep
<1>5. CASE Missing = {}
  <2>1. outcome' = "accepted" /\ argv' = argv /\ program' = program
    BY <1>5 DEF Check
  <2>2. ~Wrong'
    BY <1>2, <1>5, <2>1, CommandLineStays
  <2> QED
    BY <2>1, <2>2 DEF ParserInv, WrongLinesAreRejected
<1> QED
  BY <1>4, <1>5

\* Nothing else changes what Parse works on.
LEMMA ParserRests ==
  ASSUME ParserInv, UNCHANGED parserVars
  PROVE  ParserInv'
<1>1. UNCHANGED <<program, argv, optNum, freeArgNum, used, outcome>>
  BY DEF parserVars
<1>2. Wrong' = Wrong
  BY <1>1, CommandLineStays
<1>3. CASE outcome = "parsing"
  BY <1>1, <1>3, ParsingStep DEF ParserInv
<1>4. CASE outcome # "parsing"
  BY <1>1, <1>2, <1>4 DEF ParserInv, WrongLinesAreRejected
<1> QED
  BY <1>3, <1>4

-----------------------------------------------------------------------------
(* What the targets hold                                                   *)

\* The values that option o can have from this command line.
ArgValues(o) == {Value(o, argv[i]) : i \in Positions}

Rank(i, S) == Cardinality({j \in S : j <= i})

LEMMA RankFacts ==
  ASSUME NEW n \in Nat, NEW S, S \subseteq 1..n
  PROVE  /\ IsFiniteSet(S) /\ Cardinality(S) \in Nat
         /\ \A i \in S : Rank(i, S) \in 1..Cardinality(S)
<1>1. n \in Int /\ 1 \in Int
  OBVIOUS
<1>2. IsFiniteSet(1..n)
  BY <1>1, FS_Interval
<1>3. IsFiniteSet(S) /\ Cardinality(S) \in Nat
  BY <1>2, FS_Subset, FS_CardinalityType
<1>4. ASSUME NEW i \in S
      PROVE  Rank(i, S) \in 1..Cardinality(S)
  <2> DEFINE D == {j \in S : j <= i}
  <2>1. D \subseteq S /\ i \in D
    OBVIOUS
  <2> HIDE DEF D
  <2>2. /\ IsFiniteSet(D) /\ Cardinality(D) \in Nat
        /\ Cardinality(D) <= Cardinality(S)
    BY <1>3, <2>1, FS_Subset, FS_CardinalityType
  <2>3. Cardinality(D) # 0
    BY <2>1, <2>2, FS_EmptySet
  <2> QED
    BY <1>3, <2>2, <2>3 DEF Rank, D
<1> QED
  BY <1>3, <1>4

\* T is the set S with the numbers from A to before Q behind it: how many they
\* are, and the place of each.
Extends(T, S, A, Q) ==
    /\ Cardinality(T) = Cardinality(S) + (Q - A)
    /\ \A i \in S : Rank(i, T) = Rank(i, S)
    /\ \A i \in A..(Q - 1) : Rank(i, T) = Cardinality(S) + (i - A + 1)

LEMMA SetExtends ==
  ASSUME NEW A \in Nat, A > 0, NEW Q \in Nat, A <= Q, NEW S,
         S \subseteq 1..(A - 1), NEW T, T = S \cup A..(Q - 1)
  PROVE  Extends(T, S, A, Q)
<1>1. A - 1 \in Nat /\ IsFiniteSet(S) /\ Cardinality(S) \in Nat
  <2>1. A - 1 \in Nat
    OBVIOUS
  <2> QED
    BY <2>1, RankFacts
<1>2. ASSUME NEW i \in Nat, A - 1 <= i
      PROVE  Cardinality(S \cup A..i) = Cardinality(S) + (i - A + 1)
  <2>1. IsFiniteSet(A..i) /\ Cardinality(A..i) = i - A + 1
    <3>1. A \in Int /\ i \in Int
      OBVIOUS
    <3>2. IsFiniteSet(A..i)
          /\ Cardinality(A..i) = IF A > i THEN 0 ELSE i - A + 1
      BY <3>1, FS_Interval
    <3> QED
      BY <1>2, <3>2
  <2>2. S \cap A..i = {}
    OBVIOUS
  <2>3. Cardinality(S \cup A..i)
            = Cardinality(S) + Cardinality(A..i) - Cardinality(S \cap A..i)
    BY <1>1, <2>1, FS_Union
  <2>4. Cardinality(S \cap A..i) = 0
    BY <2>2, FS_EmptySet
  <2> QED
    BY <1>1, <2>1, <2>3, <2>4
<1>3. Cardinality(T) = Cardinality(S) + (Q - A)
  <2>1. Q - 1 \in Nat /\ A - 1 <= Q - 1
    OBVIOUS
  <2> QED
    BY <1>1, <1>2, <2>1
<1>4. ASSUME NEW i \in S
      PROVE  Rank(i, T) = Rank(i, S)
  <2>1. {j \in T : j <= i} = {j \in S : j <= i}
    OBVIOUS
  <2> QED
    BY <2>1 DEF Rank
<1>5. ASSUME NEW i \in A..(Q - 1)
      PROVE  Rank(i, T) = Cardinality(S) + (i - A + 1)
  <2>1. {j \in T : j <= i} = S \cup A..i
    <3>1. \A j \in S : j \in 1..(A - 1)
      OBVIOUS
    <3>2. \A j \in S : j <= i
      BY <3>1
    <3>3. \A j : j \in A..i <=> j \in A..(Q - 1) /\ j <= i
      OBVIOUS
    <3> QED
      BY <3>2, <3>3
  <2>2. i \in Nat /\ A - 1 <= i
    OBVIOUS
  <2> QED
    BY <1>2, <2>1, <2>2 DEF Rank
<1> QED
  BY <1>3, <1>4, <1>5 DEF Extends

\* e is the sequence c with d behind it.
IsBoth(e, c, d) ==
    /\ Len(e) = Len(c) + Len(d)
    /\ \A k \in 1..Len(c) : e[k] = c[k]
    /\ \A k \in 1..Len(d) : e[Len(c) + k] = d[k]

LEMMA AppendedSeq ==
  ASSUME NEW V, NEW c \in Seq(V), NEW d \in Seq(V)
  PROVE  c \o d \in Seq(V) /\ IsBoth(c \o d, c, d)
<1>1. /\ c \o d \in Seq(V) /\ Len(c \o d) = Len(c) + Len(d)
      /\ \A k \in 1..Len(c) + Len(d) :
            (c \o d)[k] = IF k <= Len(c) THEN c[k] ELSE d[k - Len(c)]
  BY ConcatProperties
<1>2. Len(c) \in Nat /\ Len(d) \in Nat
  OBVIOUS
<1>3. ASSUME NEW k \in 1..Len(c)
      PROVE  (c \o d)[k] = c[k]
  BY <1>1, <1>2
<1>4. ASSUME NEW k \in 1..Len(d)
      PROVE  (c \o d)[Len(c) + k] = d[k]
  <2>1. /\ Len(c) + k \in 1..Len(c) + Len(d) /\ ~(Len(c) + k <= Len(c))
        /\ (Len(c) + k) - Len(c) = k
    BY <1>2
  <2> QED
    BY <1>1, <2>1
<1> QED
  BY <1>1, <1>3, <1>4 DEF IsBoth

LEMMA FunctionIsSeq ==
  ASSUME NEW V, NEW n \in Nat, NEW f \in [1..n -> V]
  PROVE  f \in Seq(V) /\ Len(f) = n
OBVIOUS

LEMMA OrderExtends ==
  ASSUME argv \in Seq(STRING), NEW o, NEW A \in 1..(Len(argv) + 1),
         NEW Q \in A..(Len(argv) + 1), NEW S, S \subseteq 1..(A - 1),
         NEW held \in Seq(ArgValues(o)), HoldsInOrder(held, o, S),
         NEW words, AreWords(words, A, Q)
  PROVE  LET more == [j \in DOMAIN words |-> Value(o, words[j])]
         IN  /\ held \o more \in Seq(ArgValues(o))
             /\ HoldsInOrder(held \o more, o, S \cup A..(Q - 1))
<1> DEFINE more == [j \in DOMAIN words |-> Value(o, words[j])]
           T == S \cup A..(Q - 1)
<1>1. /\ A \in Nat /\ A > 0 /\ Q \in Nat /\ A <= Q /\ Len(argv) \in Nat
      /\ A - 1 \in Nat /\ Q - A \in Nat
  OBVIOUS
<1>2. more \in Seq(ArgValues(o)) /\ Len(more) = Q - A
      /\ \A j \in 1..(Q - A) : more[j] = Value(o, argv[A + j - 1])
  <2>1. DOMAIN words = 1..(Q - A)
    BY DEF AreWords
  <2>2. \A j \in 1..(Q - A) :
           words[j] = argv[A + j - 1] /\ A + j - 1 \in Positions
    BY <1>1 DEF AreWords, Positions
  <2>3. \A j \in 1..(Q - A) :
           more[j] = Value(o, argv[A + j - 1]) /\ more[j] \in ArgValues(o)
    BY <2>1, <2>2 DEF ArgValues
  <2>4. more = [j \in 1..(Q - A) |-> more[j]]
    BY <2>1
  <2> HIDE DEF more
  <2>5. more \in [1..(Q - A) -> ArgValues(o)]
    BY <2>3, <2>4
  <2> QED
    BY <1>1, <2>3, <2>5, FunctionIsSeq
<1> HIDE DEF more
<1>3. held \o more \in Seq(ArgValues(o)) /\ IsBoth(held \o more, held, more)
  BY <1>2, AppendedSeq
<1>4. Extends(T, S, A, Q)
  <2>1. T = S \cup A..(Q - 1)
    OBVIOUS
  <2> HIDE DEF T
  <2> QED
    BY <1>1, <2>1, SetExtends
<1>5. /\ Cardinality(S) \in Nat /\ Len(held) = Cardinality(S)
      /\ \A i \in S : Rank(i, S) \in 1..Len(held)
      /\ \A i \in S : held[Rank(i, S)] = Value(o, argv[i])
  BY <1>1, RankFacts DEF HoldsInOrder, Rank
<1> HIDE DEF T
<1>6. Len(held \o more) = Cardinality(T)
  BY <1>1, <1>2, <1>3, <1>4, <1>5 DEF IsBoth, Extends
<1>7. ASSUME NEW i \in T
      PROVE  (held \o more)[Rank(i, T)] = Value(o, argv[i])
  <2>1. CASE i \in S
    BY <1>3, <1>4, <1>5, <2>1 DEF IsBoth, Extends
  <2>2. CASE i \in A..(Q - 1)
    <3> DEFINE k == i - A + 1
    <3>1. k \in 1..(Q - A) /\ A + k - 1 = i
      BY <1>1, <2>2
    <3>2. Rank(i, T) = Len(held) + k
      BY <1>4, <1>5, <2>2 DEF Extends
    <3> HIDE DEF k
    <3>3. (held \o more)[Len(held) + k] = more[k]
      BY <1>2, <1>3, <3>1 DEF IsBoth
    <3> QED
      BY <1>2, <3>1, <3>2, <3>3
  <2> QED
    BY <1>7, <2>1, <2>2 DEF T
<1>8. HoldsInOrder(held \o more, o, T)
  BY <1>6, <1>7 DEF HoldsInOrder, Rank
<1> QED
  BY <1>3, <1>8 DEF more, T

NamesBefore(o, P) == {i \in NamesOf(o) : i < P}
ValuesBefore(o, P) == {i \in ValuesOf(o) : i < P}

\* held is what the arguments before P give to option o.
IsFilled(held, o, P) ==
    IF Options[o].handler = "AppendTo"
      THEN /\ held \in Seq(ArgValues(o))
           /\ HoldsInOrder(held, o, ValuesBefore(o, P))
    ELSE IF NamesBefore(o, P) = {} THEN held = Options[o].before
    ELSE IF Options[o].handler = "SetFlag" THEN held = TRUE
    ELSE held = Value(o, argv[Max(NamesBefore(o, P)) + 1])

\* Nothing from P to before Q is a name or a value of option o.
IsIdle(o, P, Q) ==
    \A i \in P..(Q - 1) : i \notin NamesOf(o) /\ i \notin ValuesOf(o)

LEMMA IdleStays ==
  ASSUME NEW P \in Nat, NEW Q \in Nat, P <= Q, NEW o, IsIdle(o, P, Q),
         argv \in Seq(STRING), NEW held, IsFilled(held, o, P)
  PROVE  IsFilled(held, o, Q)
<1>1. ASSUME NEW i \in Positions, i \in NamesOf(o) \/ i \in ValuesOf(o)
      PROVE  i < Q <=> i < P
  <2>1. i \in Nat
    BY DEF Positions
  <2>2. i \notin P..(Q - 1)
    BY <1>1 DEF IsIdle
  <2> QED
    BY <2>1, <2>2
<1>2. NamesBefore(o, Q) = NamesBefore(o, P)
  BY <1>1 DEF NamesBefore, NamesOf
<1>3. ValuesBefore(o, Q) = ValuesBefore(o, P)
  BY <1>1 DEF ValuesBefore, ValuesOf
<1> QED
  BY <1>2, <1>3 DEF IsFilled

LEMMA FreeRunIsIdle ==
  ASSUME NEW P, NEW Q, IsFreeRun(P, Q), argv \in Seq(STRING),
         P \in 1..Len(argv), Q \in 1..(Len(argv) + 1), NEW o
  PROVE  /\ FreeArguments # <<o>> => IsIdle(o, P, Q)
         /\ FreeArguments = <<o>> =>
               \A i \in P..(Q - 1) : i \notin NamesOf(o) /\ i \in ValuesOf(o)
<1>1. ASSUME NEW i \in P..(Q - 1)
      PROVE  /\ i \in Positions /\ ~IsName[i] /\ IsFree(i)
             /\ \A j \in Positions : ~BelongsTo(i, j)
  BY DEF IsFreeRun, Positions, IsFree
<1>2. ASSUME NEW i \in P..(Q - 1)
      PROVE  i \notin NamesOf(o)
  BY <1>1 DEF NamesOf
<1>3. ASSUME NEW i \in P..(Q - 1)
      PROVE  i \in ValuesOf(o) <=> FreeArguments = <<o>>
  BY <1>1 DEF ValuesOf, NamesOf
<1> QED
  BY <1>2, <1>3 DEF IsIdle

LEMMA OptionRegion ==
  ASSUME NEW P, NEW Q, NEW q, IsOption(P, Q, q), argv \in Seq(STRING),
         P \in 1..Len(argv), Q \in 1..(Len(argv) + 1),
         NEW o \in DOMAIN Options, NEW i \in P..(Q - 1)
  PROVE  /\ i \in NamesOf(o) <=> i = P /\ o = q
         /\ i \in ValuesOf(o) <=> i > P /\ o = q /\ Appends(P)
<1>1. /\ P \in Nat /\ Q \in Nat /\ i \in Nat /\ P < Q /\ Len(argv) \in Nat
      /\ P \in Positions /\ i \in Positions
  BY DEF IsOption, Positions
<1>2. /\ IsName[P] /\ NamedBy(P) = {q} /\ ~IsFree(i)
      /\ \A j \in (P + 1)..(Q - 1) : ~IsName[j]
  BY DEF IsOption
<1>3. i # P => i \in (P + 1)..(Q - 1) /\ ~IsName[i]
  BY <1>1, <1>2
<1>4. i \in NamesOf(o) <=> i = P /\ o = q
  BY <1>1, <1>2, <1>3 DEF NamesOf
<1>5. ASSUME NEW j \in Positions, BelongsTo(i, j)
      PROVE  j = P /\ i > P /\ Appends(P)
  <2>1. /\ j \in Nat /\ j < i /\ IsName[j] /\ Appends(j)
        /\ \A l \in (j + 1)..i : ~IsName[l]
    BY <1>5 DEF BelongsTo, Positions
  <2>2. i # P
    BY <1>1, <1>2, <2>1
  <2>3. ~(j < P)
    <3>1. ASSUME j < P
          PROVE  P \in (j + 1)..i
      BY <1>1, <2>1, <3>1
    <3> QED
      BY <1>2, <2>1, <3>1
  <2>4. ~(j > P)
    <3>1. ASSUME j > P
          PROVE  j \in (P + 1)..(Q - 1)
      BY <1>1, <2>1, <3>1
    <3> QED
      BY <1>2, <2>1, <3>1
  <2> QED
    BY <1>1, <2>1, <2>2, <2>3, <2>4
<1>6. i \in ValuesOf(o) => i > P /\ o = q /\ Appends(P)
  <2>1. ASSUME i \in ValuesOf(o)
        PROVE  i > P /\ o = q /\ Appends(P)
    <3>1. PICK j \in NamesOf(o) : BelongsTo(i, j)
      BY <1>2, <2>1 DEF ValuesOf
    <3>2. j \in Positions /\ o \in NamedBy(j)
      BY DEF NamesOf
    <3> QED
      BY <1>2, <1>5, <3>1, <3>2
  <2> QED
    BY <2>1
<1>7. ASSUME i > P, o = q, Appends(P)
      PROVE  i \in ValuesOf(o)
  <2>1. ~IsName[i]
    BY <1>1, <1>3, <1>7
  <2>2. ~IsValue(i)
    <3>1. ASSUME IsValue(i)
          PROVE  FALSE
      <4>1. IsName[i - 1] /\ StoresNext(i - 1)
        BY <3>1 DEF IsValue
      <4>2. i - 1 = P \/ i - 1 \in (P + 1)..(Q - 1)
        BY <1>1, <1>7
      <4>3. i - 1 = P
        BY <1>2, <4>1, <4>2
      <4> QED
        BY <1>2, <1>7, <4>1, <4>3, OneName
    <3> QED
      BY <3>1
  <2>3. PICK j \in Positions : BelongsTo(i, j)
    BY <1>2, <2>1, <2>2 DEF IsFree
  <2>4. BelongsTo(i, P) /\ P \in NamesOf(o)
    BY <1>1, <1>2, <1>5, <1>7, <2>3 DEF NamesOf
  <2> QED
    BY <1>1, <2>4 DEF ValuesOf
<1> QED
  BY <1>4, <1>6, <1>7

\* The values of what is taken from A to before Q come behind those before A.
LEMMA ValuesAdded ==
  ASSUME argv \in Seq(STRING), NEW A \in 1..(Len(argv) + 1),
         NEW Q \in A..(Len(argv) + 1), NEW o, Options[o].handler = "AppendTo",
         \A i \in A..(Q - 1) : i \in ValuesOf(o),
         NEW held, IsFilled(held, o, A), NEW words, AreWords(words, A, Q)
  PROVE  IsFilled(held \o [j \in DOMAIN words |-> Value(o, words[j])], o, Q)
<1>1. held \in Seq(ArgValues(o)) /\ HoldsInOrder(held, o, ValuesBefore(o, A))
  BY DEF IsFilled
<1>2. ASSUME NEW i \in ValuesOf(o)
      PROVE  i \in 1..Len(argv) /\ i \in Nat
  BY DEF ValuesOf, Positions
<1>3. ValuesBefore(o, A) \subseteq 1..(A - 1)
  BY <1>2 DEF ValuesBefore
<1>4. ValuesBefore(o, Q) = ValuesBefore(o, A) \cup A..(Q - 1)
  <2>1. ASSUME NEW i \in ValuesOf(o)
        PROVE  i < Q <=> i < A \/ i \in A..(Q - 1)
    BY <1>2
  <2>2. \A i \in A..(Q - 1) : i \in ValuesOf(o)
    OBVIOUS
  <2> QED
    BY <2>1, <2>2 DEF ValuesBefore
<1> DEFINE more == [j \in DOMAIN words |-> Value(o, words[j])]
<1>5. held \o more \in Seq(ArgValues(o))
      /\ HoldsInOrder(held \o more, o, ValuesBefore(o, A) \cup A..(Q - 1))
  BY <1>1, <1>3, OrderExtends
<1> HIDE DEF more
<1>6. IsFilled(held \o more, o, Q)
  BY <1>4, <1>5 DEF IsFilled
<1> QED
  BY <1>6 DEF more

-----------------------------------------------------------------------------
(* The steps, seen from the targets                                        *)

LEMMA FilledAtFirst ==
  ASSUME argv \in Seq(STRING), program \in Programs, NEW o \in DOMAIN Options
  PROVE  IsFilled(Options[o].before, o, 1)
<1>1. NamesBefore(o, 1) = {} /\ ValuesBefore(o, 1) = {}
  BY DEF NamesBefore, ValuesBefore, NamesOf, ValuesOf, Positions
<1>2. CASE Options[o].handler = "AppendTo"
  <2>1. Options[o].before = <<>>
    BY <1>2, OptionsAreGood DEF GoodOptions
  <2>2. <<>> \in Seq(ArgValues(o)) /\ Len(<<>>) = 0 /\ Cardinality({}) = 0
    BY FS_EmptySet
  <2>3. HoldsInOrder(<<>>, o, {})
    BY <2>2 DEF HoldsInOrder
  <2> QED
    BY <1>1, <1>2, <2>1, <2>2, <2>3 DEF IsFilled
<1>3. CASE Options[o].handler # "AppendTo"
  BY <1>1, <1>3 DEF IsFilled
<1> QED
  BY <1>2, <1>3

\* A name of option q at P is the last before Q.
LEMMA NamedLast ==
  ASSUME NEW P, NEW Q, NEW q \in DOMAIN Options, IsOption(P, Q, q),
         argv \in Seq(STRING), P \in 1..Len(argv), Q \in 1..(Len(argv) + 1)
  PROVE  NamesBefore(q, Q) # {} /\ Max(NamesBefore(q, Q)) = P
<1> DEFINE N == NamesBefore(q, Q)
<1>1. P \in Nat /\ Q \in Nat /\ P < Q /\ P \in P..(Q - 1)
  BY DEF IsOption
<1>2. P \in N
  BY <1>1, OptionRegion DEF NamesBefore
<1>3. ASSUME NEW i \in N
      PROVE  i \in Nat /\ i <= P
  <2>1. i \in Nat /\ i < Q /\ i \in NamesOf(q)
    BY DEF NamesBefore, NamesOf, Positions
  <2>2. CASE i \in P..(Q - 1)
    BY <1>1, <2>1, <2>2, OptionRegion
  <2>3. CASE ~(i \in P..(Q - 1))
    BY <1>1, <2>1, <2>3
  <2> QED
    BY <2>2, <2>3
<1> HIDE DEF N
<1>4. Max(N) \in N /\ \A i \in N : Max(N) >= i
  <2>1. \E x \in N : \A i \in N : x >= i
    BY <1>1, <1>2, <1>3
  <2> QED
    BY <2>1 DEF Max
<1>5. Max(N) = P
  <2>1. Max(N) \in Nat /\ Max(N) <= P
    BY <1>3, <1>4
  <2>2. Max(N) >= P
    BY <1>2, <1>4
  <2> QED
    BY <1>1, <2>1, <2>2
<1> QED
  BY <1>2, <1>5 DEF N

LEMMA OthersAreIdle ==
  ASSUME NEW P, NEW Q, NEW q, IsOption(P, Q, q), argv \in Seq(STRING),
         P \in 1..Len(argv), Q \in 1..(Len(argv) + 1),
         NEW o \in DOMAIN Options, o # q, NEW held, IsFilled(held, o, P)
  PROVE  IsFilled(held, o, Q)
<1>1. P \in Nat /\ Q \in Nat /\ P <= Q
  BY DEF IsOption
<1>2. IsIdle(o, P, Q)
  BY OptionRegion DEF IsIdle
<1> QED
  BY <1>1, <1>2, IdleStays

\* A name before the values changes no vector.
LEMMA NameIsNoValue ==
  ASSUME NEW P, NEW Q, NEW q \in DOMAIN Options, IsOption(P, Q, q),
         argv \in Seq(STRING), P \in 1..Len(argv), Q \in 1..(Len(argv) + 1),
         Options[q].handler = "AppendTo", NEW held, IsFilled(held, q, P)
  PROVE  /\ IsFilled(held, q, P + 1)
         /\ \A i \in (P + 1)..(Q - 1) : i \in ValuesOf(q)
<1>1. P \in Nat /\ Q \in Nat /\ P < Q /\ P \in P..(Q - 1)
      /\ \A i \in (P + 1)..(Q - 1) : i \in P..(Q - 1) /\ i > P
  BY DEF IsOption
<1>2. P \notin ValuesOf(q)
  BY <1>1, OptionRegion
<1>3. ValuesBefore(q, P + 1) = ValuesBefore(q, P)
  <2>1. ASSUME NEW i \in ValuesOf(q)
        PROVE  i < P + 1 <=> i < P
    BY <1>1, <1>2 DEF ValuesOf, Positions
  <2> QED
    BY <2>1 DEF ValuesBefore
<1>4. Appends(P)
  BY OneName DEF IsOption
<1>5. ASSUME NEW i \in (P + 1)..(Q - 1)
      PROVE  i \in ValuesOf(q)
  BY <1>1, <1>4, OptionRegion
<1> QED
  BY <1>3, <1>5 DEF IsFilled

AllFilled(held, P) == \A o \in DOMAIN Options : IsFilled(held[o], o, P)

\* The free arguments from P to before Q are for the option that is free.
LEMMA FilledFree ==
  ASSUME argv \in Seq(STRING), NEW P, NEW Q, IsFreeRun(P, Q),
         P \in 1..Len(argv), Q \in 1..(Len(argv) + 1),
         NEW q \in DOMAIN Options, FreeArguments = <<q>>,
         Options[q].handler = "AppendTo", DOMAIN target = DOMAIN Options,
         AllFilled(target, P), NEW words, AreWords(words, P, Q),
         target' = [target EXCEPT ![q] =
                       @ \o [j \in DOMAIN words |-> Value(q, words[j])]]
  PROVE  AllFilled(target', Q)
<1>1. P \in Nat /\ Q \in Nat /\ P <= Q /\ P \in 1..(Len(argv) + 1)
      /\ Q \in P..(Len(argv) + 1)
  BY DEF IsFreeRun
<1>2. ASSUME NEW o \in DOMAIN Options
      PROVE  IsFilled(target'[o], o, Q)
  <2>1. IsFilled(target[o], o, P)
    BY DEF AllFilled
  <2>2. CASE o = q
    <3>1. \A i \in P..(Q - 1) : i \in ValuesOf(q)
      BY FreeRunIsIdle
    <3>2. target'[q] = target[q] \o [j \in DOMAIN words |-> Value(q, words[j])]
      OBVIOUS
    <3>3. IsFilled(target[q] \o [j \in DOMAIN words |-> Value(q, words[j])],
                   q, Q)
      BY <1>1, <2>1, <2>2, <3>1, ValuesAdded
    <3> QED
      BY <2>2, <3>2, <3>3
  <2>3. CASE o # q
    <3>1. target'[o] = target[o]
      BY <2>3
    <3>2. FreeArguments # <<o>>
      BY <2>3
    <3>3. IsIdle(o, P, Q)
      BY <3>2, FreeRunIsIdle
    <3> QED
      BY <1>1, <2>1, <3>1, <3>3, IdleStays
  <2> QED
    BY <2>2, <2>3
<1> QED
  BY <1>2 DEF AllFilled

\* What a name and its values do to the targets, by the handler of the option.
LEMMA FilledOption ==
  ASSUME argv \in Seq(STRING), NEW P, NEW Q, NEW q \in DOMAIN Options,
         IsOption(P, Q, q), P \in 1..Len(argv), Q \in 1..(Len(argv) + 1),
         DOMAIN target = DOMAIN Options, AllFilled(target, P), NEW held,
         IsFilled(held, q, Q), target' = [target EXCEPT ![q] = held]
  PROVE  AllFilled(target', Q)
<1>1. ASSUME NEW o \in DOMAIN Options
      PROVE  IsFilled(target'[o], o, Q)
  <2>1. CASE o = q
    BY <2>1
  <2>2. CASE o # q
    <3>1. target'[o] = target[o] /\ IsFilled(target[o], o, P)
      BY <2>2 DEF AllFilled
    <3> QED
      BY <2>2, <3>1, OthersAreIdle
  <2> QED
    BY <2>1, <2>2
<1> QED
  BY <1>1 DEF AllFilled

LEMMA FilledStore ==
  ASSUME argv \in Seq(STRING), NEW P, NEW q \in DOMAIN Options,
         IsOption(P, P + 2, q), P \in 1..Len(argv),
         P + 2 \in 1..(Len(argv) + 1),
         Options[q].handler = "Store"
  PROVE  IsFilled(Value(q, argv[P + 1]), q, P + 2)
<1>1. NamesBefore(q, P + 2) # {} /\ Max(NamesBefore(q, P + 2)) = P
  BY NamedLast
<1> QED
  BY <1>1 DEF IsFilled

LEMMA FilledSetFlag ==
  ASSUME argv \in Seq(STRING), NEW P, NEW q \in DOMAIN Options,
         IsOption(P, P + 1, q), P \in 1..Len(argv),
         P + 1 \in 1..(Len(argv) + 1),
         Options[q].handler = "SetFlag"
  PROVE  IsFilled(TRUE, q, P + 1)
<1>1. NamesBefore(q, P + 1) # {}
  BY NamedLast
<1> QED
  BY <1>1 DEF IsFilled

LEMMA FilledAppendTo ==
  ASSUME argv \in Seq(STRING), NEW P, NEW Q, NEW q \in DOMAIN Options,
         IsOption(P, Q, q), P \in 1..Len(argv), Q \in 1..(Len(argv) + 1),
         Options[q].handler = "AppendTo", NEW held, IsFilled(held, q, P),
         NEW words, AreWords(words, P + 1, Q)
  PROVE  IsFilled(held \o [j \in DOMAIN words |-> Value(q, words[j])], q, Q)
<1>1. P + 1 \in 1..(Len(argv) + 1) /\ Q \in (P + 1)..(Len(argv) + 1)
  BY DEF IsOption
<1>2. /\ IsFilled(held, q, P + 1)
      /\ \A i \in (P + 1)..(Q - 1) : i \in ValuesOf(q)
  BY NameIsNoValue
<1> QED
  BY <1>1, <1>2, ValuesAdded

\* What Parse returns with, for these targets.
ArgumentsRight(held) ==
    \A o \in DOMAIN Options :
        IF Options[o].handler = "AppendTo"
          THEN HoldsInOrder(held[o], o, ValuesOf(o))
        ELSE IF NamesOf(o) = {} THEN held[o] = Unset(o)
        ELSE IF Options[o].handler = "SetFlag" THEN held[o] = TRUE
        ELSE held[o] = Value(o, argv[Max(NamesOf(o)) + 1])

ArgumentsInv ==
    /\ DOMAIN target = DOMAIN Options
    /\ outcome = "parsing" => AllFilled(target, optNum)
    /\ outcome = "accepted" => ArgumentsRight(target)

LEMMA TargetsAtTheEnd ==
  ASSUME argv \in Seq(STRING), program \in Programs, NEW P, NEW k, NEW U,
         Handled(P, k, U), P > Len(argv), NEW held, AllFilled(held, P),
         NEW after,
         \A o \in DOMAIN Options :
            after[o] = IF o \notin U /\ Options[o].default # <<>>
                         THEN HandleSingle(o, held[o], Options[o].default[1])
                         ELSE held[o]
  PROVE  ArgumentsRight(after)
<1>1. \A i \in Positions : i < P
  BY DEF Handled, Stands, Positions
<1>2. ASSUME NEW o \in DOMAIN Options
      PROVE  IF Options[o].handler = "AppendTo"
               THEN HoldsInOrder(after[o], o, ValuesOf(o))
             ELSE IF NamesOf(o) = {} THEN after[o] = Unset(o)
             ELSE IF Options[o].handler = "SetFlag" THEN after[o] = TRUE
             ELSE after[o] = Value(o, argv[Max(NamesOf(o)) + 1])
  <2>1. NamesBefore(o, P) = NamesOf(o) /\ ValuesBefore(o, P) = ValuesOf(o)
    BY <1>1 DEF NamesBefore, ValuesBefore, NamesOf, ValuesOf
  <2>2. IsFilled(held[o], o, P)
    BY DEF AllFilled
  <2>3. CASE Options[o].handler = "AppendTo"
    <3>1. after[o] = held[o]
      BY <2>3, OptionsAreGood DEF GoodOptions
    <3> QED
      BY <2>1, <2>2, <2>3, <3>1 DEF IsFilled
  <2>4. CASE Options[o].handler # "AppendTo"
    <3>1. FreeArguments # <<o>>
      <4>1. ASSUME FreeArguments = <<o>>
            PROVE  FALSE
        <5>1. FreeArguments # <<>> /\ FreeArguments[1] = o
          BY <4>1
        <5>2. /\ FreeArguments = <<"graph">>
              /\ Options["graph"].handler = "AppendTo"
          BY <5>1, FreeArgumentIs
        <5>3. o = "graph"
          BY <5>1, <5>2
        <5> QED
          BY <2>4, <5>2, <5>3
      <4> QED
        BY <4>1
    <3>2. o \in U <=> NamesOf(o) # {}
      BY <2>1, <3>1 DEF Handled, HasOne, NamesBefore
    <3>3. CASE NamesOf(o) = {}
      <4>1. held[o] = Options[o].before
        BY <2>1, <2>2, <2>4, <3>3 DEF IsFilled
      <4>2. after[o] = Unset(o)
        BY <2>4, <3>2, <3>3, <4>1 DEF Unset, HandleSingle
      <4> QED
        BY <2>4, <3>3, <4>2
    <3>4. CASE NamesOf(o) # {}
      <4>1. after[o] = held[o]
        BY <3>2, <3>4
      <4> QED
        BY <2>1, <2>2, <2>4, <3>4, <4>1 DEF IsFilled
    <3> QED
      BY <3>3, <3>4
  <2> QED
    BY <2>3, <2>4
<1> QED
  BY <1>2 DEF ArgumentsRight

\* The targets of the next state are judged by the same command line.
LEMMA TargetsNext ==
  ASSUME argv' = argv, program' = program
  PROVE  /\ AllFilled(target', optNum') => AllFilled(target, optNum)'
         /\ ArgumentsRight(target') => ArgumentsRight(target)'
<1>1. IsName' = IsName /\ Options' = Options /\ FreeArguments' = FreeArguments
  BY CommandLineStays
<1>2. \A o : NamesOf(o)' = NamesOf(o) /\ ValuesOf(o)' = ValuesOf(o)
  BY <1>1 DEF NamesOf, ValuesOf, NamedBy, IsFree, IsValue, BelongsTo, Appends,
     StoresNext, Positions
<1>3. AllFilled(target', optNum') => AllFilled(target, optNum)'
  BY <1>1, <1>2 DEF AllFilled, IsFilled, HoldsInOrder, Value, ArgValues,
     NamesBefore, ValuesBefore, Positions
<1>4. ArgumentsRight(target') => ArgumentsRight(target)'
  BY <1>1, <1>2 DEF ArgumentsRight, HoldsInOrder, Value, Unset
<1> QED
  BY <1>3, <1>4

LEMMA ArgumentsInitially == Init => ArgumentsInv
<1> SUFFICES ASSUME Init
             PROVE  ArgumentsInv
  OBVIOUS
<1>1. /\ program \in Programs /\ argv \in Seq(STRING)
      /\ target = [o \in DOMAIN Options |-> Options[o].before]
      /\ optNum = 1 /\ outcome = "parsing"
  BY OptParserAssumption DEF Init
<1>2. \A o \in DOMAIN Options : IsFilled(target[o], o, 1)
  BY <1>1, FilledAtFirst
<1> QED
  BY <1>1, <1>2 DEF ArgumentsInv, AllFilled

\* A step of the loop, one that throws, and one elsewhere.
LEMMA FilledStep ==
  ASSUME ArgumentsInv, outcome = "parsing",
         UNCHANGED <<program, argv, outcome>>,
         DOMAIN target' = DOMAIN target, AllFilled(target', optNum')
  PROVE  ArgumentsInv'
<1>1. AllFilled(target, optNum)'
  BY TargetsNext
<1>2. Options' = Options
  BY CommandLineStays
<1> QED
  BY <1>1, <1>2 DEF ArgumentsInv

LEMMA ArgumentsRest ==
  ASSUME ArgumentsInv, UNCHANGED parserVars
  PROVE  ArgumentsInv'
<1>1. UNCHANGED <<program, argv, optNum, target, outcome>>
  BY DEF parserVars
<1>2. Options' = Options
  BY <1>1, CommandLineStays
<1>3. /\ AllFilled(target, optNum) => AllFilled(target, optNum)'
      /\ ArgumentsRight(target) => ArgumentsRight(target)'
  BY <1>1, TargetsNext
<1> QED
  BY <1>1, <1>2, <1>3 DEF ArgumentsInv

LEMMA ArgumentsReject ==
  ASSUME ArgumentsInv, Reject
  PROVE  ArgumentsInv'
<1>1. UNCHANGED <<program, argv, target>> /\ outcome' = "rejected"
  BY DEF Reject
<1>2. Options' = Options
  BY <1>1, CommandLineStays
<1> QED
  BY <1>1, <1>2 DEF ArgumentsInv

LEMMA ArgumentsFreeArg ==
  ASSUME ParserInv, ArgumentsInv, HandleFreeArg
  PROVE  ArgumentsInv'
<1> DEFINE P == optNum
           k == freeArgNum
<1>1. /\ outcome = "parsing" /\ P <= Len(argv) /\ ~IsDashed(argv[P])
      /\ Handled(P, k, used) /\ Stands(P) /\ P \in 1..(Len(argv) + 1)
      /\ argv \in Seq(STRING) /\ program \in Programs /\ P \in 1..Len(argv)
  BY DEF ParserInv, HandleFreeArg, InLoop, Handled, Stands
<1>2. CASE k >= Len(FreeArguments)
  BY <1>2, ArgumentsReject DEF HandleFreeArg
<1>3. CASE ~(k >= Len(FreeArguments))
  <2>1. k < Len(FreeArguments) /\ k \in Nat
    BY <1>1, <1>3, FreeArgumentIs DEF Handled
  <2>2. PICK q : /\ FreeArguments = <<q>> /\ q = FreeArguments[k + 1]
                 /\ q \in DOMAIN Options /\ Options[q].handler = "AppendTo"
    <3>1. FreeArguments # <<>>
      BY <2>1
    <3>2. FreeArguments = <<"graph">> /\ Len(FreeArguments) = 1
      BY <1>1, <3>1, FreeArgumentIs
    <3>3. k + 1 = 1
      BY <2>1, <3>2
    <3> QED
      BY <1>1, <3>1, <3>2, <3>3, FreeArgumentIs
  <2>3. Handle(q, P)
    BY <1>3, <2>2 DEF HandleFreeArg
  <2>4. /\ optNum' = P + Len(Run(P))
        /\ target' = [target EXCEPT ![q] =
                         @ \o [j \in DOMAIN Run(P) |-> Value(q, Run(P)[j])]]
        /\ UNCHANGED <<program, argv, outcome>>
    BY <2>2, <2>3 DEF Handle
  <2>5. PICK Q : /\ PlainUpTo(P, Q) /\ P + Len(Run(P)) = Q
                 /\ AreWords(Run(P), P, Q)
    BY <1>1, RunFacts
  <2>6. IsFreeRun(P, Q) /\ Q \in 1..(Len(argv) + 1)
    BY <1>1, <2>5, FreeRunFound DEF PlainUpTo
  <2>7. AllFilled(target', Q)
    <3>1. DOMAIN target = DOMAIN Options /\ AllFilled(target, P)
      BY <1>1 DEF ArgumentsInv
    <3> HIDE DEF P
    <3> QED
      BY <1>1, <2>2, <2>4, <2>5, <2>6, <3>1, FilledFree
  <2> QED
    BY <1>1, <2>4, <2>5, <2>7, FilledStep
<1> QED
  BY <1>2, <1>3

LEMMA ArgumentsOption ==
  ASSUME ParserInv, ArgumentsInv, HandleOption
  PROVE  ArgumentsInv'
<1> DEFINE P == optNum
           k == freeArgNum
<1>1. /\ outcome = "parsing" /\ P <= Len(argv) /\ IsDashed(argv[P])
      /\ Handled(P, k, used) /\ Stands(P) /\ P \in 1..(Len(argv) + 1)
      /\ argv \in Seq(STRING) /\ program \in Programs /\ P \in 1..Len(argv)
      /\ DOMAIN target = DOMAIN Options /\ AllFilled(target, P)
  BY DEF ParserInv, HandleOption, InLoop, Handled, Stands, ArgumentsInv
<1>2. CASE argv[P] \notin Names(program)
  BY <1>2, ArgumentsReject DEF HandleOption
<1>3. CASE argv[P] \in Names(program)
  <2>1. PICK q \in DOMAIN Options : /\ argv[P] \in Options[q].names
                                    /\ Handle(q, P + 1)
    BY <1>3 DEF HandleOption
  <2>2. NamedBy(P) = {q}
        /\ Options[q].handler \in {"Store", "AppendTo", "SetFlag"}
    BY <1>1, <2>1, OptionsAreGood DEF GoodOptions, NamedBy
  <2>3. P \in Nat /\ Len(argv) \in Nat /\ P + 1 \in 1..(Len(argv) + 1)
    BY <1>1
  <2>4. ASSUME NEW Q, IsOption(P, Q, q), Stands(Q), NEW held,
               IsFilled(held, q, Q), target' = [target EXCEPT ![q] = held],
               UNCHANGED <<program, argv, outcome>>, optNum' = Q
        PROVE  ArgumentsInv'
    <3>1. Q \in 1..(Len(argv) + 1)
      BY <2>4 DEF Stands
    <3>2. AllFilled(target', Q)
      <4> HIDE DEF P
      <4> QED
        BY <1>1, <2>4, <3>1, FilledOption
    <3> QED
      BY <1>1, <2>4, <3>2, FilledStep
  <2>5. CASE Options[q].handler = "Store" /\ NothingLeft(P + 1)
    <3>1. Reject
      BY <2>1, <2>5 DEF Handle
    <3> QED
      BY <3>1, ArgumentsReject
  <2>6. CASE Options[q].handler = "Store" /\ ~NothingLeft(P + 1)
    <3>1. P < Len(argv)
      BY <1>1, <2>3, <2>6 DEF NothingLeft
    <3>2. /\ target' = [target EXCEPT ![q] = Value(q, argv[P + 1])]
          /\ optNum' = P + 1 + Len(<<argv[P + 1]>>)
          /\ UNCHANGED <<program, argv, outcome>>
      BY <2>1, <2>6 DEF Handle
    <3>3. optNum' = P + 2 /\ P + 2 \in 1..(Len(argv) + 1)
      BY <2>3, <3>1, <3>2
    <3>4. IsOption(P, P + 2, q) /\ Stands(P + 2)
      BY <1>1, <2>2, <2>6, <3>1, StoreFound
    <3>5. IsFilled(Value(q, argv[P + 1]), q, P + 2)
      BY <1>1, <2>6, <3>3, <3>4, FilledStore
    <3> QED
      BY <2>4, <3>2, <3>3, <3>4, <3>5
  <2>7. CASE Options[q].handler = "AppendTo"
    <3> DEFINE words == Run(P + 1)
               held == target[q] \o [j \in DOMAIN words |-> Value(q, words[j])]
    <3>1. PICK Q : /\ PlainUpTo(P + 1, Q) /\ P + 1 + Len(words) = Q
                   /\ AreWords(words, P + 1, Q)
      BY <1>1, <2>3, RunFacts
    <3>2. /\ target' = [target EXCEPT ![q] = held]
          /\ optNum' = P + 1 + Len(words)
          /\ UNCHANGED <<program, argv, outcome>>
      BY <2>1, <2>7 DEF Handle
    <3>3. IsOption(P, Q, q) /\ Stands(Q)
      BY <1>1, <2>2, <2>7, <3>1, AppendToFound
    <3>4. Q \in 1..(Len(argv) + 1) /\ IsFilled(target[q], q, P)
      BY <1>1, <3>3 DEF Stands, AllFilled
    <3> HIDE DEF words
    <3>5. IsFilled(held, q, Q)
      BY <1>1, <2>7, <3>1, <3>3, <3>4, FilledAppendTo
    <3> HIDE DEF held
    <3> QED
      BY <2>4, <3>1, <3>2, <3>3, <3>5
  <2>8. CASE Options[q].handler = "SetFlag"
    <3>1. /\ target' = [target EXCEPT ![q] = TRUE]
          /\ optNum' = P + 1 + Len(<<>>)
          /\ UNCHANGED <<program, argv, outcome>>
      BY <2>1, <2>8 DEF Handle
    <3>2. optNum' = P + 1
      BY <2>3, <3>1
    <3>3. IsOption(P, P + 1, q) /\ Stands(P + 1)
      BY <1>1, <2>2, <2>8, SetFlagFound
    <3>4. IsFilled(TRUE, q, P + 1)
      BY <1>1, <2>3, <2>8, <3>3, FilledSetFlag
    <3> QED
      BY <2>4, <3>1, <3>2, <3>3, <3>4
  <2> QED
    BY <2>2, <2>5, <2>6, <2>7, <2>8
<1> QED
  BY <1>2, <1>3

LEMMA ArgumentsCheck ==
  ASSUME ParserInv, ArgumentsInv, Check
  PROVE  ArgumentsInv'
<1>1. /\ outcome = "parsing" /\ optNum > Len(argv)
      /\ Handled(optNum, freeArgNum, used) /\ AllFilled(target, optNum)
      /\ argv \in Seq(STRING) /\ program \in Programs
  BY DEF ParserInv, ArgumentsInv, Check
<1>2. CASE Reject
  BY <1>2, ArgumentsReject
<1>3. CASE ~Reject
  <2>1. /\ target' = [o \in DOMAIN Options |->
                         IF o \in DOMAIN Options \ used
                               /\ Options[o].default # <<>>
                           THEN HandleSingle(o, target[o],
                                             Options[o].default[1])
                           ELSE target[o]]
        /\ outcome' = "accepted" /\ UNCHANGED <<program, argv>>
    BY <1>3 DEF Check
  <2>2. \A o \in DOMAIN Options :
           target'[o] = IF o \notin used /\ Options[o].default # <<>>
                          THEN HandleSingle(o, target[o], Options[o].default[1])
                          ELSE target[o]
    BY <2>1
  <2>3. ArgumentsRight(target')
    BY <1>1, <2>2, TargetsAtTheEnd
  <2>4. ArgumentsRight(target)' /\ Options' = Options
    BY <2>1, <2>3, TargetsNext, CommandLineStays
  <2> QED
    BY <2>1, <2>4 DEF ArgumentsInv
<1> QED
  BY <1>2, <1>3

-----------------------------------------------------------------------------
(* The theorems about the parser                                           *)

CalculatorInv == ParserInv /\ ArgumentsInv

\* Between two steps of Parse the options that are used are those that have an
\* argument so far, their targets hold what these arguments give them, and the
\* free arguments are counted by their runs.
THEOREM ParserInvariance == CalculatorSpec => []CalculatorInv
<1>1. CalculatorInit => CalculatorInv
  BY ParserInitially, ArgumentsInitially DEF CalculatorInit, CalculatorInv
<1>2. CalculatorInv /\ [CalculatorNext]_calculatorVars => CalculatorInv'
  <2> SUFFICES ASSUME ParserInv, ArgumentsInv, [CalculatorNext]_calculatorVars
               PROVE  ParserInv' /\ ArgumentsInv'
    BY DEF CalculatorInv
  <2>1. CASE HandleFreeArg
    BY <2>1, FreeArgStep, ArgumentsFreeArg
  <2>2. CASE HandleOption
    BY <2>2, OptionStep, ArgumentsOption
  <2>3. CASE Check
    BY <2>3, CheckStep, ArgumentsCheck
  <2>4. CASE OpenStreams
    BY <2>4, ParserRests, ArgumentsRest DEF OpenStreams
  <2>5. CASE RunOne
    <3>1. UNCHANGED parserVars
      BY <2>5 DEF RunOne, SkipEmptyLine, Spin, Throw, Exit, AskCompleteGraph,
         SkipSpace, AskEdgeCount, AskEdgeCountAtTheEnd, AskEdge, AskAgain,
         WriteAnswer
    <3> QED
      BY <3>1, ParserRests, ArgumentsRest
  <2>6. CASE UNCHANGED calculatorVars
    BY <2>6, ParserRests, ArgumentsRest DEF calculatorVars
  <2> QED
    BY <2>1, <2>2, <2>3, <2>4, <2>5, <2>6 DEF CalculatorNext, Parse
<1> QED
  BY <1>1, <1>2, PTL DEF CalculatorSpec

\* For every command line, Parse of the three programs throws if the line is
\* wrong, and only then: an unknown name, a name at the end that wants a value,
\* a run of arguments for nobody, or a required option without any.
THEOREM ExactlyTheWrongLinesAreRejected ==
  CalculatorSpec => []WrongLinesAreRejected
<1>1. CalculatorInv => WrongLinesAreRejected
  BY DEF CalculatorInv, ParserInv
<1> QED
  BY <1>1, ParserInvariance, PTL

\* For every command line, Parse gives each option the arguments that belong to
\* it: all of them in their order, the last one, or its default.
THEOREM EachOptionGetsItsArguments ==
  CalculatorSpec => []ArgumentsGoWhereTheyBelong
<1>1. CalculatorInv => ArgumentsGoWhereTheyBelong
  BY DEF CalculatorInv, ArgumentsInv, ArgumentsRight, ArgumentsGoWhereTheyBelong
<1> QED
  BY <1>1, ParserInvariance, PTL

-----------------------------------------------------------------------------
(* What is read, and what is still to be read                              *)

\* The words of a line, and what stays behind a number.
Words == STRING \cup {"", "x"}

Graphs == {<<>>} \cup {ReadLine(line) : line \in Seq(Words)}
EdgeSets == SUBSET {EdgeOf(ReadLine(line)) : line \in Seq(Words)}

InputTypeOK ==
    /\ at \in {"main", "graph", "count", "edge", "ended", "thrown", "spinning"}
    /\ read \in Seq(Lines) /\ rest \in Seq(Words)
    /\ failed \in BOOLEAN
    /\ graph \in Graphs /\ count \in Nat /\ edges \in EdgeSets
    /\ answers \in Seq([graph : Graphs, edges : EdgeSets])

\* What is left behind a number is an empty line, or no line of numbers.
RestIsHarmless ==
    rest = <<>> \/ rest = <<"">> \/ (IsBad(rest) /\ rest # <<"exit">>)

\* Line g of L is the first from line s on that is not empty, and a graph.
GraphAt(L, s, g, G) ==
    /\ \A i \in s..(g - 1) : Empty(L[i])
    /\ ~Empty(L[g]) /\ ~IsBad(L[g]) /\ G = ReadLine(L[g])

\* The lines of L behind line c, with these edges; n more are wanted.
EdgesBehind(L, c, n, E) ==
    /\ IsFiniteSet(EdgeLines(L, c + 1, Len(L)))
    /\ StartsWith(L[c], n + Cardinality(EdgeLines(L, c + 1, Len(L))))
    /\ \A i \in (c + 1)..Len(L) : ~IsBad(L[i])
    /\ n = 0 => Len(L) = c \/ Len(L) \in EdgeLines(L, c + 1, Len(L))
    /\ E = {EdgeOf(ReadLine(L[i])) : i \in EdgeLines(L, c + 1, Len(L))}

\* What has been read of a query, from line s on.
InCount(L, s, G) ==
    \E g \in s..Len(L) :
        /\ GraphAt(L, s, g, G)
        /\ \A i \in (g + 1)..Len(L) : IsSpace(L[i])

InEdges(L, s, G, n, E) ==
    \E g \in s..Len(L) : \E c \in (g + 1)..Len(L) :
        /\ GraphAt(L, s, g, G)
        /\ \A i \in (g + 1)..(c - 1) : IsSpace(L[i])
        /\ EdgesBehind(L, c, n, E)

InQuery(s) ==
    /\ at \in {"main", "graph"} => \A i \in s..Len(read) : Empty(read[i])
    /\ at = "count" => rest = <<>> /\ edges = {} /\ InCount(read, s, graph)
    /\ at = "edge" => InEdges(read, s, graph, count, edges)
    /\ at = "ended" => IsOver(read, s)

\* The answers are for the queries that end with these lines of L.
Answered(L, ends, given) ==
    /\ ends \in [1..Len(given) -> 1..Len(L)]
    /\ \A i \in 1..Len(given) :
          IsQuery(L, NextLine(ends, i - 1), ends[i], given[i])

\* While the stream is good every answer is for its query.  Afterwards at most
\* one more is written.
AnswersInv ==
    /\ InputTypeOK
    /\ RestIsHarmless
    /\ ~failed => \E ends : /\ Answered(read, ends, answers)
                            /\ InQuery(NextLine(ends, Len(answers)))
    /\ failed => /\ at \in {"graph", "edge", "spinning"}
                 /\ AnswersAreQueries
                 /\ at = "edge" => edges = {} /\ AreQueries(answers, FALSE)

-----------------------------------------------------------------------------
(* More lines                                                              *)

\* M begins with the lines of L.
BeginsWith(M, L) ==
    /\ Len(L) <= Len(M)
    /\ \A i \in 1..Len(L) : M[i] = L[i]

LEMMA SameEdgeLines ==
  ASSUME NEW L \in Seq(Lines), NEW M \in Seq(Lines), BeginsWith(M, L),
         NEW a \in Nat \ {0}, NEW b \in 1..Len(L)
  PROVE  /\ EdgeLines(M, a, b) = EdgeLines(L, a, b)
         /\ \A i \in EdgeLines(L, a, b) : M[i] = L[i]
<1>1. \A i \in a..b : i \in 1..Len(L) /\ M[i] = L[i]
  BY DEF BeginsWith
<1> QED
  BY <1>1 DEF EdgeLines

LEMMA QueriesStay ==
  ASSUME NEW L \in Seq(Lines), NEW M \in Seq(Lines), BeginsWith(M, L),
         NEW a \in Nat \ {0}, NEW b \in 1..Len(L), NEW answer,
         IsQuery(L, a, b, answer)
  PROVE  IsQuery(M, a, b, answer)
<1>0. PICK g \in a..b : \E c \in (g + 1)..b : IsQueryAt(L, a, b, g, c, answer)
  BY DEF IsQuery
<1>1. PICK c \in (g + 1)..b : IsQueryAt(L, a, b, g, c, answer)
  BY <1>0
<1>2. \A i \in a..b : M[i] = L[i]
  BY DEF BeginsWith
<1>3. c + 1 \in Nat \ {0} /\ g \in a..b /\ c \in a..b
      /\ (\A i \in a..(g - 1) : i \in a..b)
      /\ (\A i \in (g + 1)..(c - 1) : i \in a..b)
      /\ (\A i \in (c + 1)..b : i \in a..b)
  OBVIOUS
<1>4. /\ EdgeLines(M, c + 1, b) = EdgeLines(L, c + 1, b)
      /\ {EdgeOf(ReadLine(M[i])) : i \in EdgeLines(M, c + 1, b)}
           = {EdgeOf(ReadLine(L[i])) : i \in EdgeLines(L, c + 1, b)}
  <2> DEFINE d == c + 1
  <2>1. d \in Nat \ {0}
    BY <1>3
  <2> HIDE DEF d
  <2>2. /\ EdgeLines(M, d, b) = EdgeLines(L, d, b)
        /\ \A i \in EdgeLines(L, d, b) : M[i] = L[i]
    BY <2>1, SameEdgeLines
  <2> QED
    BY <2>2 DEF d
<1>5. M[g] = L[g] /\ M[c] = L[c]
  BY <1>2, <1>3
<1>6. \A i \in a..(g - 1) : Empty(M[i])
  BY <1>1, <1>2, <1>3 DEF IsQueryAt
<1>7. \A i \in (g + 1)..(c - 1) : IsSpace(M[i])
  BY <1>1, <1>2, <1>3 DEF IsQueryAt
<1>8. \A i \in (c + 1)..b : ~IsBad(M[i])
  BY <1>1, <1>2, <1>3 DEF IsQueryAt
<1> QED
  BY <1>1, <1>4, <1>5, <1>6, <1>7, <1>8 DEF IsQuery, IsQueryAt

\* The first line behind the answered queries.
LEMMA NextLineFacts ==
  ASSUME NEW L \in Seq(Lines), NEW ends, NEW given, Len(given) \in Nat,
         Answered(L, ends, given), NEW i \in 0..Len(given)
  PROVE  NextLine(ends, i) \in 1..(Len(L) + 1)
BY DEF Answered, NextLine

LEMMA AnsweredStays ==
  ASSUME NEW L \in Seq(Lines), NEW M \in Seq(Lines), BeginsWith(M, L),
         NEW ends, NEW given, Len(given) \in Nat, Answered(L, ends, given)
  PROVE  Answered(M, ends, given)
<1>1. Len(L) \in Nat /\ Len(M) \in Nat /\ Len(L) <= Len(M)
  BY DEF BeginsWith
<1>2. ends \in [1..Len(given) -> 1..Len(M)]
  BY <1>1 DEF Answered
<1>3. ASSUME NEW i \in 1..Len(given)
      PROVE  IsQuery(M, NextLine(ends, i - 1), ends[i], given[i])
  <2> DEFINE a == NextLine(ends, i - 1)
             b == ends[i]
  <2>1. b \in 1..Len(L) /\ IsQuery(L, a, b, given[i])
    BY DEF Answered
  <2>2. i - 1 \in 0..Len(given)
    OBVIOUS
  <2>3. a \in Nat \ {0}
    BY <2>2, <1>1, NextLineFacts
  <2> HIDE DEF a, b
  <2>4. IsQuery(M, a, b, given[i])
    BY <2>1, <2>3, QueriesStay
  <2> QED
    BY <2>4 DEF a, b
<1> QED
  BY <1>2, <1>3 DEF Answered

LEMMA AnswerAdded ==
  ASSUME NEW L \in Seq(Lines), NEW S, NEW given \in Seq(S), NEW answer \in S,
         NEW ends, Answered(L, ends, given), Len(L) # 0,
         IsQuery(L, NextLine(ends, Len(given)), Len(L), answer)
  PROVE  \E more : /\ Answered(L, more, Append(given, answer))
                   /\ NextLine(more, Len(Append(given, answer))) = Len(L) + 1
<1> DEFINE n == Len(given)
           all == Append(given, answer)
           more == [i \in 1..(n + 1) |-> IF i <= n THEN ends[i] ELSE Len(L)]
<1>1. n \in Nat /\ Len(L) \in Nat
  OBVIOUS
<1>2. /\ Len(all) = n + 1 /\ all[n + 1] = answer
      /\ \A i \in 1..n : all[i] = given[i]
  OBVIOUS
<1>3. /\ ends \in [1..n -> 1..Len(L)]
      /\ \A i \in 1..n : IsQuery(L, NextLine(ends, i - 1), ends[i], given[i])
  BY DEF Answered
<1> HIDE DEF all, n
<1>4. more \in [1..(n + 1) -> 1..Len(L)]
  BY <1>1, <1>3
<1>5. \A i \in 0..n : NextLine(more, i) = NextLine(ends, i)
  BY <1>1 DEF NextLine
<1>6. more[n + 1] = Len(L) /\ \A i \in 1..n : more[i] = ends[i]
  BY <1>1
<1> HIDE DEF more
<1>7. ASSUME NEW i \in 1..(n + 1)
      PROVE  IsQuery(L, NextLine(more, i - 1), more[i], all[i])
  <2>1. CASE i = n + 1
    <3>1. NextLine(more, i - 1) = NextLine(ends, n)
      BY <1>1, <1>5, <2>1
    <3> QED
      BY <2>1, <3>1, <1>2, <1>6 DEF n
  <2>2. CASE i # n + 1
    <3>1. i \in 1..n /\ i - 1 \in 0..n
      BY <1>1, <2>2
    <3> QED
      BY <3>1, <1>2, <1>3, <1>5, <1>6
  <2> QED
    BY <2>1, <2>2
<1>8. NextLine(more, n + 1) = Len(L) + 1
  BY <1>1, <1>6 DEF NextLine
<1>9. Answered(L, more, all)
  BY <1>2, <1>4, <1>7 DEF Answered
<1> QED
  BY <1>2, <1>8, <1>9 DEF all

-----------------------------------------------------------------------------
(* One more line                                                           *)

LEMMA OneMore ==
  ASSUME NEW L \in Seq(Lines), NEW line \in Lines
  PROVE  /\ Append(L, line) \in Seq(Lines)
         /\ Len(Append(L, line)) = Len(L) + 1 /\ Len(L) \in Nat
         /\ Append(L, line)[Len(L) + 1] = line
         /\ \A i \in 1..Len(L) : Append(L, line)[i] = L[i]
         /\ BeginsWith(Append(L, line), L)
BY DEF BeginsWith

LEMMA EmptyIsNotBad == ~IsBad(<<"">>)
<1> DEFINE line == <<"">>
<1>1. Len(line) = 1 /\ DOMAIN line = {1} /\ line[1] = "" /\ 1..(1 - 1) = {}
  OBVIOUS
<1> HIDE DEF line
<1>2. ~IsBad(line)
  BY <1>1 DEF IsBad
<1> QED
  BY <1>2 DEF line

\* The edge lines of L and one more.
LEMMA MoreEdgeLines ==
  ASSUME NEW L \in Seq(Lines), NEW line \in Lines, NEW a \in 1..(Len(L) + 1)
  PROVE  LET M == Append(L, line)
             more == EdgeLines(M, a, Len(L) + 1)
         IN  /\ IF ~Empty(line) /\ ~IsBad(line) /\ Len(ReadLine(line)) = 4
                  THEN more = EdgeLines(L, a, Len(L)) \cup {Len(L) + 1}
                  ELSE more = EdgeLines(L, a, Len(L))
             /\ Len(L) + 1 \notin EdgeLines(L, a, Len(L))
             /\ \A i \in EdgeLines(L, a, Len(L)) : M[i] = L[i]
<1> DEFINE M == Append(L, line)
           n == Len(L)
<1>1. n \in Nat /\ M[n + 1] = line /\ \A i \in 1..n : M[i] = L[i]
  BY OneMore
<1> HIDE DEF M
<1>2. \A i \in a..(n + 1) : i = n + 1 \/ i \in a..n
  BY <1>1
<1>3. \A i \in a..n : i \in a..(n + 1) /\ i \in 1..n /\ i # n + 1
  BY <1>1
<1>4. n + 1 \in a..(n + 1)
  BY <1>1
<1>5. /\ n + 1 \notin EdgeLines(L, a, n)
      /\ \A i \in EdgeLines(L, a, n) : M[i] = L[i]
  BY <1>1, <1>3 DEF EdgeLines
<1> HIDE DEF n
<1>6. IF ~Empty(line) /\ ~IsBad(line) /\ Len(ReadLine(line)) = 4
        THEN EdgeLines(M, a, n + 1) = EdgeLines(L, a, n) \cup {n + 1}
        ELSE EdgeLines(M, a, n + 1) = EdgeLines(L, a, n)
  BY <1>1, <1>2, <1>3, <1>4 DEF EdgeLines
<1> QED
  BY <1>5, <1>6 DEF M, n

LEMMA NoEdge ==
  ASSUME NEW L \in Seq(Lines), NEW line \in Lines, NEW c \in 1..Len(L),
         NEW n \in Nat \ {0}, NEW E, EdgesBehind(L, c, n, E), ~IsBad(line),
         Empty(line) \/ Len(ReadLine(line)) # 4
  PROVE  EdgesBehind(Append(L, line), c, n, E)
<1> DEFINE M == Append(L, line)
           k == Len(L)
<1>1. /\ k \in Nat /\ Len(M) = k + 1 /\ M[k + 1] = line
      /\ \A i \in 1..k : M[i] = L[i]
  BY OneMore
<1>2. /\ EdgeLines(M, c + 1, k + 1) = EdgeLines(L, c + 1, k)
      /\ \A i \in EdgeLines(L, c + 1, k) : M[i] = L[i]
  <2> DEFINE d == c + 1
  <2>1. d \in 1..(Len(L) + 1)
    BY <1>1
  <2> HIDE DEF d
  <2> QED
    BY <2>1, MoreEdgeLines DEF d
<1> HIDE DEF M
<1>3. \A i \in (c + 1)..(k + 1) : ~IsBad(M[i])
  <2>1. \A i \in (c + 1)..(k + 1) :
           i = k + 1 \/ (i \in (c + 1)..k /\ i \in 1..k)
    BY <1>1
  <2> QED
    BY <2>1, <1>1 DEF EdgesBehind
<1>4. M[c] = L[c]
  BY <1>1
<1>5. {EdgeOf(ReadLine(M[i])) : i \in EdgeLines(L, c + 1, k)}
        = {EdgeOf(ReadLine(L[i])) : i \in EdgeLines(L, c + 1, k)}
  BY <1>2
<1> QED
  BY <1>1, <1>2, <1>3, <1>4, <1>5 DEF EdgesBehind, M

LEMMA OneEdge ==
  ASSUME NEW L \in Seq(Lines), NEW line \in Lines, NEW c \in 1..Len(L),
         NEW n \in Nat \ {0}, NEW E, EdgesBehind(L, c, n, E), ~IsBad(line),
         ~Empty(line), Len(ReadLine(line)) = 4
  PROVE  EdgesBehind(Append(L, line), c, n - 1, E \cup {EdgeOf(ReadLine(line))})
<1> DEFINE M == Append(L, line)
           k == Len(L)
           old == EdgeLines(L, c + 1, k)
<1>1. /\ k \in Nat /\ Len(M) = k + 1 /\ M[k + 1] = line
      /\ \A i \in 1..k : M[i] = L[i]
  BY OneMore
<1>2. /\ EdgeLines(M, c + 1, k + 1) = old \cup {k + 1}
      /\ k + 1 \notin old
      /\ \A i \in old : M[i] = L[i]
  <2> DEFINE d == c + 1
  <2>1. d \in 1..(Len(L) + 1)
    BY <1>1
  <2> HIDE DEF d
  <2> QED
    BY <2>1, MoreEdgeLines DEF d
<1> HIDE DEF M
<1>3. \A i \in (c + 1)..(k + 1) : ~IsBad(M[i])
  <2>1. \A i \in (c + 1)..(k + 1) :
           i = k + 1 \/ (i \in (c + 1)..k /\ i \in 1..k)
    BY <1>1
  <2> QED
    BY <2>1, <1>1 DEF EdgesBehind
<1>4. M[c] = L[c]
  BY <1>1
<1>5. /\ IsFiniteSet(old) /\ StartsWith(L[c], n + Cardinality(old))
      /\ E = {EdgeOf(ReadLine(L[i])) : i \in old}
  BY DEF EdgesBehind
<1> HIDE DEF old, k
<1>6. /\ IsFiniteSet(old \cup {k + 1})
      /\ Cardinality(old) \in Nat
      /\ Cardinality(old \cup {k + 1}) = Cardinality(old) + 1
  BY <1>2, <1>5, FS_AddElement, FS_CardinalityType
<1>7. n + Cardinality(old) = (n - 1) + Cardinality(old \cup {k + 1})
  BY <1>6
<1>8. {EdgeOf(ReadLine(M[i])) : i \in old \cup {k + 1}}
        = E \cup {EdgeOf(ReadLine(line))}
  BY <1>1, <1>2, <1>5
<1>9. StartsWith(M[c], (n - 1) + Cardinality(old \cup {k + 1}))
  BY <1>4, <1>5, <1>7
<1>10. k + 1 \in old \cup {k + 1}
  OBVIOUS
<1> QED
  BY <1>1, <1>2, <1>3, <1>6, <1>8, <1>9, <1>10 DEF EdgesBehind, M

LEMMA NoEdgeYet ==
  ASSUME NEW M \in Seq(Lines), NEW n \in Nat, StartsWith(M[Len(M)], n)
  PROVE  EdgesBehind(M, Len(M), n, {})
<1>1. Len(M) \in Nat /\ (Len(M) + 1)..Len(M) = {}
  OBVIOUS
<1>2. EdgeLines(M, Len(M) + 1, Len(M)) = {}
  BY <1>1 DEF EdgeLines
<1>3. IsFiniteSet({}) /\ Cardinality({}) = 0 /\ n + 0 = n
  BY FS_EmptySet
<1> QED
  BY <1>1, <1>2, <1>3 DEF EdgesBehind

\* When no more edges are wanted, the lines so far are a query.
LEMMA QueryIsOver ==
  ASSUME NEW L \in Seq(Lines), NEW s \in Nat \ {0}, NEW G, NEW E,
         InEdges(L, s, G, 0, E)
  PROVE  Len(L) # 0 /\ IsQuery(L, s, Len(L), [graph |-> G, edges |-> E])
<1> DEFINE b == Len(L)
           answer == [graph |-> G, edges |-> E]
<1>1. PICK g \in s..b : \E c \in (g + 1)..b :
        /\ GraphAt(L, s, g, G)
        /\ \A i \in (g + 1)..(c - 1) : IsSpace(L[i])
        /\ EdgesBehind(L, c, 0, E)
  BY DEF InEdges
<1>2. PICK c \in (g + 1)..b :
        /\ GraphAt(L, s, g, G)
        /\ \A i \in (g + 1)..(c - 1) : IsSpace(L[i])
        /\ EdgesBehind(L, c, 0, E)
  BY <1>1
<1>3. b # 0 /\ b \in Nat
  OBVIOUS
<1>4. /\ IsFiniteSet(EdgeLines(L, c + 1, b))
      /\ StartsWith(L[c], 0 + Cardinality(EdgeLines(L, c + 1, b)))
      /\ \A i \in (c + 1)..b : ~IsBad(L[i])
      /\ b = c \/ b \in EdgeLines(L, c + 1, b)
      /\ E = {EdgeOf(ReadLine(L[i])) : i \in EdgeLines(L, c + 1, b)}
  BY <1>2 DEF EdgesBehind
<1>5. 0 + Cardinality(EdgeLines(L, c + 1, b))
        = Cardinality(EdgeLines(L, c + 1, b))
  BY <1>4, FS_CardinalityType
<1>6. answer.graph = G /\ answer.edges = E
  OBVIOUS
<1> HIDE DEF b, answer
<1>7. IsQueryAt(L, s, b, g, c, answer)
  BY <1>2, <1>4, <1>5, <1>6 DEF IsQueryAt, GraphAt
<1>8. IsQuery(L, s, b, answer)
  BY <1>7 DEF IsQuery
<1> QED
  BY <1>3, <1>8 DEF b, answer
\* What a line adds to the query that is being read.
LEMMA LineAdded ==
  ASSUME NEW L \in Seq(Lines), NEW line \in Lines, NEW s \in 1..(Len(L) + 1)
  PROVE  LET M == Append(L, line)
         IN  /\ (\A i \in s..Len(L) : Empty(L[i])) =>
                   /\ Empty(line) => \A i \in s..Len(M) : Empty(M[i])
                   /\ ~Empty(line) /\ ~IsBad(line) =>
                         InCount(M, s, ReadLine(line))
                   /\ line = <<"exit">> => IsOver(M, s)
             /\ \A G : InCount(L, s, G) =>
                   /\ IsSpace(line) => InCount(M, s, G)
                   /\ \A n \in Nat : StartsWith(line, n) =>
                         InEdges(M, s, G, n, {})
<1> DEFINE M == Append(L, line)
           k == Len(L)
<1>1. /\ k \in Nat /\ Len(M) = k + 1 /\ M[k + 1] = line /\ M \in Seq(Lines)
      /\ \A i \in 1..k : M[i] = L[i]
  BY OneMore
<1> HIDE DEF M
<1>2. \A i \in s..k : i \in 1..k
  BY <1>1
<1>3. ASSUME \A i \in s..k : Empty(L[i])
      PROVE  /\ Empty(line) => \A i \in s..(k + 1) : Empty(M[i])
             /\ ~Empty(line) /\ ~IsBad(line) => InCount(M, s, ReadLine(line))
             /\ line = <<"exit">> => IsOver(M, s)
  <2>1. \A i \in s..k : Empty(M[i])
    BY <1>1, <1>2, <1>3
  <2>2. /\ \A i \in s..(k + 1) : i = k + 1 \/ i \in s..k
        /\ \A i \in s..(k + 1 - 1) : i \in s..k
        /\ k + 1 \in s..(k + 1) /\ (k + 2)..(k + 1) = {} /\ k + 1 + 1 = k + 2
    BY <1>1
  <2>3. Empty(line) => \A i \in s..(k + 1) : Empty(M[i])
    BY <1>1, <2>1, <2>2
  <2>4. ~Empty(line) /\ ~IsBad(line) => GraphAt(M, s, k + 1, ReadLine(line))
    BY <1>1, <2>1, <2>2 DEF GraphAt
  <2>5. ~Empty(line) /\ ~IsBad(line) => InCount(M, s, ReadLine(line))
    BY <1>1, <2>2, <2>4 DEF InCount
  <2>6. line = <<"exit">> => IsOver(M, s)
    BY <1>1, <2>1, <2>2 DEF IsOver
  <2> QED
    BY <2>3, <2>5, <2>6
<1>4. ASSUME NEW G, InCount(L, s, G)
      PROVE  /\ IsSpace(line) => InCount(M, s, G)
             /\ \A n \in Nat : StartsWith(line, n) => InEdges(M, s, G, n, {})
  <2>1. PICK g \in s..k : /\ GraphAt(L, s, g, G)
                          /\ \A i \in (g + 1)..k : IsSpace(L[i])
    BY <1>4 DEF InCount
  <2>2. /\ g \in Nat /\ g \in 1..k /\ g \in s..(k + 1)
        /\ \A i \in s..(g - 1) : i \in 1..k
        /\ \A i \in (g + 1)..(k + 1) :
              i = k + 1 \/ (i \in (g + 1)..k /\ i \in 1..k)
        /\ \A i \in (g + 1)..(k + 1 - 1) : i \in (g + 1)..k /\ i \in 1..k
        /\ k + 1 \in (g + 1)..(k + 1)
    BY <1>1
  <2>3. GraphAt(M, s, g, G)
    BY <1>1, <2>1, <2>2 DEF GraphAt
  <2>4. \A i \in (g + 1)..(k + 1 - 1) : IsSpace(M[i])
    BY <1>1, <2>1, <2>2
  <2>5. IsSpace(line) => \A i \in (g + 1)..(k + 1) : IsSpace(M[i])
    BY <1>1, <2>1, <2>2
  <2>6. IsSpace(line) => InCount(M, s, G)
    BY <1>1, <2>2, <2>3, <2>5 DEF InCount
  <2>7. ASSUME NEW n \in Nat, StartsWith(line, n)
        PROVE  InEdges(M, s, G, n, {})
    <3>1. EdgesBehind(M, k + 1, n, {})
      BY <1>1, <2>7, NoEdgeYet
    <3> QED
      BY <1>1, <2>2, <2>3, <2>4, <3>1 DEF InEdges
  <2> QED
    BY <2>6, <2>7
<1> QED
  BY <1>1, <1>3, <1>4 DEF M

LEMMA EdgeLineAdded ==
  ASSUME NEW L \in Seq(Lines), NEW line \in Lines, NEW s \in 1..(Len(L) + 1),
         NEW G, NEW n \in Nat \ {0}, NEW E, InEdges(L, s, G, n, E),
         ~IsBad(line)
  PROVE  /\ Empty(line) \/ Len(ReadLine(line)) # 4 =>
               InEdges(Append(L, line), s, G, n, E)
         /\ ~Empty(line) /\ Len(ReadLine(line)) = 4 =>
               InEdges(Append(L, line), s, G, n - 1,
                       E \cup {EdgeOf(ReadLine(line))})
<1> DEFINE M == Append(L, line)
           k == Len(L)
<1>1. /\ k \in Nat /\ Len(M) = k + 1
      /\ \A i \in 1..k : M[i] = L[i]
  BY OneMore
<1>2. PICK g \in s..k : \E c \in (g + 1)..k :
        /\ GraphAt(L, s, g, G)
        /\ \A i \in (g + 1)..(c - 1) : IsSpace(L[i])
        /\ EdgesBehind(L, c, n, E)
  BY DEF InEdges
<1>3. PICK c \in (g + 1)..k :
        /\ GraphAt(L, s, g, G)
        /\ \A i \in (g + 1)..(c - 1) : IsSpace(L[i])
        /\ EdgesBehind(L, c, n, E)
  BY <1>2
<1>4. /\ g \in 1..k /\ g \in s..(k + 1) /\ c \in 1..k /\ c \in (g + 1)..(k + 1)
      /\ \A i \in s..(g - 1) : i \in 1..k
      /\ \A i \in (g + 1)..(c - 1) : i \in 1..k
  BY <1>1
<1>5. Empty(line) \/ Len(ReadLine(line)) # 4 => EdgesBehind(M, c, n, E)
  BY <1>3, <1>4, NoEdge
<1>6. ~Empty(line) /\ Len(ReadLine(line)) = 4 =>
        EdgesBehind(M, c, n - 1, E \cup {EdgeOf(ReadLine(line))})
  BY <1>3, <1>4, OneEdge
<1> HIDE DEF M
<1>7. GraphAt(M, s, g, G) /\ \A i \in (g + 1)..(c - 1) : IsSpace(M[i])
  BY <1>1, <1>3, <1>4 DEF GraphAt
<1>8. \A m, F : EdgesBehind(M, c, m, F) => InEdges(M, s, G, m, F)
  BY <1>1, <1>4, <1>7 DEF InEdges
<1> QED
  BY <1>5, <1>6, <1>8 DEF M

-----------------------------------------------------------------------------
(* The steps                                                               *)

LEMMA Numbers ==
  /\ \A word \in DOMAIN Number : Number[word] \in Nat /\ word # "" /\ word # "x"
  /\ "exit" \notin DOMAIN Number
<1>1. DOMAIN Number = {"0", "1", "2", "2x", "6", "1000"}
  BY DEF Number
<1>2. ASSUME NEW word \in DOMAIN Number
      PROVE  Number[word] \in Nat /\ word # "" /\ word # "x"
  <2>1. CASE word = "0"
    BY <2>1 DEF Number
  <2>2. CASE word = "1"
    BY <2>2 DEF Number
  <2>3. CASE word \in {"2", "2x"}
    BY <2>3 DEF Number
  <2>4. CASE word = "6"
    BY <2>4 DEF Number
  <2>5. CASE word = "1000"
    BY <2>5 DEF Number
  <2> QED
    BY <1>1, <1>2, <2>1, <2>2, <2>3, <2>4, <2>5
<1> QED
  BY <1>1, <1>2

LEMMA LinesHaveWords == Lines \subseteq Seq(Words)
<1>1. STRING \subseteq Words
  BY DEF Words
<1>2. ASSUME NEW S, NEW T, S \subseteq T
      PROVE  Seq(S) \subseteq Seq(T)
  BY <1>2, SeqDef
<1>3. Seq(STRING) \subseteq Seq(Words)
  BY <1>1, <1>2
<1> QED
  BY <1>3, CalculatorAssumption

LEMMA GetLineFacts ==
  ASSUME InputTypeOK, NEW line \in AnyLine, GetLine(line)
  PROVE  /\ ~failed /\ failed' = failed /\ rest' = <<>>
         /\ line \in Seq(Words)
         /\ rest = <<>> => line \in Lines /\ read' = Append(read, line)
         /\ rest # <<>> => line = rest /\ read' = read
         /\ read' \in Seq(Lines) /\ BeginsWith(read', read)
<1>1. /\ ~failed /\ failed' = failed /\ rest' = <<>>
      /\ rest = <<>> => line \in Lines /\ read' = Append(read, line)
      /\ rest # <<>> => line = rest /\ read' = read
  BY DEF GetLine, AnyLine
<1>2. line \in Seq(Words)
  BY <1>1, LinesHaveWords DEF InputTypeOK
<1>3. read' \in Seq(Lines) /\ BeginsWith(read', read)
  <2>1. CASE rest = <<>>
    BY <1>1, <2>1, OneMore DEF InputTypeOK
  <2>2. CASE rest # <<>>
    BY <1>1, <2>2 DEF InputTypeOK, BeginsWith
  <2> QED
    BY <2>1, <2>2
<1> QED
  BY <1>1, <1>2, <1>3

LEMMA EmptyRest ==
  ASSUME rest' = <<>> PROVE RestIsHarmless' /\ rest' \in Seq(Words)
BY DEF RestIsHarmless

\* Where lines of numbers are read, what is left of a line is none.
LEMMA RestIsSkipped ==
  ASSUME RestIsHarmless, NEW line \in AnyLine, rest # <<>>
  PROVE  Empty(line) \/ (IsBad(line) /\ line # <<"exit">>)
BY DEF RestIsHarmless, AnyLine, Empty

LEMMA AnsweredAreQueries ==
  ASSUME InputTypeOK, NEW given, DOMAIN given = 1..Len(given),
         NEW ends, Answered(read, ends, given)
  PROVE  /\ AreQueries(given, FALSE)
         /\ IsOver(read, NextLine(ends, Len(given))) => AreQueries(given, TRUE)
BY DEF Answered, AreQueries

\* A step that leaves the stream good and writes no answer.
LEMMA GoodStep ==
  ASSUME AnswersInv, ~failed, InputTypeOK', RestIsHarmless', ~failed',
         answers' = answers, BeginsWith(read', read),
         \A s \in 1..(Len(read) + 1) : InQuery(s) => InQuery(s)'
  PROVE  AnswersInv'
<1>1. PICK ends : Answered(read, ends, answers)
                  /\ InQuery(NextLine(ends, Len(answers)))
  BY DEF AnswersInv
<1>2. read \in Seq(Lines) /\ read' \in Seq(Lines) /\ Len(answers) \in Nat
  BY DEF AnswersInv, InputTypeOK
<1>3. Answered(read', ends, answers)
  BY <1>1, <1>2, AnsweredStays
<1>4. NextLine(ends, Len(answers)) \in 1..(Len(read) + 1)
  <2>1. Len(answers) \in 0..Len(answers)
    BY <1>2
  <2> QED
    BY <1>1, <1>2, <2>1, NextLineFacts
<1>5. InQuery(NextLine(ends, Len(answers)))'
  BY <1>1, <1>4
<1>6. Answered(read, ends, answers)'
  BY <1>3 DEF Answered
<1> QED
  BY <1>5, <1>6 DEF AnswersInv

\* A step in which the stream fails.
LEMMA FailingStep ==
  ASSUME AnswersInv, ~failed, InputTypeOK', RestIsHarmless', failed',
         answers' = answers, BeginsWith(read', read),
         at' \in {"graph", "edge", "spinning"},
         at' = "edge" => edges' = {}
  PROVE  AnswersInv'
<1>1. PICK ends : Answered(read, ends, answers)
  BY DEF AnswersInv
<1>2. /\ read \in Seq(Lines) /\ read' \in Seq(Lines) /\ Len(answers) \in Nat
      /\ DOMAIN answers = 1..Len(answers)
  BY DEF AnswersInv, InputTypeOK
<1>3. Answered(read', ends, answers)
  BY <1>1, <1>2, AnsweredStays
<1>4. AreQueries(answers, FALSE)'
  BY <1>2, <1>3 DEF Answered, AreQueries
<1>5. AnswersAreQueries'
  BY <1>4 DEF AnswersAreQueries, AreQueries
<1> QED
  BY <1>4, <1>5 DEF AnswersInv

LEMMA SameType ==
  ASSUME InputTypeOK, read' \in Seq(Lines), rest' = <<>>, failed' = failed,
         at' \in {at, "ended", "thrown", "count"},
         graph' \in Graphs, count' \in Nat, edges' \in EdgeSets,
         answers' = answers
  PROVE  InputTypeOK' /\ RestIsHarmless'
<1>1. RestIsHarmless' /\ rest' \in Seq(Words)
  BY EmptyRest
<1> QED
  BY <1>1 DEF InputTypeOK

LEMMA SkipEmptyLineStep ==
  ASSUME AnswersInv, SkipEmptyLine PROVE AnswersInv'
<1>0. InputTypeOK
  BY DEF AnswersInv
<1>1. PICK line \in AnyLine : Empty(line) /\ GetLine(line)
  BY DEF SkipEmptyLine
<1>2. /\ ReadsALine /\ at' = at /\ graph' = graph /\ count' = count
      /\ edges' = edges /\ answers' = answers
  BY DEF SkipEmptyLine, queryVars
<1>3. /\ ~failed /\ failed' = failed /\ rest' = <<>>
      /\ rest = <<>> => line \in Lines /\ read' = Append(read, line)
      /\ rest # <<>> => read' = read
      /\ read' \in Seq(Lines) /\ BeginsWith(read', read)
  BY <1>0, <1>1, GetLineFacts
<1>4. InputTypeOK' /\ RestIsHarmless'
  BY <1>0, <1>2, <1>3, SameType DEF InputTypeOK
<1>5. ASSUME NEW s \in 1..(Len(read) + 1), InQuery(s)
      PROVE  InQuery(s)'
  <2>1. CASE rest # <<>>
    BY <1>2, <1>3, <1>5, <2>1 DEF InQuery, ReadsALine
  <2>2. CASE rest = <<>>
    <3>1. line \in Lines /\ read' = Append(read, line) /\ read \in Seq(Lines)
      BY <1>0, <1>3, <2>2 DEF InputTypeOK
    <3>2. CASE at = "graph"
      <4>1. \A i \in s..Len(read) : Empty(read[i])
        BY <1>5, <3>2 DEF InQuery
      <4>2. \A i \in s..Len(read') : Empty(read'[i])
        BY <1>1, <3>1, <4>1, LineAdded
      <4> QED
        BY <1>2, <3>2, <4>2 DEF InQuery
    <3>3. CASE at = "edge" /\ count > 0
      <4>1. InEdges(read, s, graph, count, edges) /\ count \in Nat \ {0}
        BY <1>0, <1>5, <3>3 DEF InQuery, InputTypeOK
      <4>2. ~IsBad(line)
        BY <1>1, EmptyIsNotBad DEF Empty
      <4>3. InEdges(read', s, graph, count, edges)
        BY <1>1, <3>1, <4>1, <4>2, EdgeLineAdded
      <4> QED
        BY <1>2, <3>3, <4>3 DEF InQuery, InEdges
    <3> QED
      BY <1>2, <3>2, <3>3 DEF ReadsALine
  <2> QED
    BY <2>1, <2>2
<1> QED
  BY <1>2, <1>3, <1>4, <1>5, GoodStep

LEMMA ThrowStep == ASSUME AnswersInv, Throw PROVE AnswersInv'
<1>0. InputTypeOK
  BY DEF AnswersInv
<1>1. PICK line \in AnyLine : GetLine(line)
  BY DEF Throw
<1>2. /\ at' = "thrown" /\ graph' = graph /\ count' = count
      /\ edges' = edges /\ answers' = answers
  BY DEF Throw, queryVars
<1>3. /\ ~failed /\ failed' = failed /\ rest' = <<>>
      /\ read' \in Seq(Lines) /\ BeginsWith(read', read)
  BY <1>0, <1>1, GetLineFacts
<1>4. InputTypeOK' /\ RestIsHarmless'
  BY <1>0, <1>2, <1>3, SameType DEF InputTypeOK
<1>5. \A s \in 1..(Len(read) + 1) : InQuery(s)'
  BY <1>2 DEF InQuery
<1> QED
  BY <1>2, <1>3, <1>4, <1>5, GoodStep

LEMMA ExitStep == ASSUME AnswersInv, Exit PROVE AnswersInv'
<1>0. InputTypeOK /\ RestIsHarmless
  BY DEF AnswersInv
<1> DEFINE line == <<"exit">>
<1>1. line \in AnyLine /\ GetLine(line) /\ at = "graph"
  BY DEF Exit
<1>2. /\ at' = "ended" /\ graph' = graph /\ count' = count
      /\ edges' = edges /\ answers' = answers
  BY DEF Exit, queryVars
<1>3. rest = <<>>
  <2>1. line[1] # <<"">>[1]
    OBVIOUS
  <2>2. ~Empty(line)
    BY <2>1 DEF Empty
  <2> QED
    BY <1>0, <1>1, <2>2, RestIsSkipped
<1> HIDE DEF line
<1>4. /\ ~failed /\ failed' = failed /\ rest' = <<>>
      /\ line \in Lines /\ read' = Append(read, line)
      /\ read' \in Seq(Lines) /\ BeginsWith(read', read)
  BY <1>0, <1>1, <1>3, GetLineFacts
<1>5. InputTypeOK' /\ RestIsHarmless'
  BY <1>0, <1>2, <1>4, SameType DEF InputTypeOK
<1>6. ASSUME NEW s \in 1..(Len(read) + 1), InQuery(s)
      PROVE  InQuery(s)'
  <2>1. \A i \in s..Len(read) : Empty(read[i])
    BY <1>1, <1>6 DEF InQuery
  <2>2. IsOver(read', s)
    BY <1>0, <1>4, <2>1, LineAdded DEF InputTypeOK, line
  <2> QED
    BY <1>2, <2>2 DEF InQuery, IsOver
<1> QED
  BY <1>2, <1>4, <1>5, <1>6, GoodStep

LEMMA AskCompleteGraphStep ==
  ASSUME AnswersInv, AskCompleteGraph PROVE AnswersInv'
<1>0. InputTypeOK /\ RestIsHarmless
  BY DEF AnswersInv
<1>1. PICK line \in AnyLine : /\ ~Empty(line) /\ ~IsBad(line) /\ GetLine(line)
                             /\ graph' = ReadLine(line)
  BY DEF AskCompleteGraph
<1>2. /\ at = "graph" /\ at' = "count" /\ count' = count
      /\ edges' = {} /\ answers' = answers
  BY DEF AskCompleteGraph
<1>3. rest = <<>>
  BY <1>0, <1>1, RestIsSkipped
<1>4. /\ ~failed /\ failed' = failed /\ rest' = <<>> /\ line \in Seq(Words)
      /\ line \in Lines /\ read' = Append(read, line)
      /\ read' \in Seq(Lines) /\ BeginsWith(read', read)
  BY <1>0, <1>1, <1>3, GetLineFacts
<1>5. InputTypeOK' /\ RestIsHarmless'
  <2>1. graph' \in Graphs /\ {} \in EdgeSets
    BY <1>1, <1>4 DEF Graphs, EdgeSets
  <2> QED
    BY <1>0, <1>2, <1>4, <2>1, SameType DEF InputTypeOK
<1>6. ASSUME NEW s \in 1..(Len(read) + 1), InQuery(s)
      PROVE  InQuery(s)'
  <2>1. \A i \in s..Len(read) : Empty(read[i])
    BY <1>2, <1>6 DEF InQuery
  <2>2. InCount(read', s, graph')
    BY <1>0, <1>1, <1>4, <2>1, LineAdded DEF InputTypeOK
  <2> QED
    BY <1>2, <1>4, <2>2 DEF InQuery, InCount
<1> QED
  BY <1>2, <1>4, <1>5, <1>6, GoodStep

LEMMA SkipSpaceStep == ASSUME AnswersInv, SkipSpace PROVE AnswersInv'
<1>0. InputTypeOK
  BY DEF AnswersInv
<1>1. PICK line \in AnyLine : IsSpace(line) /\ GetLine(line)
  BY DEF SkipSpace
<1>2. /\ at = "count" /\ at' = at /\ graph' = graph /\ count' = count
      /\ edges' = edges /\ answers' = answers
  BY DEF SkipSpace, queryVars
<1>3. /\ ~failed /\ failed' = failed /\ rest' = <<>>
      /\ rest = <<>> => line \in Lines /\ read' = Append(read, line)
      /\ read' \in Seq(Lines) /\ BeginsWith(read', read)
  BY <1>0, <1>1, GetLineFacts
<1>4. InputTypeOK' /\ RestIsHarmless'
  BY <1>0, <1>2, <1>3, SameType DEF InputTypeOK
<1>5. ASSUME NEW s \in 1..(Len(read) + 1), InQuery(s)
      PROVE  InQuery(s)'
  <2>1. rest = <<>> /\ edges = {} /\ InCount(read, s, graph)
    BY <1>2, <1>5 DEF InQuery
  <2>2. InCount(read', s, graph)
    BY <1>0, <1>1, <1>3, <2>1, LineAdded DEF InputTypeOK
  <2> QED
    BY <1>2, <1>3, <2>1, <2>2 DEF InQuery, InCount
<1> QED
  BY <1>2, <1>3, <1>4, <1>5, GoodStep

LEMMA AskEdgeStep == ASSUME AnswersInv, AskEdge PROVE AnswersInv'
<1>0. InputTypeOK /\ RestIsHarmless
  BY DEF AnswersInv
<1>1. PICK line \in AnyLine :
        /\ ~Empty(line) /\ ~IsBad(line) /\ Len(ReadLine(line)) = 4
        /\ GetLine(line) /\ edges' = edges \cup {EdgeOf(ReadLine(line))}
  BY DEF AskEdge
<1>2. /\ at = "edge" /\ at' = at /\ count > 0 /\ count' = count - 1
      /\ graph' = graph /\ answers' = answers
  BY DEF AskEdge
<1>3. rest = <<>>
  BY <1>0, <1>1, RestIsSkipped
<1>4. /\ ~failed /\ failed' = failed /\ rest' = <<>> /\ line \in Seq(Words)
      /\ line \in Lines /\ read' = Append(read, line)
      /\ read' \in Seq(Lines) /\ BeginsWith(read', read)
  BY <1>0, <1>1, <1>3, GetLineFacts
<1>5. InputTypeOK' /\ RestIsHarmless'
  <2>1. edges' \in EdgeSets
    BY <1>0, <1>1, <1>4 DEF EdgeSets, InputTypeOK
  <2>2. count' \in Nat
    BY <1>0, <1>2 DEF InputTypeOK
  <2> QED
    BY <1>0, <1>2, <1>4, <2>1, <2>2, SameType DEF InputTypeOK
<1>6. ASSUME NEW s \in 1..(Len(read) + 1), InQuery(s)
      PROVE  InQuery(s)'
  <2>1. InEdges(read, s, graph, count, edges) /\ count \in Nat \ {0}
    BY <1>0, <1>2, <1>6 DEF InQuery, InputTypeOK
  <2>2. InEdges(read', s, graph, count - 1, edges \cup {EdgeOf(ReadLine(line))})
    BY <1>0, <1>1, <1>4, <2>1, EdgeLineAdded DEF InputTypeOK
  <2> QED
    BY <1>1, <1>2, <2>2 DEF InQuery, InEdges
<1> QED
  BY <1>2, <1>4, <1>5, <1>6, GoodStep

LEMMA AskAgainStep == ASSUME AnswersInv, AskAgain PROVE AnswersInv'
<1>0. InputTypeOK /\ RestIsHarmless
  BY DEF AnswersInv
<1>1. PICK line \in AnyLine :
        ~Empty(line) /\ ~IsBad(line) /\ Len(ReadLine(line)) # 4 /\ GetLine(line)
  BY DEF AskAgain
<1>2. /\ at = "edge" /\ at' = at /\ count > 0 /\ count' = count
      /\ graph' = graph /\ edges' = edges /\ answers' = answers
  BY DEF AskAgain, queryVars
<1>3. rest = <<>>
  BY <1>0, <1>1, RestIsSkipped
<1>4. /\ ~failed /\ failed' = failed /\ rest' = <<>>
      /\ line \in Lines /\ read' = Append(read, line)
      /\ read' \in Seq(Lines) /\ BeginsWith(read', read)
  BY <1>0, <1>1, <1>3, GetLineFacts
<1>5. InputTypeOK' /\ RestIsHarmless'
  BY <1>0, <1>2, <1>4, SameType DEF InputTypeOK
<1>6. ASSUME NEW s \in 1..(Len(read) + 1), InQuery(s)
      PROVE  InQuery(s)'
  <2>1. InEdges(read, s, graph, count, edges) /\ count \in Nat \ {0}
    BY <1>0, <1>2, <1>6 DEF InQuery, InputTypeOK
  <2>2. InEdges(read', s, graph, count, edges)
    BY <1>0, <1>1, <1>4, <2>1, EdgeLineAdded DEF InputTypeOK
  <2> QED
    BY <1>2, <2>2 DEF InQuery, InEdges
<1> QED
  BY <1>2, <1>4, <1>5, <1>6, GoodStep

LEMMA OpenStreamsStep == ASSUME AnswersInv, OpenStreams PROVE AnswersInv'
<1>1. /\ at = "main" /\ at' = "graph" /\ read' = read /\ rest' = rest
      /\ graph' = graph /\ count' = count /\ edges' = edges
      /\ answers' = answers /\ failed' \in BOOLEAN
  BY DEF OpenStreams, queryVars
<1>2. InputTypeOK /\ RestIsHarmless /\ ~failed
  BY <1>1 DEF AnswersInv, InputTypeOK
<1>3. InputTypeOK'
  BY <1>1, <1>2 DEF InputTypeOK
<1>4. RestIsHarmless'
  BY <1>1, <1>2 DEF RestIsHarmless
<1>5. BeginsWith(read', read)
  BY <1>1, <1>2 DEF BeginsWith, InputTypeOK
<1>6. CASE failed'
  BY <1>1, <1>2, <1>3, <1>4, <1>5, <1>6, FailingStep
<1>7. CASE ~failed'
  <2>1. \A s \in 1..(Len(read) + 1) : InQuery(s) => InQuery(s)'
    BY <1>1 DEF InQuery
  <2> QED
    BY <1>1, <1>2, <1>3, <1>4, <1>5, <1>7, <2>1, GoodStep
<1> QED
  BY <1>6, <1>7

\* Nothing changes but how the program stands before a stream that failed.
LEMMA NothingMoreIsRead ==
  ASSUME AnswersInv, failed, failed', answers' = answers, read' = read,
         InputTypeOK', RestIsHarmless', at' \in {at, "spinning"}, edges' = edges
  PROVE  AnswersInv'
<1>1. /\ at \in {"graph", "edge", "spinning"} /\ AnswersAreQueries
      /\ at = "edge" => edges = {} /\ AreQueries(answers, FALSE)
  BY DEF AnswersInv
<1>2. at # "ended" /\ at' # "ended"
  BY <1>1
<1>3. AnswersAreQueries'
  BY <1>1, <1>2 DEF AnswersAreQueries, AreQueries
<1>4. at' = "edge" => edges' = {} /\ AreQueries(answers, FALSE)'
  BY <1>1 DEF AreQueries
<1> QED
  BY <1>1, <1>3, <1>4 DEF AnswersInv

LEMMA SpinStep == ASSUME AnswersInv, Spin PROVE AnswersInv'
<1>1. /\ at' = "spinning" /\ read' = read /\ rest' = rest
      /\ graph' = graph /\ count' = count /\ edges' = edges
      /\ answers' = answers /\ failed' = TRUE
  BY DEF Spin, queryVars
<1>2. InputTypeOK /\ RestIsHarmless
  BY DEF AnswersInv
<1>3. InputTypeOK'
  BY <1>1, <1>2 DEF InputTypeOK
<1>4. RestIsHarmless'
  BY <1>1, <1>2 DEF RestIsHarmless
<1>5. BeginsWith(read', read)
  BY <1>1, <1>2 DEF BeginsWith, InputTypeOK
<1>6. CASE failed
  BY <1>1, <1>3, <1>4, <1>6, NothingMoreIsRead
<1>7. CASE ~failed
  BY <1>1, <1>3, <1>4, <1>5, <1>7, FailingStep
<1> QED
  BY <1>6, <1>7

\* In a stream that has failed no number is asked for.
LEMMA CountFacts ==
  ASSUME AnswersInv, at = "count"
  PROVE  /\ ~failed /\ edges = {} /\ rest = <<>>
<1>1. ~failed
  BY DEF AnswersInv
<1> QED
  BY <1>1 DEF AnswersInv, InQuery

LEMMA FirstWord ==
  ASSUME NEW S, NEW words \in Seq(S), words # <<>>
  PROVE  /\ 1 \in DOMAIN words
         /\ words = <<words[1]>> \/ 1 \in 1..(Len(words) - 1)
<1>1. Len(words) \in Nat /\ Len(words) >= 1 /\ DOMAIN words = 1..Len(words)
  BY EmptySeq
<1>2. CASE Len(words) = 1
  <2>1. words = <<words[1]>>
    BY <1>2
  <2> QED
    BY <1>1, <2>1
<1>3. CASE Len(words) # 1
  BY <1>1, <1>3
<1> QED
  BY <1>2, <1>3

LEMMA FirstReplaced ==
  ASSUME NEW S, NEW words \in Seq(S), words # <<>>, NEW first \in S
  PROVE  LET left == [words EXCEPT ![1] = first]
         IN  left \in Seq(S) /\ left # <<>> /\ left[1] = first
<1> DEFINE left == [words EXCEPT ![1] = first]
<1>1. Len(words) \in Nat /\ 1 \in 1..Len(words)
  BY EmptySeq
<1>2. left \in Seq(S) /\ Len(left) = Len(words) /\ left[1] = first
  BY <1>1, ExceptSeq
<1> HIDE DEF left
<1>3. left # <<>>
  BY <1>1, <1>2
<1> QED
  BY <1>2, <1>3 DEF left

LEMMA ExitIsAWord == <<"exit">>[1] = "exit"
OBVIOUS

\* A line that begins where a number ends.
LEMMA LineBehindNumber ==
  ASSUME NEW left \in Seq(Words), left # <<>>, left[1] = "" \/ left[1] = "x"
  PROVE  left = <<"">> \/ (IsBad(left) /\ left # <<"exit">>)
<1>1. left # <<"exit">>
  BY ExitIsAWord, Zenon
<1>2. 1 \in DOMAIN left /\ (left = <<left[1]>> \/ 1 \in 1..(Len(left) - 1))
  BY FirstWord, Zenon
<1>3. CASE left[1] = "x"
  <2>1. "x" \notin DOMAIN Number
    BY Numbers, Zenon
  <2>2. IsBad(left)
    BY <1>2, <1>3, <2>1, Zenon DEF IsBad
  <2> QED
    BY <1>1, <2>2, Zenon
<1>4. CASE left[1] = ""
  BY <1>1, <1>2, <1>4, Zenon DEF IsBad
<1> QED
  BY <1>3, <1>4, Zenon

\* What is left of a line from its first word on, when a number is taken of it.
LEMMA RestOfCount ==
  ASSUME NEW line \in Seq(Words), NEW i \in DOMAIN line
  PROVE  LET left == [SubSeq(line, i, Len(line)) EXCEPT ![1] = Behind(@)]
         IN  /\ left \in Seq(Words)
             /\ left = <<"">> \/ (IsBad(left) /\ left # <<"exit">>)
<1> DEFINE words == SubSeq(line, i, Len(line))
           first == Behind(words[1])
           left == [words EXCEPT ![1] = first]
<1>1. words \in Seq(Words) /\ words # <<>>
  <2>1. /\ i \in 1..Len(line) /\ Len(line) \in Nat
        /\ words \in Seq(Words) /\ Len(words) = Len(line) - i + 1
    BY SubSeqProperties
  <2> HIDE DEF words
  <2>2. Len(words) > 0
    BY <2>1
  <2> QED
    BY <2>1, <2>2
<1> HIDE DEF words
<1>2. first = "" \/ first = "x"
  BY Zenon DEF Behind
<1> HIDE DEF first
<1>3. first \in Words
  BY <1>2, Zenon DEF Words
<1>4. left \in Seq(Words) /\ left # <<>> /\ left[1] = first
  BY <1>1, <1>3, FirstReplaced
<1> HIDE DEF left
<1>5. left = <<"">> \/ (IsBad(left) /\ left # <<"exit">>)
  BY <1>2, <1>4, LineBehindNumber, Zenon
<1> QED
  BY <1>4, <1>5 DEF left, first, words

LEMMA AskEdgeCountStep == ASSUME AnswersInv, AskEdgeCount PROVE AnswersInv'
<1>0. InputTypeOK
  BY DEF AnswersInv
<1>1. PICK line \in Lines : \E i \in DOMAIN line :
        /\ line[i] # "" /\ \A j \in 1..(i - 1) : line[j] = ""
        /\ read' = Append(read, line)
        /\ rest' = [SubSeq(line, i, Len(line)) EXCEPT ![1] = Behind(@)]
        /\ failed' = (line[i] \notin DOMAIN Number)
        /\ count' = IF failed' THEN 0 ELSE Number[line[i]]
  BY DEF AskEdgeCount
<1>2. PICK i \in DOMAIN line :
        /\ line[i] # "" /\ \A j \in 1..(i - 1) : line[j] = ""
        /\ read' = Append(read, line)
        /\ rest' = [SubSeq(line, i, Len(line)) EXCEPT ![1] = Behind(@)]
        /\ failed' = (line[i] \notin DOMAIN Number)
        /\ count' = IF failed' THEN 0 ELSE Number[line[i]]
  BY <1>1
<1>3. /\ at = "count" /\ at' = "edge" /\ graph' = graph /\ edges' = edges
      /\ answers' = answers
  BY DEF AskEdgeCount
<1>4. ~failed /\ edges = {} /\ rest = <<>>
  BY <1>3, CountFacts
<1>5. /\ rest' \in Seq(Words)
      /\ rest' = <<"">> \/ (IsBad(rest') /\ rest' # <<"exit">>)
  BY <1>2, RestOfCount, LinesHaveWords
<1>6. RestIsHarmless'
  BY <1>5 DEF RestIsHarmless, IsBad
<1>7. /\ failed' \in BOOLEAN /\ count' \in Nat
      /\ ~failed' => StartsWith(line, count')
  BY <1>2, Numbers DEF StartsWith
<1>8. read' \in Seq(Lines) /\ BeginsWith(read', read)
  BY <1>0, <1>2, OneMore DEF InputTypeOK
<1>9. InputTypeOK'
  BY <1>0, <1>3, <1>5, <1>7, <1>8 DEF InputTypeOK
<1>10. CASE failed'
  BY <1>3, <1>4, <1>6, <1>8, <1>9, <1>10, FailingStep
<1>11. CASE ~failed'
  <2>1. ASSUME NEW s \in 1..(Len(read) + 1), InQuery(s)
        PROVE  InQuery(s)'
    <3>1. InCount(read, s, graph)
      BY <1>3, <2>1 DEF InQuery
    <3>2. InEdges(read', s, graph, count', {})
      BY <1>0, <1>2, <1>7, <1>11, <3>1, LineAdded DEF InputTypeOK
    <3> QED
      BY <1>3, <1>4, <3>2 DEF InQuery, InEdges
  <2> QED
    BY <1>3, <1>4, <1>6, <1>8, <1>9, <1>11, <2>1, GoodStep
<1> QED
  BY <1>7, <1>10, <1>11

LEMMA AskEdgeCountAtTheEndStep ==
  ASSUME AnswersInv, AskEdgeCountAtTheEnd PROVE AnswersInv'
<1>1. /\ at = "count" /\ at' = "edge" /\ read' = read /\ rest' = rest
      /\ graph' = graph /\ edges' = edges /\ answers' = answers
      /\ failed' = TRUE /\ count' \in 0..MaxCount
  BY DEF AskEdgeCountAtTheEnd
<1>2. InputTypeOK /\ RestIsHarmless /\ ~failed /\ edges = {}
  BY <1>1, CountFacts DEF AnswersInv
<1>3. count' \in Nat
  BY <1>1, CalculatorAssumption
<1>4. InputTypeOK'
  BY <1>1, <1>2, <1>3 DEF InputTypeOK
<1>5. RestIsHarmless'
  BY <1>1, <1>2 DEF RestIsHarmless
<1>6. BeginsWith(read', read)
  BY <1>1, <1>2 DEF BeginsWith, InputTypeOK
<1> QED
  BY <1>1, <1>2, <1>4, <1>5, <1>6, FailingStep

LEMMA WriteAnswerStep == ASSUME AnswersInv, WriteAnswer PROVE AnswersInv'
<1> DEFINE answer == [graph |-> graph, edges |-> edges]
           S == [graph : Graphs, edges : EdgeSets]
<1>1. /\ at = "edge" /\ at' = "graph" /\ count = 0
      /\ read' = read /\ rest' = rest /\ failed' = failed
      /\ graph' = graph /\ edges' = edges /\ count' = count
      /\ answers' = Append(answers, answer)
  BY DEF WriteAnswer, inputVars, queryVars
<1>2. InputTypeOK /\ RestIsHarmless
  BY DEF AnswersInv
<1>3. answer \in S /\ answers \in Seq(S) /\ read \in Seq(Lines)
  BY <1>2 DEF InputTypeOK
<1>4. InputTypeOK'
  BY <1>1, <1>2, <1>3 DEF InputTypeOK
<1>5. RestIsHarmless'
  BY <1>1, <1>2 DEF RestIsHarmless
<1> HIDE DEF S
<1>6. CASE failed
  <2>1. edges = {} /\ AreQueries(answers, FALSE)
    BY <1>1, <1>6 DEF AnswersInv
  <2>2. /\ answers' # <<>> /\ Front(answers') = answers
        /\ Last(answers') = answer /\ DOMAIN answers = 1..Len(answers)
    <3>1. Len(answers') = Len(answers) + 1
          /\ SubSeq(answers', 1, Len(answers)) = answers
          /\ answers'[Len(answers) + 1] = answer /\ Len(answers) \in Nat
      BY <1>1, <1>3
    <3> QED
      BY <1>3, <3>1 DEF Front, Last
  <2>3. PICK ends : Answered(read, ends, answers)
    BY <2>1, <2>2 DEF AreQueries, Answered
  <2>4. Answered(read', ends, Front(answers'))
    BY <1>1, <2>2, <2>3
  <2>5. AreQueries(Front(answers), FALSE)'
    BY <2>2, <2>4 DEF AreQueries, Answered
  <2>6. Last(answers').edges = {}
    BY <2>1, <2>2
  <2>7. AnswersAreQueries'
    BY <1>1, <1>6, <2>2, <2>5, <2>6 DEF AnswersAreQueries
  <2> QED
    BY <1>1, <1>4, <1>5, <1>6, <2>7 DEF AnswersInv
<1>7. CASE ~failed
  <2>1. PICK ends : Answered(read, ends, answers)
                    /\ InQuery(NextLine(ends, Len(answers)))
    BY <1>7 DEF AnswersInv
  <2> DEFINE s == NextLine(ends, Len(answers))
  <2>2. s \in Nat \ {0}
    BY <1>3, <2>1, NextLineFacts
  <2>3. InEdges(read, s, graph, 0, edges)
    BY <1>1, <2>1 DEF InQuery
  <2> HIDE DEF s
  <2>4. Len(read) # 0 /\ IsQuery(read, s, Len(read), answer)
    BY <1>3, <2>2, <2>3, QueryIsOver
  <2> HIDE DEF answer
  <2>5. PICK more : /\ Answered(read, more, Append(answers, answer))
                    /\ NextLine(more, Len(Append(answers, answer)))
                         = Len(read) + 1
    BY <1>3, <2>1, <2>4, AnswerAdded DEF s
  <2>6. Answered(read', more, answers')
        /\ NextLine(more, Len(answers')) = Len(read') + 1
    BY <1>1, <2>5
  <2>7. Answered(read, more, answers)'
        /\ NextLine(more, Len(answers))' = Len(read') + 1
    BY <2>6 DEF Answered, NextLine
  <2>8. InQuery(NextLine(more, Len(answers)))'
    <3>1. \A i \in (Len(read') + 1)..Len(read') : Empty(read'[i])
      BY <1>1, <1>3
    <3> QED
      BY <1>1, <2>7, <3>1 DEF InQuery
  <2> QED
    BY <1>1, <1>4, <1>5, <1>7, <2>7, <2>8 DEF AnswersInv
<1> QED
  BY <1>6, <1>7

-----------------------------------------------------------------------------
(* The theorem about the calculator                                        *)

LEMMA AnswersInitially == ASSUME CalculatorInit PROVE AnswersInv
<1>1. /\ at = "main" /\ read = <<>> /\ rest = <<>> /\ failed = FALSE
      /\ graph = <<>> /\ count = 0 /\ edges = {} /\ answers = <<>>
  BY DEF CalculatorInit
<1>2. InputTypeOK /\ RestIsHarmless
  <2>1. <<>> \in Graphs /\ {} \in EdgeSets
    BY DEF Graphs, EdgeSets
  <2>2. rest \in Seq(Words) /\ RestIsHarmless
    BY <1>1 DEF RestIsHarmless
  <2>3. /\ read \in Seq(Lines)
        /\ answers \in Seq([graph : Graphs, edges : EdgeSets])
    BY <1>1
  <2> QED
    BY <1>1, <2>1, <2>2, <2>3 DEF InputTypeOK
<1>3. /\ Len(answers) = 0 /\ Len(read) = 0 /\ 1..0 = {}
      /\ <<>> \in [1..0 -> 1..0]
  BY <1>1
<1>4. Answered(read, <<>>, answers)
  BY <1>3 DEF Answered
<1>5. InQuery(NextLine(<<>>, Len(answers)))
  BY <1>1, <1>3 DEF NextLine, InQuery
<1> QED
  BY <1>1, <1>2, <1>4, <1>5 DEF AnswersInv

LEMMA AnswersStay ==
  ASSUME AnswersInv, UNCHANGED <<at, inputVars, queryVars, answers>>
  PROVE  AnswersInv'
<1>1. /\ at' = at /\ read' = read /\ rest' = rest /\ failed' = failed
      /\ graph' = graph /\ count' = count /\ edges' = edges
      /\ answers' = answers
  BY DEF inputVars, queryVars
<1>2. InputTypeOK /\ RestIsHarmless
  BY DEF AnswersInv
<1>3. InputTypeOK'
  BY <1>1, <1>2 DEF InputTypeOK
<1>4. RestIsHarmless'
  BY <1>1, <1>2 DEF RestIsHarmless
<1>5. BeginsWith(read', read)
  BY <1>1, <1>2 DEF BeginsWith, InputTypeOK
<1>6. CASE failed
  BY <1>1, <1>3, <1>4, <1>6, NothingMoreIsRead
<1>7. CASE ~failed
  <2>1. \A s \in 1..(Len(read) + 1) : InQuery(s) => InQuery(s)'
    BY <1>1 DEF InQuery
  <2> QED
    BY <1>1, <1>3, <1>4, <1>5, <1>7, <2>1, GoodStep
<1> QED
  BY <1>6, <1>7

\* For every input the calculator writes one answer per query, in their order,
\* each with the graph and the edges of its own query; when it stops at "exit"
\* no query is without an answer.  Only when a number cannot be read is there
\* one more, for the graph without deleted edges.
THEOREM EachQueryGetsItsAnswer == CalculatorSpec => []AnswersAreQueries
<1>1. CalculatorInit => AnswersInv
  BY AnswersInitially
<1>2. AnswersInv /\ [CalculatorNext]_calculatorVars => AnswersInv'
  <2> SUFFICES ASSUME AnswersInv, [CalculatorNext]_calculatorVars
               PROVE  AnswersInv'
    OBVIOUS
  <2>1. CASE Parse /\ UNCHANGED <<at, inputVars, queryVars, answers>>
    BY <2>1, AnswersStay
  <2>2. CASE OpenStreams
    BY <2>2, OpenStreamsStep
  <2>3. CASE SkipEmptyLine
    BY <2>3, SkipEmptyLineStep
  <2>4. CASE Spin
    BY <2>4, SpinStep
  <2>5. CASE Throw
    BY <2>5, ThrowStep
  <2>6. CASE Exit
    BY <2>6, ExitStep
  <2>7. CASE AskCompleteGraph
    BY <2>7, AskCompleteGraphStep
  <2>8. CASE SkipSpace
    BY <2>8, SkipSpaceStep
  <2>9. CASE AskEdgeCount
    BY <2>9, AskEdgeCountStep
  <2>10. CASE AskEdgeCountAtTheEnd
    BY <2>10, AskEdgeCountAtTheEndStep
  <2>11. CASE AskEdge
    BY <2>11, AskEdgeStep
  <2>12. CASE AskAgain
    BY <2>12, AskAgainStep
  <2>13. CASE WriteAnswer
    BY <2>13, WriteAnswerStep
  <2>14. CASE UNCHANGED calculatorVars
    BY <2>14, AnswersStay DEF calculatorVars
  <2> QED
    BY <2>1, <2>2, <2>3, <2>4, <2>5, <2>6, <2>7, <2>8, <2>9, <2>10, <2>11,
       <2>12, <2>13, <2>14 DEF CalculatorNext, RunOne
<1>3. AnswersInv => AnswersAreQueries
  <2> SUFFICES ASSUME AnswersInv PROVE AnswersAreQueries
    OBVIOUS
  <2>1. CASE failed
    BY <2>1 DEF AnswersInv
  <2>2. CASE ~failed
    <3>1. PICK ends : Answered(read, ends, answers)
                      /\ InQuery(NextLine(ends, Len(answers)))
      BY <2>2 DEF AnswersInv
    <3>2. InputTypeOK /\ DOMAIN answers = 1..Len(answers)
      BY DEF AnswersInv, InputTypeOK
    <3>3. CASE at = "ended"
      <4>1. AreQueries(answers, TRUE)
        BY <3>1, <3>2, <3>3, AnsweredAreQueries DEF InQuery
      <4> QED
        BY <3>3, <4>1 DEF AnswersAreQueries, AreQueries
    <3>4. CASE at # "ended"
      <4>1. AreQueries(answers, FALSE)
        BY <3>1, <3>2, AnsweredAreQueries
      <4> QED
        BY <3>4, <4>1 DEF AnswersAreQueries, AreQueries
    <3> QED
      BY <3>3, <3>4
  <2> QED
    BY <2>1, <2>2
<1> QED
  BY <1>1, <1>2, <1>3, PTL DEF CalculatorSpec

=============================================================================
