------------------------- MODULE SharedCachesProofs -------------------------
(***************************************************************************)
(* Proofs about the caches of SharedCaches, first each of them alone: the  *)
(* factorials, the binomial coefficients and the counter of orientations;  *)
(* then the graph that all tasks share, and all of them together.  They    *)
(* are for any set of threads, any arguments that the modules admit, any   *)
(* graph and any values of its invariants, zero included.                  *)
(***************************************************************************)
EXTENDS SharedCaches, Integers, WellFoundedInduction, TLAPS

-----------------------------------------------------------------------------
(* Numbers: what the definitions of factorial and choose say of them.  An  *)
(* induction is an argument about the smallest number without a property.  *)

\* A set of numbers that is not empty has a smallest one.
LEMMA LeastNumber ==
  ASSUME NEW S \in SUBSET Nat, S # {}
  PROVE  \E x \in S : \A y \in S : x <= y
<1> DEFINE R == OpToRel(<, Nat)
<1>1. IsWellFoundedOn(R, Nat)
  BY NatLessThanWellFounded
<1>2. \A x, y \in Nat : <<x, y>> \in R <=> x < y
  BY DEF OpToRel
<1>3. PICK x \in S : \A y \in S : ~(<<y, x>> \in R)
  <2> HIDE DEF R
  <2> QED
    BY <1>1, WFMin, Zenon
<1> HIDE DEF R
<1>4. \A y \in S : ~(y < x) /\ y \in Nat /\ x \in Nat
  BY <1>2, <1>3
<1> QED
  BY <1>4

\* g is what the definition of factorial says, up to x.
Solves(g, x) ==
    /\ g \in [0..x -> Nat \ {0}]
    /\ g[0] = 1
    /\ \A y \in 1..x : g[y] = y * g[y - 1]

LEMMA SolutionsExist == \A x \in Nat : \E g : Solves(g, x)
<1> DEFINE S == {x \in Nat : ~\E g : Solves(g, x)}
<1>1. ASSUME S # {}
      PROVE  FALSE
  <2>1. PICK x \in S : \A y \in S : x <= y
    BY <1>1, LeastNumber
  <2>2. x # 0
    <3>1. Solves([i \in 0..0 |-> 1], 0)
      BY DEF Solves
    <3> QED
      BY <3>1
  <2>3. PICK g : Solves(g, x - 1)
    BY <2>1, <2>2
  <2> DEFINE h == [i \in 0..x |-> IF i = x THEN x * g[x - 1] ELSE g[i]]
  <2>4. x \in Nat \ {0} /\ x - 1 \in 0..(x - 1) /\ g[x - 1] \in Nat \ {0}
    BY <2>2, <2>3 DEF Solves
  <2>5. x * g[x - 1] \in Nat \ {0}
    BY <2>4
  <2>6. \A i \in 0..x : h[i] = IF i = x THEN x * g[x - 1] ELSE g[i]
    OBVIOUS
  <2>7. h \in [0..x -> Nat \ {0}]
    BY <2>3, <2>4, <2>5 DEF Solves
  <2>8. h[0] = 1
    BY <2>3, <2>4, <2>6 DEF Solves
  <2> HIDE DEF h
  <2>9. ASSUME NEW y \in 1..x
        PROVE  h[y] = y * h[y - 1]
    <3>1. h[y - 1] = g[y - 1]
      BY <2>4, <2>6
    <3>2. CASE y = x
      BY <2>6, <3>1, <3>2
    <3>3. CASE y # x
      BY <2>3, <2>4, <2>6, <3>1, <3>3 DEF Solves
    <3> QED
      BY <3>2, <3>3
  <2>10. Solves(h, x)
    BY <2>7, <2>8, <2>9 DEF Solves
  <2> QED
    BY <2>10
<1> QED
  BY <1>1

LEMMA SolutionsAgree ==
  ASSUME NEW x \in Nat, NEW y \in Nat, NEW g, NEW h,
         Solves(g, x), Solves(h, y)
  PROVE  \A i \in 0..x : i \in 0..y => g[i] = h[i]
<1> DEFINE S == {i \in Nat : i \in 0..x /\ i \in 0..y /\ g[i] # h[i]}
<1>1. ASSUME S # {}
      PROVE  FALSE
  <2>1. PICK i \in S : \A j \in S : i <= j
    BY <1>1, LeastNumber
  <2>2. i # 0
    BY DEF Solves
  <2>3. i \in 1..x /\ i \in 1..y /\ g[i - 1] = h[i - 1]
    BY <2>1, <2>2
  <2> QED
    BY <2>3 DEF Solves
<1> QED
  BY <1>1

\* The definition of factorial is met by a function.
LEMMA FactorialFacts ==
  /\ \A x \in Nat : factorial[x] \in Nat \ {0}
  /\ factorial[0] = 1
  /\ \A x \in Nat : factorial[x + 1] = (x + 1) * factorial[x]
<1> DEFINE G(x) == CHOOSE g : Solves(g, x)
           f == [x \in Nat |-> G(x)[x]]
<1>1. \A x \in Nat : Solves(G(x), x)
  BY SolutionsExist
<1> HIDE DEF G
<1>2. \A x \in Nat : f[x] = G(x)[x]
  OBVIOUS
<1>3. \A x \in Nat : f[x] \in Nat \ {0}
  <2> TAKE x \in Nat
  <2>1. x \in 0..x
    OBVIOUS
  <2> QED
    BY <1>1, <2>1 DEF Solves
<1>4. f[0] = 1
  BY <1>1 DEF Solves
<1>5. ASSUME NEW x \in Nat
      PROVE  f[x + 1] = (x + 1) * f[x]
  <2>1. x + 1 \in 1..(x + 1) /\ x + 1 - 1 = x /\ x + 1 \in Nat
    OBVIOUS
  <2>2. G(x + 1)[x + 1] = (x + 1) * G(x + 1)[x]
    <3> DEFINE g == G(x + 1)
    <3>1. Solves(g, x + 1)
      BY <1>1, <2>1
    <3> HIDE DEF g
    <3>2. \A y \in 1..(x + 1) : g[y] = y * g[y - 1]
      BY <3>1 DEF Solves
    <3>3. g[x + 1] = (x + 1) * g[x + 1 - 1]
      BY <2>1, <3>2
    <3> QED
      BY <2>1, <3>3 DEF g
  <2>3. G(x + 1)[x] = G(x)[x]
    <3>1. Solves(G(x), x) /\ Solves(G(x + 1), x + 1)
      BY <1>1, <2>1
    <3>2. x \in 0..x /\ x \in 0..(x + 1)
      OBVIOUS
    <3> QED
      BY <2>1, <3>1, <3>2, SolutionsAgree
  <2> QED
    BY <1>2, <2>1, <2>2, <2>3
<1>6. f = [x \in Nat |-> IF x = 0 THEN 1 ELSE x * f[x - 1]]
  <2>1. ASSUME NEW x \in Nat
        PROVE  f[x] = IF x = 0 THEN 1 ELSE x * f[x - 1]
    <3>1. CASE x = 0
      BY <1>4, <3>1
    <3>2. CASE x # 0
      <4>1. x - 1 \in Nat /\ x - 1 + 1 = x
        BY <3>2
      <4>2. f[x - 1 + 1] = (x - 1 + 1) * f[x - 1]
        BY <4>1, <1>5
      <4> QED
        BY <3>2, <4>1, <4>2
    <3> QED
      BY <3>1, <3>2
  <2>2. f = [x \in Nat |-> f[x]]
    OBVIOUS
  <2> HIDE DEF f
  <2> QED
    BY <2>1, <2>2
<1> HIDE DEF f
<1>7. factorial = [x \in Nat |-> IF x = 0 THEN 1 ELSE x * factorial[x - 1]]
  BY <1>6 DEF factorial
<1>8. \A x \in Nat : factorial[x] = IF x = 0 THEN 1 ELSE x * factorial[x - 1]
  <2> HIDE DEF factorial
  <2> QED
    BY <1>7
<1>9. factorial[0] = 1
  BY <1>8
<1>10. ASSUME NEW x \in Nat
       PROVE  factorial[x + 1] = (x + 1) * factorial[x]
  <2>1. x + 1 \in Nat /\ x + 1 # 0 /\ x + 1 - 1 = x
    OBVIOUS
  <2> QED
    BY <1>8, <2>1
<1>11. \A x \in Nat : factorial[x] \in Nat \ {0}
  <2> DEFINE S == {x \in Nat : factorial[x] \notin Nat \ {0}}
  <2>1. ASSUME S # {}
        PROVE  FALSE
    <3>1. PICK x \in S : \A y \in S : x <= y
      BY <2>1, LeastNumber
    <3>2. x \in Nat /\ x # 0
      BY <1>9
    <3>3. x - 1 \in Nat /\ ~(x <= x - 1)
      BY <3>2
    <3>4. factorial[x - 1] \in Nat \ {0}
      BY <3>1, <3>3
    <3>5. factorial[x] = x * factorial[x - 1]
      BY <1>8, <3>2
    <3>6. \A a, b \in Nat \ {0} : a * b \in Nat \ {0}
      OBVIOUS
    <3> QED
      BY <3>2, <3>4, <3>5, <3>6
  <2> QED
    BY <2>1
<1> QED
  BY <1>9, <1>10, <1>11

LEMMA Quotient ==
  ASSUME NEW a \in Nat, NEW d \in Nat \ {0}, NEW q \in Nat,
         NEW r \in 0..(d - 1), a = q * d + r
  PROVE  a \div d = q
<1>1. a \div d \in Int /\ a = d * (a \div d) + (a % d) /\ a % d \in 0..(d - 1)
  OBVIOUS
<1> DEFINE e == a \div d
           s == a % d
<1>2. e \in Int /\ q * d + r = d * e + s /\ s \in 0..(d - 1)
  BY <1>1
<1> HIDE DEF e, s
<1>3. (q - e) * d = s - r
  BY <1>2
<1>4. ASSUME q - e >= 1 PROVE FALSE
  <2>1. (q - e) * d >= d
    BY <1>2, <1>4
  <2> QED
    BY <1>2, <1>3, <2>1
<1>5. ASSUME q - e <= -1 PROVE FALSE
  <2>1. (q - e) * d <= -d
    BY <1>2, <1>5
  <2> QED
    BY <1>2, <1>3, <2>1
<1>6. q = e
  BY <1>2, <1>4, <1>5
<1> QED
  BY <1>6 DEF e

\* What makes a number the binomial coefficient.
Chooses(q, a, b) ==
    q \in Nat /\ q * (factorial[b] * factorial[a - b]) = factorial[a]

LEMMA ChosenIsChoose ==
  ASSUME NEW a \in Nat, NEW b \in 0..a, NEW q, Chooses(q, a, b)
  PROVE  q = choose(a, b)
<1> DEFINE d == factorial[b] * factorial[a - b]
<1>1. b \in Nat /\ a - b \in Nat
  OBVIOUS
<1>2. factorial[b] \in Nat \ {0} /\ factorial[a - b] \in Nat \ {0}
      /\ factorial[a] \in Nat
  BY <1>1, FactorialFacts
<1>3. d \in Nat \ {0}
  BY <1>2
<1>4. q \in Nat /\ factorial[a] = q * d
  BY DEF Chooses
<1> HIDE DEF d
<1>5. factorial[a] \div d = q
  <2>1. 0 \in 0..(d - 1) /\ factorial[a] = q * d + 0
    BY <1>2, <1>3, <1>4
  <2> QED
    BY <1>2, <1>3, <1>4, <2>1, Quotient
<1> QED
  BY <1>5 DEF choose, d

LEMMA SumOfProducts ==
  ASSUME NEW a \in Nat, NEW b \in Nat, NEW i \in Nat, NEW j \in Nat,
         NEW p \in Nat, NEW q \in Nat, NEW s \in Nat,
         a * ((i * p) * q) = s, b * (p * (j * q)) = s
  PROVE  (a + b) * ((i * p) * (j * q)) = (i + j) * s
<1>1. a * ((i * p) * (j * q)) = j * s
  <2>1. (i * p) * (j * q) = j * ((i * p) * q)
    OBVIOUS
  <2>2. \A x \in Nat : a * (j * x) = j * (a * x)
    OBVIOUS
  <2>3. (i * p) * q \in Nat
    OBVIOUS
  <2> QED
    BY <2>1, <2>2, <2>3
<1>2. b * ((i * p) * (j * q)) = i * s
  <2>1. (i * p) * (j * q) = i * (p * (j * q))
    OBVIOUS
  <2>2. \A x \in Nat : b * (i * x) = i * (b * x)
    OBVIOUS
  <2>3. p * (j * q) \in Nat
    OBVIOUS
  <2> QED
    BY <2>1, <2>2, <2>3
<1>3. (i * p) * (j * q) \in Nat
  OBVIOUS
<1>4. \A x \in Nat : (a + b) * x = a * x + b * x
  OBVIOUS
<1> QED
  BY <1>1, <1>2, <1>3, <1>4

\* The rule of Pascal's triangle.
LEMMA PascalsRule ==
  ASSUME NEW a \in Nat \ {0}, NEW b \in 1..a, NEW p, NEW q,
         Chooses(p, a, b - 1), b <= a, Chooses(q, a, b)
  PROVE  Chooses(q + p, a + 1, b)
<1>1. /\ b \in Nat /\ b - 1 \in Nat /\ a - b \in Nat /\ a + 1 - b \in Nat
      /\ a - (b - 1) = a - b + 1 /\ a + 1 - b = a - b + 1
      /\ b - 1 + 1 = b
  OBVIOUS
<1> DEFINE x == factorial[b - 1]
           y == factorial[a - b]
           z == factorial[a]
           j == a - b + 1
<1>2. /\ x \in Nat /\ y \in Nat /\ z \in Nat /\ j \in Nat
      /\ p \in Nat /\ q \in Nat
  BY <1>1, FactorialFacts DEF Chooses
<1>3. /\ factorial[b] = b * x
      /\ factorial[a - (b - 1)] = j * y /\ factorial[a + 1 - b] = j * y
      /\ factorial[a + 1] = (a + 1) * z
  <2>1. factorial[b - 1 + 1] = (b - 1 + 1) * x
    BY <1>1, FactorialFacts
  <2>2. factorial[a - b + 1] = (a - b + 1) * y
    BY <1>1, FactorialFacts
  <2>3. factorial[a + 1] = (a + 1) * z
    BY FactorialFacts
  <2> QED
    BY <1>1, <2>1, <2>2, <2>3
<1>4. q * ((b * x) * y) = z /\ p * (x * (j * y)) = z
  BY <1>3 DEF Chooses
<1>5. b + j = a + 1
  BY <1>1
<1> HIDE DEF x, y, z, j
<1>6. (q + p) * ((b * x) * (j * y)) = (b + j) * z
  BY <1>1, <1>2, <1>4, SumOfProducts
<1> QED
  BY <1>2, <1>3, <1>5, <1>6 DEF Chooses, z

\* The ends of a row.
LEMMA EndsChoose ==
  ASSUME NEW a \in Nat
  PROVE  Chooses(1, a, 0) /\ Chooses(1, a, a)
<1>1. a - a = 0 /\ a - 0 = a
  OBVIOUS
<1>2. factorial[0] = 1 /\ factorial[a] \in Nat
  BY FactorialFacts
<1> DEFINE z == factorial[a]
<1> HIDE DEF z
<1>3. 1 * (1 * z) = z /\ 1 * (z * 1) = z
  BY <1>2 DEF z
<1> QED
  BY <1>1, <1>2, <1>3 DEF Chooses, z

\* Next to the ends.
LEMMA SecondsChoose ==
  ASSUME NEW a \in Nat \ {0}
  PROVE  Chooses(a, a, 1) /\ Chooses(a, a, a - 1)
<1>1. a - (a - 1) = 1 /\ a - 1 \in Nat /\ 0 + 1 = 1 /\ a - 1 + 1 = a
  OBVIOUS
<1> DEFINE z == factorial[a - 1]
<1>2. factorial[1] = 1 /\ z \in Nat /\ factorial[a] = a * z
  <2>1. factorial[0 + 1] = (0 + 1) * factorial[0] /\ factorial[0] = 1
    BY FactorialFacts
  <2>2. factorial[a - 1 + 1] = (a - 1 + 1) * z /\ z \in Nat
    BY <1>1, FactorialFacts
  <2> QED
    BY <1>1, <2>1, <2>2
<1> HIDE DEF z
<1>3. a * (1 * z) = a * z /\ a * (z * 1) = a * z
  BY <1>2
<1> QED
  BY <1>1, <1>2, <1>3 DEF Chooses, z

\* Two away from the ends, the shortcut with a division.
LEMMA ThirdsChoose ==
  ASSUME NEW a \in Nat, a >= 2
  PROVE  /\ choose(a, 2) = (a * (a - 1)) \div 2
         /\ choose(a, a - 2) = (a * (a - 1)) \div 2
<1>1. /\ a - 2 \in Nat /\ a - 1 \in Nat /\ a - (a - 2) = 2
      /\ a - 2 + 1 = a - 1 /\ a - 1 + 1 = a
  OBVIOUS
<1> DEFINE z == factorial[a - 2]
           x == a * (a - 1)
           e == x \div 2
           s == x % 2
<1>2. z \in Nat \ {0} /\ factorial[2] = 2 /\ factorial[a] = x * z
  <2>1. /\ factorial[0 + 1] = (0 + 1) * factorial[0] /\ factorial[0] = 1
        /\ factorial[1 + 1] = (1 + 1) * factorial[1]
    BY FactorialFacts
  <2>2. factorial[2] = 2
    BY <2>1
  <2>3. factorial[a - 2 + 1] = (a - 2 + 1) * z /\ z \in Nat \ {0}
    BY <1>1, FactorialFacts
  <2>4. factorial[a - 1 + 1] = (a - 1 + 1) * factorial[a - 1]
    BY <1>1, FactorialFacts
  <2>5. factorial[a] = a * ((a - 1) * z)
    BY <1>1, <2>3, <2>4
  <2> HIDE DEF z
  <2>6. \A b \in Nat : a * (b * z) = (a * b) * z
    BY <2>3
  <2> QED
    BY <1>1, <2>2, <2>3, <2>5, <2>6
<1>3. x \in Nat
  BY <1>1
<1> HIDE DEF x, z
<1>4. e \in Nat /\ s \in 0..1 /\ x = 2 * e + s
  BY <1>3
<1> HIDE DEF e, s
<1>5. /\ 2 * z \in Nat \ {0} /\ x * z \in Nat /\ s * z \in 0..(2 * z - 1)
      /\ x * z = e * (2 * z) + s * z
  <2>1. s * z \in {0, z}
    BY <1>2, <1>4
  <2>2. (2 * e + s) * z = e * (2 * z) + s * z
    BY <1>2, <1>4
  <2> QED
    BY <1>2, <1>3, <1>4, <2>1, <2>2
<1>6. (x * z) \div (2 * z) = e
  <2> DEFINE d == 2 * z
             p == x * z
             r == s * z
  <2>1. d \in Nat \ {0} /\ p \in Nat /\ r \in 0..(d - 1) /\ p = e * d + r
    BY <1>5
  <2> HIDE DEF d, p, r
  <2>2. p \div d = e
    BY <1>4, <2>1, Quotient
  <2> QED
    BY <2>2 DEF d, p
<1>7. z * 2 = 2 * z
  BY <1>2
<1> QED
  BY <1>1, <1>2, <1>6, <1>7 DEF choose, z, e, x

USE CachesAssumption

-----------------------------------------------------------------------------
(* The factorials.  What is not in the properties and makes them           *)
(* inductive: a thread that reads without the mutex has seen a deque that  *)
(* is long enough, and the deque only grows; and the local variable of the *)
(* thread that holds the mutex is the last element.                        *)

FactorialCalls ==
    \A t \in Threads :
        /\ factorialPc[t] # "idle" => factorialArgument[t] >= 2
        /\ factorialPc[t] = "read" => factorialArgument[t] < Len(factorials)
        /\ factorialPc[t] = "loop" =>
               factorialMutex = t /\ fact[t] = factorials[Len(factorials)]

FactorialIInv ==
    /\ Factorial!TypeOK /\ Factorial!CacheHoldsFactorials
    /\ FactorialCalls /\ Factorial!ResultIsSomeFactorial

LEMMA InitFactorial == ASSUME Factorial!Init PROVE FactorialIInv
BY DEF Factorial!FactorialAssumption, Factorial!Init, FactorialIInv,
       Factorial!TypeOK, Factorial!CacheHoldsFactorials, FactorialCalls,
       Factorial!ResultIsSomeFactorial, Factorial!Arguments

\* The element that one round of the loop appends.
LEMMA ExtendFactorials ==
  ASSUME FactorialIInv, NEW t \in Threads, Factorial!Extend(t)
  PROVE  /\ factorials' \in Seq(Nat)
         /\ Len(factorials') = Len(factorials) + 1
         /\ \A i \in 1..Len(factorials) : factorials'[i] = factorials[i]
         /\ factorials'[Len(factorials')]
               = Len(factorials) * factorials[Len(factorials)]
         /\ fact' = [fact EXCEPT ![t] = factorials'[Len(factorials')]]
         /\ fact'[t] \in Nat
<1> DEFINE size == Len(factorials)
<1>1. /\ factorials \in Seq(Nat) /\ size \in Nat \ {0}
      /\ fact \in [Threads -> Nat]
      /\ fact[t] = factorials[size] /\ fact[t] \in Nat
  BY DEF FactorialIInv, Factorial!TypeOK, FactorialCalls, Factorial!Extend
<1>2. fact'[t] = fact[t] * size /\ fact' = [fact EXCEPT ![t] = fact[t] * size]
  BY <1>1 DEF Factorial!Extend
<1>3. fact[t] * size \in Nat /\ fact[t] * size = size * factorials[size]
  BY <1>1
<1>4. factorials' = Append(factorials, fact'[t])
  BY DEF Factorial!Extend
<1> HIDE DEF size
<1>5. /\ factorials' \in Seq(Nat) /\ Len(factorials') = size + 1
      /\ \A i \in 1..size : factorials'[i] = factorials[i]
      /\ factorials'[size + 1] = fact'[t]
  BY <1>1, <1>2, <1>3, <1>4 DEF size
<1> QED
  BY <1>2, <1>3, <1>5 DEF size

LEMMA NextFactorial ==
  ASSUME FactorialIInv, [Factorial!Next]_(Factorial!vars)
  PROVE  FactorialIInv'
<1> USE DEF Factorial!Goto
<1>0. /\ factorials \in Seq(Nat) /\ Len(factorials) \in Nat \ {0}
      /\ \A i \in 1..Len(factorials) : factorials[i] \in Nat
      /\ factorialArgument \in [Threads -> Nat]
      /\ factorialPc \in [Threads -> {"idle", "read", "lock", "loop"}]
  BY DEF FactorialIInv, Factorial!TypeOK, Factorial!Arguments,
         Factorial!FactorialAssumption
<1>1. ASSUME NEW t \in Threads, NEW a \in Factorial!Arguments,
             Factorial!Call(t, a)
      PROVE FactorialIInv'
  <2>1. /\ UNCHANGED <<factorials, factorialMutex, fact>>
        /\ factorialArgument' = [factorialArgument EXCEPT ![t] = a]
        /\ a \in Nat
        /\ factorialPc[t] = "idle"
        /\ \/ /\ a <= 1
              /\ factorialResult' = [factorialResult EXCEPT ![t] = 1]
              /\ factorialPc' = factorialPc
           \/ /\ a > 1
              /\ \/ /\ a < Len(factorials)
                    /\ factorialPc' = [factorialPc EXCEPT ![t] = "read"]
                 \/ factorialPc' = [factorialPc EXCEPT ![t] = "lock"]
              /\ factorialResult' = factorialResult
    BY <1>0, <1>1
       DEF Factorial!Call, Factorial!Arguments, Factorial!FactorialAssumption
  <2>2. Factorial!TypeOK'
    <3>1. factorialArgument' \in [Threads -> Factorial!Arguments]
      <4>1. factorialArgument' = [factorialArgument EXCEPT ![t] = a]
        BY <2>1
      <4> QED
        BY <4>1 DEF FactorialIInv, Factorial!TypeOK
    <3>3. factorialResult' \in [Threads -> Nat]
      <4>1. \/ factorialResult' = factorialResult
            \/ factorialResult' = [factorialResult EXCEPT ![t] = 1]
        BY <2>1
      <4>2. factorialResult \in [Threads -> Nat]
        BY DEF FactorialIInv, Factorial!TypeOK
      <4> QED
        BY <4>1, <4>2
    <3>2. factorialPc' \in [Threads -> {"idle", "read", "lock", "loop"}]
      BY <2>1 DEF FactorialIInv, Factorial!TypeOK
    <3> QED
      BY <2>1, <3>1, <3>3, <3>2 DEF FactorialIInv, Factorial!TypeOK
  <2>3. Factorial!CacheHoldsFactorials'
    BY <2>1 DEF FactorialIInv, Factorial!CacheHoldsFactorials
  <2>4. FactorialCalls'
    BY <2>1, <1>0 DEF FactorialIInv, Factorial!TypeOK, FactorialCalls
  <2>5. Factorial!ResultIsSomeFactorial'
    <3>1. ASSUME NEW s \in Threads, s # t
          PROVE  /\ factorialArgument'[s] = factorialArgument[s]
                 /\ factorialPc'[s] = factorialPc[s]
                 /\ factorialResult'[s] = factorialResult[s]
      BY <2>1, <3>1, <1>0 DEF FactorialIInv, Factorial!TypeOK
    <3>2. factorialPc'[t] = "idle" =>
              factorialArgument'[t] <= 1 /\ factorialResult'[t] = 1
      BY <1>0, <2>1 DEF FactorialIInv, Factorial!TypeOK
    <3> QED
      BY <2>1, <3>1, <3>2 DEF FactorialIInv, Factorial!ResultIsSomeFactorial
  <2> QED
    BY <2>2, <2>3, <2>4, <2>5 DEF FactorialIInv
<1>2. ASSUME NEW t \in Threads, Factorial!ReadCache(t)
      PROVE FactorialIInv'
  <2>1. factorialArgument[t] + 1 \in 1..Len(factorials)
    BY <1>0, <1>2 DEF Factorial!ReadCache, FactorialIInv, FactorialCalls
  <2>2. /\ factorialResult' = [factorialResult EXCEPT
               ![t] = factorials[factorialArgument[t] + 1]]
        /\ factorials[factorialArgument[t] + 1] \in Nat
    BY <1>0, <1>2, <2>1 DEF Factorial!ReadCache
  <2>3. Factorial!TypeOK' /\ Factorial!CacheHoldsFactorials'
    BY <1>2, <2>2
       DEF Factorial!ReadCache, FactorialIInv, Factorial!TypeOK,
           Factorial!CacheHoldsFactorials
  <2>4. FactorialCalls'
    BY <1>2
       DEF Factorial!ReadCache, FactorialIInv, Factorial!TypeOK, FactorialCalls
  <2>5. Factorial!ResultIsSomeFactorial'
    <3>1. factorialArgument[t] + 1
              \in (factorialArgument[t] + 1)..Len(factorials)
      BY <1>0, <2>1
    <3>2. factorialResult'[t] = factorials[factorialArgument[t] + 1]
      BY <2>2 DEF FactorialIInv, Factorial!TypeOK
    <3> QED
      BY <1>0, <1>2, <2>2, <3>1, <3>2
         DEF Factorial!ReadCache, FactorialIInv,
             Factorial!ResultIsSomeFactorial
  <2> QED
    BY <2>3, <2>4, <2>5 DEF FactorialIInv
<1>3. ASSUME NEW t \in Threads, Factorial!Lock(t)
      PROVE FactorialIInv'
  <2>1. factorials[Len(factorials)] \in Nat
    BY <1>0
  <2>2. Factorial!TypeOK' /\ Factorial!CacheHoldsFactorials'
    BY <1>3, <2>1
       DEF Factorial!Lock, FactorialIInv, Factorial!TypeOK,
           Factorial!CacheHoldsFactorials
  <2>3. FactorialCalls'
    BY <1>0, <1>3
       DEF Factorial!Lock, FactorialIInv, Factorial!TypeOK, FactorialCalls,
           Factorial!FactorialAssumption
  <2>4. Factorial!ResultIsSomeFactorial'
    BY <1>0, <1>3
       DEF Factorial!Lock, FactorialIInv, Factorial!ResultIsSomeFactorial
  <2> QED
    BY <2>2, <2>3, <2>4 DEF FactorialIInv
<1>4. ASSUME NEW t \in Threads, Factorial!Extend(t)
      PROVE FactorialIInv'
  <2>1. /\ factorials' \in Seq(Nat)
        /\ Len(factorials') = Len(factorials) + 1
        /\ \A i \in 1..Len(factorials) : factorials'[i] = factorials[i]
        /\ factorials'[Len(factorials')]
               = Len(factorials) * factorials[Len(factorials)]
        /\ fact' = [fact EXCEPT ![t] = factorials'[Len(factorials')]]
        /\ fact'[t] \in Nat
    BY <1>4, ExtendFactorials
  <2>2. Factorial!TypeOK'
    <3>1. Len(factorials) \in Nat /\ Len(factorials') \in 1..(MaxArgument + 1)
      <4>1. Len(factorials) <= factorialArgument[t]
        BY <1>4 DEF Factorial!Extend
      <4>2. factorialArgument[t] \in 0..MaxArgument /\ MaxArgument \in Nat
        BY DEF FactorialIInv, Factorial!TypeOK, Factorial!Arguments,
               Factorial!FactorialAssumption
      <4> QED
        BY <1>0, <2>1, <4>1, <4>2
    <3>2. fact' \in [Threads -> Nat]
      BY <2>1 DEF FactorialIInv, Factorial!TypeOK
    <3>3. UNCHANGED <<factorialMutex, factorialPc, factorialArgument,
                      factorialResult>>
      BY <1>4 DEF Factorial!Extend
    <3> QED
      BY <2>1, <3>1, <3>2, <3>3 DEF FactorialIInv, Factorial!TypeOK
  <2>3. Factorial!CacheHoldsFactorials'
    <3>1. factorials'[1] = 1
      BY <2>1
         DEF FactorialIInv, Factorial!TypeOK, Factorial!CacheHoldsFactorials
    <3>2. ASSUME NEW i \in 2..Len(factorials)
          PROVE  factorials'[i] = (i - 1) * factorials'[i - 1]
      <4>1. i \in 1..Len(factorials) /\ i - 1 \in 1..Len(factorials)
        BY DEF FactorialIInv, Factorial!TypeOK
      <4>2. /\ factorials'[i] = factorials[i]
            /\ factorials'[i - 1] = factorials[i - 1]
        BY <2>1, <4>1
      <4> QED
        BY <4>2 DEF FactorialIInv, Factorial!CacheHoldsFactorials
    <3>3. factorials'[Len(factorials) + 1]
              = (Len(factorials) + 1 - 1)
                    * factorials'[Len(factorials) + 1 - 1]
      <4>1. /\ Len(factorials) \in 1..Len(factorials)
            /\ Len(factorials) + 1 - 1 = Len(factorials)
        BY DEF FactorialIInv, Factorial!TypeOK
      <4>2. factorials'[Len(factorials)] = factorials[Len(factorials)]
        BY <2>1, <4>1
      <4> QED
        BY <2>1, <4>1, <4>2
    <3>4. 2..Len(factorials')
              \subseteq 2..Len(factorials) \cup {Len(factorials) + 1}
      BY <2>1 DEF FactorialIInv, Factorial!TypeOK
    <3> QED
      BY <3>1, <3>2, <3>3, <3>4 DEF Factorial!CacheHoldsFactorials
  <2>4. FactorialCalls'
    BY <1>4, <2>1
       DEF Factorial!Extend, FactorialIInv, Factorial!TypeOK, FactorialCalls,
           Factorial!Arguments
  <2>5. Factorial!ResultIsSomeFactorial'
    <3>1. \A s \in Threads :
            (factorialArgument[s] + 1)..Len(factorials)
                \subseteq 1..Len(factorials)
      BY DEF FactorialIInv, Factorial!TypeOK, Factorial!Arguments,
             Factorial!FactorialAssumption
    <3>2. \A s \in Threads :
            (factorialArgument[s] + 1)..Len(factorials)
                \subseteq (factorialArgument[s] + 1)..Len(factorials')
      BY <2>1
         DEF FactorialIInv, Factorial!TypeOK, Factorial!Arguments,
             Factorial!FactorialAssumption
    <3>3. UNCHANGED <<factorialPc, factorialArgument, factorialResult>>
      BY <1>4 DEF Factorial!Extend
    <3>4. ASSUME NEW s \in Threads, factorialPc[s] = "idle",
                 NEW i \in (factorialArgument[s] + 1)..Len(factorials),
                 factorialResult[s] = factorials[i]
          PROVE  /\ i \in (factorialArgument[s] + 1)..Len(factorials')
                 /\ factorialResult[s] = factorials'[i]
      BY <2>1, <3>1, <3>2, <3>4
    <3> QED
      BY <3>3, <3>4 DEF FactorialIInv, Factorial!ResultIsSomeFactorial
  <2> QED
    BY <2>2, <2>3, <2>4, <2>5 DEF FactorialIInv
<1>5. ASSUME NEW t \in Threads, Factorial!Unlock(t)
      PROVE FactorialIInv'
  <2>1. factorials[Len(factorials)] \in Nat
    BY <1>0
  <2>2. Factorial!TypeOK' /\ Factorial!CacheHoldsFactorials'
    BY <1>5, <2>1
       DEF Factorial!Unlock, FactorialIInv, Factorial!TypeOK,
           Factorial!CacheHoldsFactorials
  <2>3. FactorialCalls'
    BY <1>0, <1>5
       DEF Factorial!Unlock, FactorialIInv, Factorial!TypeOK, FactorialCalls,
           Factorial!FactorialAssumption
  <2>4. Factorial!ResultIsSomeFactorial'
    <3>1. Len(factorials) \in (factorialArgument[t] + 1)..Len(factorials)
      BY <1>0, <1>5 DEF Factorial!Unlock
    <3>2. factorialResult'[t] = factorials[Len(factorials)]
      BY <1>5 DEF Factorial!Unlock, FactorialIInv, Factorial!TypeOK
    <3>3. /\ factorials' = factorials /\ factorialArgument' = factorialArgument
          /\ \A s \in Threads :
                s # t => /\ factorialPc'[s] = factorialPc[s]
                         /\ factorialResult'[s] = factorialResult[s]
      BY <1>5
         DEF Factorial!Unlock, Factorial!Goto, FactorialIInv, Factorial!TypeOK
    <3>4. ASSUME NEW s \in Threads, s # t, factorialPc'[s] = "idle"
          PROVE  \/ factorialArgument'[s] <= 1 /\ factorialResult'[s] = 1
                 \/ \E i \in (factorialArgument'[s] + 1)..Len(factorials') :
                       factorialResult'[s] = factorials'[i]
      BY <3>3, <3>4 DEF FactorialIInv, Factorial!ResultIsSomeFactorial
    <3>5. \E i \in (factorialArgument'[t] + 1)..Len(factorials') :
              factorialResult'[t] = factorials'[i]
      BY <3>1, <3>2, <3>3
    <3> QED
      BY <3>4, <3>5 DEF Factorial!ResultIsSomeFactorial
  <2> QED
    BY <2>2, <2>3, <2>4 DEF FactorialIInv
<1>6. CASE UNCHANGED Factorial!vars
  BY <1>6
     DEF Factorial!vars, FactorialIInv, Factorial!TypeOK,
         Factorial!CacheHoldsFactorials, FactorialCalls,
         Factorial!ResultIsSomeFactorial
<1> QED
  BY <1>1, <1>2, <1>3, <1>4, <1>5, <1>6 DEF Factorial!Next, Factorial!Proceed

\* The cache holds the factorials, whatever threads extend it, and a call
\* returns the factorial of its argument or of a larger one.
THEOREM FactorialInvariance ==
  Factorial!Spec => [](/\ Factorial!TypeOK
                       /\ Factorial!CacheHoldsFactorials
                       /\ Factorial!ResultIsSomeFactorial)
<1>1. Factorial!Init => FactorialIInv
  BY InitFactorial
<1>2. FactorialIInv /\ [Factorial!Next]_(Factorial!vars) => FactorialIInv'
  BY NextFactorial
<1>3. FactorialIInv => /\ Factorial!TypeOK
                       /\ Factorial!CacheHoldsFactorials
                       /\ Factorial!ResultIsSomeFactorial
  BY DEF FactorialIInv
<1> QED
  BY <1>1, <1>2, <1>3, PTL DEF Factorial!Spec

\* The reference of FactorialCache is the factorial of the library.
LEMMA ReferenceIsFactorial == Factorial!F = factorial
BY DEF Factorial!F, factorial

LEMMA CacheIsFactorial ==
  ASSUME Factorial!TypeOK, Factorial!CacheHoldsFactorials
  PROVE  \A i \in 1..Len(factorials) : factorials[i] = factorial[i - 1]
<1> DEFINE S == {i \in 1..Len(factorials) :
                    factorials[i] # factorial[i - 1]}
<1>1. Len(factorials) \in Nat
  BY DEF Factorial!TypeOK
<1>2. ASSUME S # {}
      PROVE  FALSE
  <2>1. PICK i \in S : \A j \in S : i <= j
    <3>1. S \in SUBSET Nat
      BY <1>1
    <3> HIDE DEF S
    <3> QED
      BY <1>2, <3>1, LeastNumber
  <2>2. i # 1
    <3>1. factorials[1] = 1 /\ factorial[0] = 1 /\ 1 - 1 = 0
      BY FactorialFacts DEF Factorial!CacheHoldsFactorials
    <3> QED
      BY <2>1, <3>1
  <2>3. /\ i \in 2..Len(factorials) /\ i - 1 \in 1..Len(factorials)
        /\ i - 2 \in Nat /\ i - 2 + 1 = i - 1 /\ i - 1 - 1 = i - 2
        /\ ~(i <= i - 1)
    BY <1>1, <2>1, <2>2
  <2>4. factorials[i] = (i - 1) * factorials[i - 1]
    BY <2>3 DEF Factorial!CacheHoldsFactorials
  <2>5. factorials[i - 1] = factorial[i - 2]
    <3>1. i - 1 \notin S
      BY <2>1, <2>3
    <3> QED
      BY <2>3, <3>1
  <2>6. factorial[i - 2 + 1] = (i - 2 + 1) * factorial[i - 2]
    BY <2>3, FactorialFacts
  <2> QED
    BY <2>1, <2>3, <2>4, <2>5, <2>6
<1> QED
  BY <1>2

\* Nobody else extends the deque of a single thread: it ends where the call
\* wants it, and so the last element is the answer.
SoleCalls ==
    \A t \in Threads :
        /\ factorialPc[t] = "idle" =>
             \/ factorialArgument[t] <= 1 /\ factorialResult[t] = 1
             \/ /\ factorialArgument[t] + 1 \in 1..Len(factorials)
                /\ factorialResult[t] = factorials[factorialArgument[t] + 1]
        /\ factorialPc[t] \in {"lock", "loop"} =>
             Len(factorials) <= factorialArgument[t] + 1

LEMMA NextSoleCalls ==
  ASSUME \A s, t \in Threads : s = t,
         FactorialIInv, SoleCalls, [Factorial!Next]_(Factorial!vars)
  PROVE  SoleCalls'
<1> USE DEF Factorial!Goto
<1>0. /\ factorials \in Seq(Nat) /\ Len(factorials) \in Nat \ {0}
      /\ factorialArgument \in [Threads -> Nat]
      /\ factorialPc \in [Threads -> {"idle", "read", "lock", "loop"}]
      /\ factorialResult \in [Threads -> Nat]
  BY DEF FactorialIInv, Factorial!TypeOK, Factorial!Arguments,
         Factorial!FactorialAssumption
<1>b. \A t \in Threads : factorialArgument[t] \in Nat
  BY <1>0
<1>1. ASSUME NEW t \in Threads, NEW a \in Factorial!Arguments,
             Factorial!Call(t, a)
      PROVE  SoleCalls'
  <2>1. a \in Nat
    BY DEF Factorial!Arguments, Factorial!FactorialAssumption
  <2>2. /\ factorials' = factorials /\ factorialArgument'[t] = a
        /\ factorialPc[t] = "idle"
        /\ \/ /\ a <= 1 /\ factorialResult'[t] = 1
              /\ factorialPc'[t] = "idle"
           \/ a > 1 /\ factorialPc'[t] = "read"
           \/ /\ a > 1 /\ ~(a < Len(factorials))
              /\ factorialPc'[t] = "lock"
    BY <1>0, <1>1, <2>1 DEF Factorial!Call
  <2>3. ~(a < Len(factorials)) => Len(factorials) <= a + 1
    BY <1>0, <2>1
  <2> QED
    BY <2>2, <2>3 DEF SoleCalls
<1>2. ASSUME NEW t \in Threads, Factorial!ReadCache(t)
      PROVE  SoleCalls'
  <2>1. factorialArgument[t] + 1 \in 1..Len(factorials)
    BY <1>0, <1>b, <1>2 DEF Factorial!ReadCache, FactorialIInv, FactorialCalls
  <2>2. /\ factorials' = factorials /\ factorialPc'[t] = "idle"
        /\ factorialArgument' = factorialArgument
        /\ factorialResult'[t] = factorials[factorialArgument[t] + 1]
    BY <1>0, <1>2 DEF Factorial!ReadCache
  <2> QED
    BY <2>1, <2>2 DEF SoleCalls
<1>3. ASSUME NEW t \in Threads, Factorial!Lock(t)
      PROVE  SoleCalls'
  <2>1. /\ factorials' = factorials /\ factorialPc'[t] = "loop"
        /\ factorialArgument' = factorialArgument
        /\ factorialPc[t] = "lock"
    BY <1>0, <1>3 DEF Factorial!Lock
  <2> QED
    BY <2>1 DEF SoleCalls
<1>4. ASSUME NEW t \in Threads, Factorial!Extend(t)
      PROVE  SoleCalls'
  <2>1. Len(factorials') = Len(factorials) + 1
    BY <1>4, ExtendFactorials
  <2>2. /\ Len(factorials) <= factorialArgument[t]
        /\ factorialPc' = factorialPc /\ factorialPc[t] = "loop"
        /\ factorialArgument' = factorialArgument
    BY <1>4 DEF Factorial!Extend
  <2>3. Len(factorials') <= factorialArgument[t] + 1
    BY <1>0, <1>b, <2>1, <2>2
  <2> QED
    BY <2>2, <2>3 DEF SoleCalls
<1>5. ASSUME NEW t \in Threads, Factorial!Unlock(t)
      PROVE  SoleCalls'
  <2>1. /\ Len(factorials) > factorialArgument[t]
        /\ Len(factorials) <= factorialArgument[t] + 1
    BY <1>5 DEF Factorial!Unlock, SoleCalls
  <2>2. /\ Len(factorials) = factorialArgument[t] + 1
        /\ factorialArgument[t] + 1 \in 1..Len(factorials)
    BY <1>0, <1>b, <2>1
  <2>3. /\ factorials' = factorials /\ factorialPc'[t] = "idle"
        /\ factorialArgument' = factorialArgument
        /\ factorialResult'[t] = factorials[Len(factorials)]
    BY <1>0, <1>5 DEF Factorial!Unlock
  <2> QED
    BY <2>2, <2>3 DEF SoleCalls
<1>6. CASE UNCHANGED Factorial!vars
  BY <1>6 DEF Factorial!vars, SoleCalls
<1> QED
  BY <1>1, <1>2, <1>3, <1>4, <1>5, <1>6 DEF Factorial!Next, Factorial!Proceed

\* One thread alone gets the factorial of its argument, which the test expects
\* of Factorial(5) and which two threads break.
THEOREM OneThreadGetsTheFactorial ==
  ASSUME \A s, t \in Threads : s = t
  PROVE  Factorial!Spec => []Factorial!ResultIsTheFactorial
<1>1. Factorial!Init => FactorialIInv /\ SoleCalls
  <2>1. Factorial!Init => SoleCalls
    BY DEF Factorial!Init, SoleCalls
  <2> QED
    BY <2>1, InitFactorial
<1>2. FactorialIInv /\ SoleCalls /\ [Factorial!Next]_(Factorial!vars)
          => (FactorialIInv /\ SoleCalls)'
  BY NextFactorial, NextSoleCalls
<1>3. FactorialIInv /\ SoleCalls => Factorial!ResultIsTheFactorial
  <2> SUFFICES ASSUME FactorialIInv, SoleCalls,
                      NEW t \in Threads, factorialPc[t] = "idle"
               PROVE  factorialResult[t] = factorial[factorialArgument[t]]
    BY ReferenceIsFactorial DEF Factorial!ResultIsTheFactorial
  <2>1. factorialArgument[t] \in Nat
    BY DEF FactorialIInv, Factorial!TypeOK, Factorial!Arguments,
           Factorial!FactorialAssumption
  <2>2. CASE factorialArgument[t] <= 1 /\ factorialResult[t] = 1
    <3>1. factorial[0] = 1 /\ factorial[0 + 1] = (0 + 1) * factorial[0]
      BY FactorialFacts
    <3>2. factorialArgument[t] \in {0, 1}
      BY <2>1, <2>2
    <3> QED
      BY <2>2, <3>1, <3>2
  <2>3. CASE /\ factorialArgument[t] + 1 \in 1..Len(factorials)
             /\ factorialResult[t] = factorials[factorialArgument[t] + 1]
    <3> DEFINE i == factorialArgument[t] + 1
    <3>1. factorials[i] = factorial[i - 1]
      <4>1. \A j \in 1..Len(factorials) : factorials[j] = factorial[j - 1]
        BY CacheIsFactorial DEF FactorialIInv
      <4>2. i \in 1..Len(factorials)
        BY <2>3
      <4> HIDE DEF i
      <4> QED
        BY <4>1, <4>2
    <3>2. i - 1 = factorialArgument[t] /\ factorialResult[t] = factorials[i]
      BY <2>1, <2>3
    <3> HIDE DEF i
    <3> QED
      BY <3>1, <3>2
  <2>4. \/ factorialArgument[t] <= 1 /\ factorialResult[t] = 1
        \/ /\ factorialArgument[t] + 1 \in 1..Len(factorials)
           /\ factorialResult[t] = factorials[factorialArgument[t] + 1]
    BY DEF SoleCalls
  <2> QED
    BY <2>2, <2>3, <2>4
<1> QED
  BY <1>1, <1>2, <1>3, PTL DEF Factorial!Spec

-----------------------------------------------------------------------------
(* The binomial coefficients.  Beyond the properties the invariant says    *)
(* that a thread that reads without the mutex has seen its row, and that   *)
(* the loop variable of the holder of the mutex is the number of rows.     *)

BinomialCalls ==
    \A t \in Threads :
        /\ rowsPc[t] # "idle" => k[t] <= n[t]
        /\ rowsPc[t] = "read" => n[t] < Len(rows)
        /\ rowsPc[t] = "loop" => m[t] = Len(rows)

BinomialIInv ==
    /\ Binomial!TypeOK /\ Binomial!RowsArePascals
    /\ BinomialCalls /\ Binomial!AnswersAreEntries

LEMMA ShortIsNat ==
  ASSUME NEW a \in Nat, NEW b \in Nat
  PROVE  Binomial!Short(a, b) \in Nat
<1> DEFINE p == a * (a - 1)
<1>1. p \in Int /\ Modulus \in Nat \ {0}
  BY DEF Binomial!BinomialAssumption
<1> HIDE DEF p
<1>2. p % Modulus \in Nat
  BY <1>1
<1>3. (p % Modulus) \div 2 \in Nat
  BY <1>2
<1> QED
  BY <1>3 DEF Binomial!Short, Binomial!Triangular, p

\* The rows that are there, as numbers.
LEMMA RowFacts ==
  ASSUME Binomial!TypeOK, Binomial!RowsArePascals
  PROVE  /\ \A r \in 1..Len(rows) : Len(rows[r]) = r /\ rows[r] \in Seq(Nat)
         /\ \A r \in 1..Len(rows) : \A i \in 1..r : rows[r][i] \in Nat
<1>1. /\ Len(rows) \in Nat /\ \A r \in 1..Len(rows) : rows[r] \in Seq(Nat)
      /\ Len(<<1>>) = 1
  BY DEF Binomial!TypeOK
<1>2. \A r \in 1..Len(rows) : Len(rows[r]) = r
  <2>1. rows[1] = <<1>> /\ \A r \in 2..Len(rows) : Len(rows[r]) = r
    BY DEF Binomial!RowsArePascals
  <2>2. \A r \in 1..Len(rows) : r = 1 \/ r \in 2..Len(rows)
    BY <1>1
  <2> QED
    BY <1>1, <2>1, <2>2
<1>3. ASSUME NEW r \in 1..Len(rows), NEW i \in 1..r
      PROVE  rows[r][i] \in Nat
  <2> DEFINE row == rows[r]
  <2>1. row \in Seq(Nat) /\ Len(row) = r
    BY <1>1, <1>2
  <2> HIDE DEF row
  <2>2. row[i] \in Nat
    BY <2>1
  <2> QED
    BY <2>2 DEF row
<1> QED
  BY <1>1, <1>2, <1>3

\* ComputeRow makes the next row.
LEMMA NewRow ==
  ASSUME Binomial!TypeOK, Binomial!RowsArePascals, NEW r \in Nat, r = Len(rows)
  PROVE  /\ Binomial!Row(r) \in Seq(Nat) /\ Len(Binomial!Row(r)) = r + 1
         /\ Binomial!Row(r)[1] = 1 /\ Binomial!Row(r)[r + 1] = 1
         /\ \A i \in 2..r : Binomial!Row(r)[i] = rows[r][i] + rows[r][i - 1]
<1>1. r \in 1..Len(rows)
  BY DEF Binomial!TypeOK
<1>2. \A i \in 1..r : rows[r][i] \in Nat
  BY <1>1, RowFacts
<1>3. \A i \in 1..(r + 1) :
        (IF i \in {1, r + 1} THEN 1 ELSE rows[r][i] + rows[r][i - 1]) \in Nat
  BY <1>2
<1>4. Binomial!Row(r) = [i \in 1..(r + 1) |->
                  IF i \in {1, r + 1} THEN 1 ELSE rows[r][i] + rows[r][i - 1]]
  BY DEF Binomial!Row
<1>5. Binomial!Row(r) \in [1..(r + 1) -> Nat]
  BY <1>3, <1>4
<1>6. Binomial!Row(r) \in Seq(Nat) /\ Len(Binomial!Row(r)) = r + 1
  BY <1>5
<1>7. \A i \in 2..r : i \in 1..(r + 1) /\ i \notin {1, r + 1}
  OBVIOUS
<1>8. 1 \in 1..(r + 1) /\ r + 1 \in 1..(r + 1)
  OBVIOUS
<1> QED
  BY <1>4, <1>6, <1>7, <1>8

LEMMA InitBinomial == ASSUME Binomial!Init PROVE BinomialIInv
<1>1. /\ Len(rows) = 1 /\ rows[1] = <<1>>
      /\ rows \in Seq(Seq(Nat))
  <2>1. <<1>> \in Seq(Nat)
    OBVIOUS
  <2> QED
    BY <2>1 DEF Binomial!Init
<1>2. Binomial!TypeOK
  BY <1>1 DEF Binomial!Init, Binomial!TypeOK, Binomial!BinomialAssumption
<1>3. Binomial!RowsArePascals
  BY <1>1 DEF Binomial!RowsArePascals
<1>4. BinomialCalls /\ Binomial!AnswersAreEntries
  BY DEF Binomial!Init, BinomialCalls, Binomial!AnswersAreEntries,
         Binomial!IsShort, Binomial!Outermost
<1> QED
  BY <1>2, <1>3, <1>4 DEF BinomialIInv

\* Appending a row keeps the triangle.
LEMMA ExtendRows ==
  ASSUME BinomialIInv, NEW t \in Threads, Binomial!Extend(t)
  PROVE  /\ rows' \in Seq(Seq(Nat)) /\ Len(rows') = Len(rows) + 1
         /\ \A i \in 1..Len(rows) : rows'[i] = rows[i]
         /\ Binomial!RowsArePascals'
<1> DEFINE r == Len(rows)
<1>1. /\ m[t] = r /\ r \in Nat \ {0} /\ rows \in Seq(Seq(Nat))
  BY DEF BinomialIInv, Binomial!TypeOK, BinomialCalls, Binomial!Extend
<1>2. /\ Binomial!Row(r) \in Seq(Nat) /\ Len(Binomial!Row(r)) = r + 1
      /\ Binomial!Row(r)[1] = 1 /\ Binomial!Row(r)[r + 1] = 1
      /\ \A i \in 2..r : Binomial!Row(r)[i] = rows[r][i] + rows[r][i - 1]
  BY <1>1, NewRow DEF BinomialIInv
<1>3. rows' = Append(rows, Binomial!Row(r))
  BY <1>1 DEF Binomial!Extend
<1> HIDE DEF r
<1>4. /\ rows' \in Seq(Seq(Nat)) /\ Len(rows') = r + 1
      /\ \A i \in 1..r : rows'[i] = rows[i]
      /\ rows'[r + 1] = Binomial!Row(r)
  BY <1>1, <1>2, <1>3 DEF r
<1>5. rows'[1] = <<1>>
  <2>1. 1 \in 1..r /\ rows[1] = <<1>>
    BY <1>1 DEF BinomialIInv, Binomial!RowsArePascals
  <2> QED
    BY <1>4, <2>1
<1>6. ASSUME NEW q \in 2..Len(rows')
      PROVE  /\ Len(rows'[q]) = q
             /\ rows'[q][1] = 1 /\ rows'[q][q] = 1
             /\ \A i \in 2..(q - 1) :
                   rows'[q][i] = rows'[q - 1][i] + rows'[q - 1][i - 1]
  <2>1. CASE q \in 2..r
    <3>1. q \in 1..r /\ q - 1 \in 1..r
      BY <1>1, <2>1
    <3>2. rows'[q] = rows[q] /\ rows'[q - 1] = rows[q - 1]
      BY <1>4, <3>1
    <3> QED
      BY <2>1, <3>2 DEF BinomialIInv, Binomial!RowsArePascals, r
  <2>2. CASE q = r + 1
    <3>1. rows'[q] = Binomial!Row(r) /\ rows'[q - 1] = rows[r] /\ q - 1 = r
      <4>1. q - 1 = r /\ r \in 1..r
        BY <1>1, <2>2
      <4>2. rows[r] = rows'[r]
        BY <1>4, <4>1
      <4> QED
        BY <1>4, <2>2, <4>1, <4>2
    <3> QED
      BY <1>2, <2>2, <3>1
  <2>3. q \in 2..r \/ q = r + 1
    BY <1>1, <1>4
  <2> QED
    BY <2>1, <2>2, <2>3
<1> QED
  BY <1>4, <1>5, <1>6 DEF Binomial!RowsArePascals, r

LEMMA NextBinomial ==
  ASSUME BinomialIInv, [Binomial!Next]_(Binomial!vars)
  PROVE  BinomialIInv'
<1> USE DEF Binomial!Goto
<1>0. /\ rows \in Seq(Seq(Nat))
      /\ rowsPc \in [Threads -> {"idle", "read", "lock", "loop"}]
      /\ n \in [Threads -> 0..20] /\ k \in [Threads -> 0..20]
      /\ m \in [Threads -> 0..21] /\ binomial \in [Threads -> Nat]
  BY DEF BinomialIInv, Binomial!TypeOK
<1>b. /\ Len(rows) \in 1..21
      /\ \A t \in Threads : n[t] \in 0..20 /\ k[t] \in 0..20 /\ m[t] \in 0..21
  BY DEF BinomialIInv, Binomial!TypeOK
<1>a. \A t \in Threads : rowsPc[t] \in {"read", "loop"} /\ n[t] < Len(rows)
         => /\ n[t] + 1 \in DOMAIN rows
            /\ rows[n[t] + 1][k[t] + 1] \in Nat
  <2> SUFFICES ASSUME NEW t \in Threads, rowsPc[t] \in {"read", "loop"},
                      n[t] < Len(rows)
               PROVE  /\ n[t] + 1 \in DOMAIN rows
                      /\ rows[n[t] + 1][k[t] + 1] \in Nat
    OBVIOUS
  <2>1. n[t] \in 0..20 /\ k[t] \in 0..20 /\ k[t] <= n[t]
    BY <1>0 DEF BinomialIInv, BinomialCalls
  <2>2. n[t] + 1 \in 1..Len(rows) /\ k[t] + 1 \in 1..(n[t] + 1)
    <3>1. \A x \in 0..20, y \in 0..20, z \in 1..21 :
             x < z /\ y <= x => x + 1 \in 1..z /\ y + 1 \in 1..(x + 1)
      OBVIOUS
    <3>2. n[t] \in 0..20 /\ k[t] \in 0..20 /\ Len(rows) \in 1..21
      BY <1>b
    <3> QED
      BY <2>1, <3>1, <3>2
  <2>3. \A r \in 1..Len(rows) : \A i \in 1..r : rows[r][i] \in Nat
    BY RowFacts DEF BinomialIInv
  <2>4. DOMAIN rows = 1..Len(rows)
    BY <1>0
  <2> QED
    BY <2>2, <2>3, <2>4
<1>1. ASSUME NEW t \in Threads, NEW a \in Pairs, Binomial!Call(t, a[1], a[2])
      PROVE  BinomialIInv'
  <2>1. a[1] \in 0..20 /\ a[2] \in 0..20 /\ (a[2] <= a[1] \/ a[2] = 2)
    BY DEF Binomial!BinomialAssumption
  <2>2. /\ UNCHANGED <<rows, rowsMutex, m>> /\ rowsPc[t] = "idle"
        /\ n' = [n EXCEPT ![t] = a[1]] /\ k' = [k EXCEPT ![t] = a[2]]
        /\ \/ /\ Binomial!IsShort(a[1], a[2]) /\ rowsPc' = rowsPc
              /\ binomial' =
                     [binomial EXCEPT ![t] = Binomial!Short(a[1], a[2])]
           \/ /\ ~Binomial!IsShort(a[1], a[2]) /\ binomial' = binomial
              /\ \/ a[1] < Len(rows) /\ rowsPc' = [rowsPc EXCEPT ![t] = "read"]
                 \/ rowsPc' = [rowsPc EXCEPT ![t] = "lock"]
    BY <1>1 DEF Binomial!Call
  <2>3. Binomial!Short(a[1], a[2]) \in Nat
    <3>1. a[1] \in Nat /\ a[2] \in Nat
      BY <2>1
    <3> QED
      BY <3>1, ShortIsNat
  <2>4. Binomial!TypeOK'
    <3>1. n' \in [Threads -> 0..20] /\ k' \in [Threads -> 0..20]
      BY <2>1, <2>2 DEF BinomialIInv, Binomial!TypeOK
    <3>2. /\ rowsPc' \in [Threads -> {"idle", "read", "lock", "loop"}]
          /\ binomial' \in [Threads -> Nat]
          /\ \A s \in Threads : rowsPc'[s] = "loop" <=> rowsPc[s] = "loop"
      BY <1>0, <2>2, <2>3
    <3> QED
      BY <2>2, <3>1, <3>2 DEF BinomialIInv, Binomial!TypeOK
  <2>5. Binomial!RowsArePascals'
    BY <2>2 DEF BinomialIInv, Binomial!RowsArePascals
  <2>6. ~Binomial!IsShort(a[1], a[2]) => a[2] <= a[1]
    BY <2>1 DEF Binomial!IsShort, Binomial!Third
  <2>7. BinomialCalls'
    <3>1. \A s \in Threads : s # t =>
             n'[s] = n[s] /\ k'[s] = k[s] /\ rowsPc'[s] = rowsPc[s]
      BY <1>0, <2>2
    <3>2. /\ n'[t] = a[1] /\ k'[t] = a[2]
          /\ rowsPc'[t] \in {"idle", "read", "lock"}
          /\ rowsPc'[t] = "read" => a[1] < Len(rows)
          /\ rowsPc'[t] # "idle" => ~Binomial!IsShort(a[1], a[2])
      BY <1>0, <2>2
    <3> QED
      BY <2>2, <2>6, <3>1, <3>2 DEF BinomialIInv, BinomialCalls
  <2>8. Binomial!AnswersAreEntries'
    <3>1. ASSUME NEW s \in Threads, s # t
          PROVE  /\ n'[s] = n[s] /\ k'[s] = k[s]
                 /\ rowsPc'[s] = rowsPc[s] /\ binomial'[s] = binomial[s]
      BY <1>0, <2>2, <3>1
    <3>2. rowsPc'[t] = "idle" => Binomial!IsShort(n'[t], k'[t])
      BY <1>0, <2>1, <2>2
    <3> QED
      BY <2>2, <3>1, <3>2 DEF BinomialIInv, Binomial!AnswersAreEntries
  <2> QED
    BY <2>4, <2>5, <2>7, <2>8 DEF BinomialIInv
<1>2. ASSUME NEW t \in Threads, Binomial!ReadCache(t)
      PROVE  BinomialIInv'
  <2>1. n[t] < Len(rows) /\ rowsPc[t] = "read"
    BY <1>2 DEF Binomial!ReadCache, BinomialIInv, BinomialCalls
  <2>2. /\ n[t] + 1 \in DOMAIN rows /\ rows[n[t] + 1][k[t] + 1] \in Nat
    BY <1>a, <2>1
  <2>3. Binomial!TypeOK'
    BY <1>0, <1>2, <2>1, <2>2
       DEF Binomial!ReadCache, BinomialIInv, Binomial!TypeOK
  <2>4. Binomial!RowsArePascals' /\ BinomialCalls'
    BY <1>0, <1>2
       DEF Binomial!ReadCache, BinomialIInv, Binomial!RowsArePascals,
           BinomialCalls
  <2>5. Binomial!AnswersAreEntries'
    BY <1>0, <1>2, <2>2
       DEF Binomial!ReadCache, BinomialIInv, Binomial!AnswersAreEntries
  <2> QED
    BY <2>3, <2>4, <2>5 DEF BinomialIInv
<1>3. ASSUME NEW t \in Threads, Binomial!Lock(t)
      PROVE  BinomialIInv'
  <2>1. Binomial!TypeOK'
    <3>1. m' \in [Threads -> 0..21]
      <4>1. Len(rows) \in 0..21 /\ m' = [m EXCEPT ![t] = Len(rows)]
        BY <1>b, <1>3 DEF Binomial!Lock
      <4> QED
        BY <1>0, <4>1
    <3>2. /\ rowsPc' \in [Threads -> {"idle", "read", "lock", "loop"}]
          /\ \A s \in Threads : rowsPc'[s] = "loop" <=> rowsMutex' = s
      BY <1>0, <1>3
         DEF Binomial!Lock, BinomialIInv, Binomial!TypeOK,
             Binomial!BinomialAssumption
    <3> QED
      BY <1>3, <3>1, <3>2 DEF Binomial!Lock, BinomialIInv, Binomial!TypeOK
  <2>2. Binomial!RowsArePascals' /\ Binomial!AnswersAreEntries'
    BY <1>0, <1>3
       DEF Binomial!Lock, BinomialIInv, Binomial!RowsArePascals,
           Binomial!AnswersAreEntries
  <2>3. BinomialCalls'
    BY <1>0, <1>3
       DEF Binomial!Lock, BinomialIInv, Binomial!TypeOK, BinomialCalls,
           Binomial!BinomialAssumption
  <2> QED
    BY <2>1, <2>2, <2>3 DEF BinomialIInv
<1>4. ASSUME NEW t \in Threads, Binomial!Extend(t)
      PROVE  BinomialIInv'
  <2>1. /\ rows' \in Seq(Seq(Nat)) /\ Len(rows') = Len(rows) + 1
        /\ \A i \in 1..Len(rows) : rows'[i] = rows[i]
        /\ Binomial!RowsArePascals'
    BY <1>4, ExtendRows
  <2>2. /\ m[t] = Len(rows) /\ m[t] <= n[t] /\ n[t] <= 20
        /\ m' = [m EXCEPT ![t] = m[t] + 1]
        /\ UNCHANGED <<rowsMutex, rowsPc, n, k, binomial>>
        /\ rowsPc[t] = "loop" /\ rowsMutex = t
    <3>1. rowsPc[t] = "loop" /\ rowsMutex = t /\ m[t] = Len(rows)
      BY <1>4 DEF Binomial!Extend, BinomialIInv, Binomial!TypeOK, BinomialCalls
    <3>2. /\ m[t] <= n[t]
          /\ m' = [m EXCEPT ![t] = m[t] + 1]
          /\ UNCHANGED <<rowsMutex, rowsPc, n, k, binomial>>
      BY <1>4 DEF Binomial!Extend
    <3>3. n[t] <= 20
      <4>1. n[t] \in 0..20
        BY <1>b
      <4> QED
        BY <4>1
    <3> QED
      BY <3>1, <3>2, <3>3
  <2>3. Binomial!TypeOK'
    <3>1. m' \in [Threads -> 0..21] /\ Len(rows') \in 1..21
      <4>1. m[t] \in 0..20 /\ m[t] + 1 \in 0..21
        <5>1. \A x \in 0..21, y \in 0..20 :
                 x <= y => x \in 0..20 /\ x + 1 \in 0..21
          OBVIOUS
        <5>2. m[t] \in 0..21 /\ n[t] \in 0..20
          BY <1>b
        <5> QED
          BY <2>2, <5>1, <5>2
      <4>2. Len(rows') \in 1..21
        BY <1>b, <2>1, <2>2, <4>1
      <4> QED
        BY <1>0, <2>2, <4>1, <4>2
    <3> QED
      BY <2>1, <2>2, <3>1 DEF BinomialIInv, Binomial!TypeOK
  <2>4. BinomialCalls'
    <3>1. \A s \in Threads : rowsPc[s] = "loop" => s = t
      BY <2>2 DEF BinomialIInv, Binomial!TypeOK
    <3> QED
      <4>1. /\ m'[t] = m[t] + 1 /\ Len(rows') = m[t] + 1
            /\ \A s \in Threads : n[s] < Len(rows) => n[s] < Len(rows')
        <5>1. m'[t] = m[t] + 1
          BY <1>0, <2>2
        <5>2. \A x \in 0..20, y \in 1..21 : x < y => x < y + 1
          OBVIOUS
        <5>3. \A s \in Threads : n[s] \in 0..20
          BY <1>b
        <5>4. Len(rows) \in 1..21 /\ Len(rows') = Len(rows) + 1
          BY <1>b, <2>1
        <5> QED
          BY <2>2, <5>1, <5>2, <5>3, <5>4
      <4> QED
        BY <2>2, <3>1, <4>1 DEF BinomialIInv, BinomialCalls
  <2>5. Binomial!AnswersAreEntries'
    BY <1>0, <2>1, <2>2 DEF BinomialIInv, Binomial!AnswersAreEntries
  <2> QED
    BY <2>1, <2>3, <2>4, <2>5 DEF BinomialIInv
<1>5. ASSUME NEW t \in Threads, Binomial!Unlock(t)
      PROVE  BinomialIInv'
  <2>1. n[t] < Len(rows) /\ rowsPc[t] = "loop" /\ rowsMutex = t
    BY <1>0, <1>5
       DEF Binomial!Unlock, BinomialIInv, Binomial!TypeOK, BinomialCalls
  <2>2. /\ n[t] + 1 \in DOMAIN rows /\ rows[n[t] + 1][k[t] + 1] \in Nat
    BY <1>a, <2>1
  <2>3. Binomial!TypeOK'
    <3>1. /\ rowsPc' \in [Threads -> {"idle", "read", "lock", "loop"}]
          /\ binomial' \in [Threads -> Nat] /\ rowsMutex' = NoThread
      BY <1>0, <1>5, <2>2 DEF Binomial!Unlock
    <3>2. \A s \in Threads : rowsPc'[s] # "loop"
      BY <1>0, <1>5, <2>1 DEF Binomial!Unlock, BinomialIInv, Binomial!TypeOK
    <3> QED
      BY <1>5, <3>1, <3>2
         DEF Binomial!Unlock, BinomialIInv, Binomial!TypeOK,
             Binomial!BinomialAssumption
  <2>4. Binomial!RowsArePascals' /\ BinomialCalls'
    BY <1>0, <1>5
       DEF Binomial!Unlock, BinomialIInv, Binomial!RowsArePascals,
           BinomialCalls
  <2>5. Binomial!AnswersAreEntries'
    BY <1>0, <1>5, <2>2
       DEF Binomial!Unlock, BinomialIInv, Binomial!AnswersAreEntries
  <2> QED
    BY <2>3, <2>4, <2>5 DEF BinomialIInv
<1>6. CASE UNCHANGED Binomial!vars
  BY <1>6
     DEF Binomial!vars, BinomialIInv, Binomial!TypeOK, Binomial!RowsArePascals,
         BinomialCalls, Binomial!AnswersAreEntries
<1> QED
  BY <1>1, <1>2, <1>3, <1>4, <1>5, <1>6 DEF Binomial!Next, Binomial!Proceed

\* The cache is Pascal's triangle, and a call that is not answered at once
\* returns the element of its row, whatever the threads do in between.
THEOREM BinomialInvariance ==
  Binomial!Spec => [](/\ Binomial!TypeOK /\ Binomial!RowsArePascals
                      /\ Binomial!AnswersAreEntries)
<1>1. Binomial!Init => BinomialIInv
  BY InitBinomial
<1>2. BinomialIInv /\ [Binomial!Next]_(Binomial!vars) => BinomialIInv'
  BY NextBinomial
<1>3. BinomialIInv => /\ Binomial!TypeOK /\ Binomial!RowsArePascals
                      /\ Binomial!AnswersAreEntries
  BY DEF BinomialIInv
<1> QED
  BY <1>1, <1>2, <1>3, PTL DEF Binomial!Spec

-----------------------------------------------------------------------------
(* The coefficients: the rows hold them by Pascal's rule, and each of the  *)
(* shortcuts makes one.                                                    *)

LEMMA RowsAreChosen ==
  ASSUME Binomial!TypeOK, Binomial!RowsArePascals
  PROVE  \A r \in 1..Len(rows) : \A i \in 1..r :
             Chooses(rows[r][i], r - 1, i - 1)
<1> DEFINE S == {r \in 1..Len(rows) :
                    \E i \in 1..r : ~Chooses(rows[r][i], r - 1, i - 1)}
<1>1. Len(rows) \in Nat
  BY DEF Binomial!TypeOK
<1>2. ASSUME S # {}
      PROVE  FALSE
  <2>1. PICK r \in S : \A q \in S : r <= q
    <3>1. S \in SUBSET Nat
      BY <1>1
    <3> HIDE DEF S
    <3> QED
      BY <1>2, <3>1, LeastNumber
  <2>2. PICK i \in 1..r : ~Chooses(rows[r][i], r - 1, i - 1)
    BY <2>1
  <2>3. r \in 1..Len(rows) /\ r \in Nat /\ i \in Nat
    BY <1>1, <2>1
  <2>4. rows[r][1] = 1 /\ rows[r][r] = 1
    <3>1. CASE r = 1
      BY <3>1 DEF Binomial!RowsArePascals
    <3>2. CASE r # 1
      <4>1. r \in 2..Len(rows)
        BY <2>3, <3>2
      <4> QED
        BY <4>1 DEF Binomial!RowsArePascals
    <3> QED
      BY <3>1, <3>2
  <2>5. i # 1 /\ i # r
    <3>1. r - 1 \in Nat /\ 1 - 1 = 0
      BY <2>3
    <3>2. Chooses(1, r - 1, 0) /\ Chooses(1, r - 1, r - 1)
      BY <3>1, EndsChoose
    <3> QED
      BY <2>2, <2>4, <3>1, <3>2
  <2>6. /\ r \in 2..Len(rows) /\ i \in 2..(r - 1)
        /\ r - 1 \in 1..Len(rows) /\ i \in 1..(r - 1) /\ i - 1 \in 1..(r - 1)
        /\ r - 2 \in Nat \ {0} /\ i - 1 \in 1..(r - 2)
        /\ r - 1 - 1 = r - 2 /\ r - 2 + 1 = r - 1
        /\ ~(r <= r - 1)
    BY <1>1, <2>2, <2>3, <2>5
  <2>7. rows[r][i] = rows[r - 1][i] + rows[r - 1][i - 1]
    BY <2>6 DEF Binomial!RowsArePascals
  <2>8. /\ Chooses(rows[r - 1][i], r - 2, i - 1)
        /\ Chooses(rows[r - 1][i - 1], r - 2, i - 1 - 1)
    <3>1. r - 1 \notin S
      BY <2>1, <2>6
    <3>2. \A j \in 1..(r - 1) : Chooses(rows[r - 1][j], r - 1 - 1, j - 1)
      BY <2>6, <3>1
    <3> QED
      BY <2>6, <3>2
  <2>9. Chooses(rows[r - 1][i] + rows[r - 1][i - 1], r - 2 + 1, i - 1)
    <3>1. i - 1 <= r - 2
      BY <2>6
    <3> QED
      BY <2>6, <2>8, <3>1, PascalsRule
  <2> QED
    BY <2>2, <2>6, <2>7, <2>9
<1> QED
  BY <1>2

\* What operator() answers at once.
LEMMA ShortIsChoose ==
  ASSUME NEW a \in 0..20, NEW b \in 0..20, b <= a \/ b = 2,
         Binomial!IsShort(a, b)
  PROVE  \/ Binomial!Third(a, b) /\ a * (a - 1) >= Modulus
         \/ b > a /\ Binomial!Short(a, b) = 0
         \/ b <= a /\ Binomial!Short(a, b) = choose(a, b)
<1> DEFINE Goal == \/ Binomial!Third(a, b) /\ a * (a - 1) >= Modulus
                   \/ b > a /\ Binomial!Short(a, b) = 0
                   \/ b <= a /\ Binomial!Short(a, b) = choose(a, b)
<1> SUFFICES Goal
  OBVIOUS
<1>0. a \in Nat /\ b \in Nat /\ Modulus \in Nat \ {0}
  BY DEF Binomial!BinomialAssumption
<1>1. CASE Binomial!Outermost(a, b)
  <2>1. b \in 0..a /\ (b = 0 \/ b = a)
    BY <1>0, <1>1 DEF Binomial!Outermost
  <2>2. Chooses(1, a, b)
    BY <1>0, <2>1, EndsChoose
  <2>3. 1 = choose(a, b)
    BY <1>0, <2>1, <2>2, ChosenIsChoose
  <2> QED
    BY <1>0, <1>1, <2>1, <2>3 DEF Binomial!Short
<1>2. CASE ~Binomial!Outermost(a, b) /\ Binomial!Second(a, b)
  <2>1. a \in Nat \ {0} /\ b \in 0..a /\ (b = 1 \/ b = a - 1)
    BY <1>0, <1>2 DEF Binomial!Outermost, Binomial!Second
  <2>2. Chooses(a, a, b)
    BY <2>1, SecondsChoose
  <2>3. a = choose(a, b)
    BY <1>0, <2>1, <2>2, ChosenIsChoose
  <2> QED
    BY <1>0, <1>2, <2>1, <2>3 DEF Binomial!Short
<1>3. CASE ~Binomial!Outermost(a, b) /\ ~Binomial!Second(a, b)
  <2>1. Binomial!Third(a, b) /\ Binomial!Short(a, b) = Binomial!Triangular(a)
    BY <1>3 DEF Binomial!IsShort, Binomial!Short
  <2>2. CASE a * (a - 1) >= Modulus
    BY <2>1, <2>2
  <2>3. CASE a * (a - 1) < Modulus
    <3> DEFINE x == a * (a - 1)
    <3>1. x \in 0..(Modulus - 1)
      <4>1. CASE a = 0
        BY <1>0, <4>1
      <4>2. CASE a # 0
        <5>1. a - 1 \in Nat
          BY <1>0, <4>2
        <5>2. x \in Nat
          BY <1>0, <5>1
        <5> QED
          BY <1>0, <2>3, <5>2
      <4> QED
        BY <4>1, <4>2
    <3>2. Binomial!Triangular(a) = x \div 2
      <4> HIDE DEF x
      <4>1. x % Modulus = x
        BY <1>0, <3>1
      <4> QED
        BY <4>1 DEF Binomial!Triangular, x
    <3>3. CASE b > a
      <4>1. a \in {0, 1}
        BY <1>0, <3>3
      <4>2. x = 0
        BY <4>1
      <4> QED
        BY <2>1, <3>2, <3>3, <4>2
    <3>4. CASE b <= a
      <4>1. a >= 2 /\ (b = 2 \/ b = a - 2)
        BY <1>0, <2>1, <3>4 DEF Binomial!Third
      <4>2. x \div 2 = choose(a, b)
        BY <1>0, <4>1, ThirdsChoose
      <4> QED
        BY <2>1, <3>2, <3>4, <4>2
    <3> QED
      BY <1>0, <3>3, <3>4
  <2> QED
    BY <1>0, <2>2, <2>3
<1> QED
  BY <1>1, <1>2, <1>3

\* A call that is answered at once keeps its answer, and one that is not has
\* arguments that none of the shortcuts is for.
ShortAnswers ==
    \A t \in Threads :
        /\ k[t] <= n[t] \/ k[t] = 2
        /\ Binomial!IsShort(n[t], k[t]) =>
               rowsPc[t] = "idle" /\ binomial[t] = Binomial!Short(n[t], k[t])

LEMMA InitShortAnswers == ASSUME Binomial!Init PROVE ShortAnswers
BY DEF Binomial!Init, ShortAnswers, Binomial!IsShort, Binomial!Short,
       Binomial!Outermost

LEMMA NextShortAnswers ==
  ASSUME Binomial!TypeOK, ShortAnswers, [Binomial!Next]_(Binomial!vars)
  PROVE  ShortAnswers'
<1> USE DEF Binomial!Goto
<1>0. /\ rowsPc \in [Threads -> {"idle", "read", "lock", "loop"}]
      /\ n \in [Threads -> 0..20] /\ k \in [Threads -> 0..20]
      /\ binomial \in [Threads -> Nat]
  BY DEF Binomial!TypeOK
<1>1. ASSUME NEW t \in Threads, NEW a \in Pairs, Binomial!Call(t, a[1], a[2])
      PROVE  ShortAnswers'
  <2>1. a[2] <= a[1] \/ a[2] = 2
    BY DEF Binomial!BinomialAssumption
  <2>2. /\ rowsPc[t] = "idle"
        /\ n' = [n EXCEPT ![t] = a[1]] /\ k' = [k EXCEPT ![t] = a[2]]
        /\ Binomial!IsShort(a[1], a[2]) =>
             /\ rowsPc' = rowsPc
             /\ binomial' = [binomial EXCEPT ![t] = Binomial!Short(a[1], a[2])]
    BY <1>1 DEF Binomial!Call
  <2>3. \A s \in Threads : s # t =>
           /\ n'[s] = n[s] /\ k'[s] = k[s]
           /\ rowsPc'[s] = rowsPc[s] /\ binomial'[s] = binomial[s]
    BY <1>0, <1>1 DEF Binomial!Call
  <2>4. /\ n'[t] = a[1] /\ k'[t] = a[2]
        /\ Binomial!IsShort(a[1], a[2]) =>
             rowsPc'[t] = "idle" /\ binomial'[t] = Binomial!Short(a[1], a[2])
    BY <1>0, <2>2
  <2> QED
    BY <2>1, <2>3, <2>4 DEF ShortAnswers
<1>2. ASSUME NEW t \in Threads, Binomial!Proceed(t)
      PROVE  ShortAnswers'
  <2>1. rowsPc[t] # "idle" /\ n' = n /\ k' = k
    BY <1>2
       DEF Binomial!Proceed, Binomial!ReadCache, Binomial!Lock,
           Binomial!Extend, Binomial!Unlock
  <2>2. \A s \in Threads : s # t =>
           rowsPc'[s] = rowsPc[s] /\ binomial'[s] = binomial[s]
    BY <1>0, <1>2
       DEF Binomial!Proceed, Binomial!ReadCache, Binomial!Lock,
           Binomial!Extend, Binomial!Unlock
  <2>3. ~Binomial!IsShort(n[t], k[t])
    BY <2>1 DEF ShortAnswers
  <2> QED
    BY <2>1, <2>2, <2>3 DEF ShortAnswers
<1>3. CASE UNCHANGED Binomial!vars
  BY <1>3 DEF Binomial!vars, ShortAnswers
<1> QED
  BY <1>1, <1>2, <1>3 DEF Binomial!Next

LEMMA AnswersFollow ==
  ASSUME BinomialIInv, ShortAnswers
  PROVE  AnswersAreBinomials
<1> SUFFICES ASSUME NEW t \in Threads, rowsPc[t] = "idle"
             PROVE  \/ Binomial!Third(n[t], k[t])
                       /\ n[t] * (n[t] - 1) >= Modulus
                    \/ k[t] > n[t] /\ binomial[t] = 0
                    \/ k[t] <= n[t] /\ binomial[t] = choose(n[t], k[t])
  BY DEF AnswersAreBinomials
<1>1. n[t] \in 0..20 /\ k[t] \in 0..20 /\ (k[t] <= n[t] \/ k[t] = 2)
  BY DEF BinomialIInv, Binomial!TypeOK, ShortAnswers
<1>2. CASE Binomial!IsShort(n[t], k[t])
  <2>1. binomial[t] = Binomial!Short(n[t], k[t])
    BY <1>2 DEF ShortAnswers
  <2> QED
    BY <1>1, <1>2, <2>1, ShortIsChoose
<1>3. CASE ~Binomial!IsShort(n[t], k[t])
  <2>1. k[t] <= n[t]
    BY <1>1, <1>3 DEF Binomial!IsShort, Binomial!Third
  <2>2. /\ n[t] + 1 \in DOMAIN rows
        /\ binomial[t] = rows[n[t] + 1][k[t] + 1]
    BY <1>3 DEF BinomialIInv, Binomial!AnswersAreEntries
  <2>3. DOMAIN rows = 1..Len(rows)
    BY DEF BinomialIInv, Binomial!TypeOK
  <2>4. /\ k[t] + 1 \in 1..(n[t] + 1) /\ k[t] \in 0..n[t] /\ n[t] \in Nat
        /\ n[t] + 1 - 1 = n[t] /\ k[t] + 1 - 1 = k[t]
    <3>1. \A x, y \in 0..20 : y <= x =>
             /\ y + 1 \in 1..(x + 1) /\ y \in 0..x /\ x \in Nat
             /\ x + 1 - 1 = x /\ y + 1 - 1 = y
      OBVIOUS
    <3> QED
      BY <1>1, <2>1, <3>1
  <2>5. Chooses(binomial[t], n[t], k[t])
    <3>1. Chooses(rows[n[t] + 1][k[t] + 1], n[t] + 1 - 1, k[t] + 1 - 1)
      BY <2>2, <2>3, <2>4, RowsAreChosen DEF BinomialIInv
    <3> QED
      BY <2>2, <2>4, <3>1
  <2>6. binomial[t] = choose(n[t], k[t])
    BY <2>4, <2>5, ChosenIsChoose
  <2> QED
    BY <2>1, <2>6
<1> QED
  BY <1>2, <1>3

\* Every call returns the binomial coefficient of its arguments, from the
\* rows as well as from a shortcut, while n * (n - 1) does not wrap around.
THEOREM BinomialAnswers == Binomial!Spec => []AnswersAreBinomials
<1>1. Binomial!Init => BinomialIInv /\ ShortAnswers
  BY InitBinomial, InitShortAnswers
<1>2. BinomialIInv /\ ShortAnswers /\ [Binomial!Next]_(Binomial!vars)
          => (BinomialIInv /\ ShortAnswers)'
  <2>1. BinomialIInv => Binomial!TypeOK
    BY DEF BinomialIInv
  <2> QED
    BY <2>1, NextBinomial, NextShortAnswers
<1>3. BinomialIInv /\ ShortAnswers => AnswersAreBinomials
  BY AnswersFollow
<1> QED
  BY <1>1, <1>2, <1>3, PTL DEF Binomial!Spec

-----------------------------------------------------------------------------
(* The counter, for any recursion that OrientationCache admits: the number *)
(* of the calls, their order and their factors are constants.  Beyond the  *)
(* properties the invariant is about the frames of the holder of the       *)
(* mutex.  Each has added up the calls it is done with.  They are for      *)
(* shorter and shorter vectors, so that the vector a frame puts into the   *)
(* map is not the one of a frame below; and none of these is in the map,   *)
(* so that an insertion makes the element it assigns to.                   *)

CallRecords == [parts : Vectors, times : Nat, asks : Seq(Nat \X Nat)]

FrameOK(f) ==
    /\ f.parts \in Vectors /\ Len(f.parts) > 1
    /\ f.done \in 0..Len(Calls[f.parts])
    /\ f.sum = Sums[f.parts][f.done]

FramesOK ==
    /\ \A i \in 1..Len(frames) : FrameOK(frames[i])
    /\ \A i \in 1..Len(frames), j \in 1..Len(frames) :
          i < j => Len(frames[j].parts) < Len(frames[i].parts)
    /\ \A i \in 1..Len(frames) :
          frames[i].parts \in DOMAIN Cache =>
              i = Len(frames) /\ \E t \in Threads : at[t] = "assign"
    /\ M = NoThread => Len(frames) = 0
    /\ \A t \in Threads : at[t] \in {"grow", "assign"} =>
          Len(frames) > 0 /\ ~CallsAreLeft

IInv == TypeOK /\ FramesOK /\ EntriesAreCounts /\ AnswersAreCountsOrZero

-----------------------------------------------------------------------------
(* The recursion as data                                                   *)

LEMMA ElementOf ==
  ASSUME NEW S, NEW q \in Seq(S), NEW i \in 1..Len(q)
  PROVE  q[i] \in S
OBVIOUS

LEMMA AllButLast ==
  ASSUME NEW S, NEW q \in Seq(S), Len(q) > 0
  PROVE  LET p == SubSeq(q, 1, Len(q) - 1)
         IN  /\ p \in Seq(S) /\ Len(p) = Len(q) - 1
             /\ \A i \in 1..(Len(q) - 1) :
                   p[i] = q[i] /\ i \in 1..Len(q) /\ i # Len(q)
<1> DEFINE L == Len(q) - 1
<1>1. L \in Nat /\ Len(q) = L + 1
  OBVIOUS
<1> HIDE DEF L
<1>2. \A i \in 1..L : i \in 1..Len(q) /\ i # Len(q) /\ q[i] \in S
  <2>1. \A i \in 1..L : i \in 1..Len(q) /\ i # Len(q)
    BY <1>1
  <2> QED
    BY <2>1, ElementOf
<1>3. SubSeq(q, 1, L) = [i \in 1..L |-> q[i]]
  BY <1>1
<1>4. SubSeq(q, 1, L) \in Seq(S) /\ Len(SubSeq(q, 1, L)) = L
  BY <1>1, <1>2, <1>3
<1> QED
  BY <1>2, <1>3, <1>4 DEF L

LEMMA LengthIsNat ==
  ASSUME NEW v \in Vectors
  PROVE  Len(v) \in Nat
<1>1. v \in Seq(Nat)
  BY OrientationAssumption
<1> QED
  BY <1>1

\* What a call that is left in a frame is, and the frame that is done with it.
LEMMA CallFacts ==
  ASSUME NEW f, FrameOK(f), f.done < Len(Calls[f.parts])
  PROVE  LET call == Calls[f.parts][f.done + 1]
         IN  /\ call.parts \in Vectors
             /\ call.times \in Nat
             /\ Len(call.parts) < Len(f.parts)
             /\ f.sum + call.times * Count[call.parts] \in Nat
             /\ FrameOK([parts |-> f.parts, done |-> f.done + 1,
                         sum |-> f.sum + call.times * Count[call.parts]])
<1> DEFINE v == f.parts
           i == f.done + 1
           call == Calls[v][i]
<1>1. /\ v \in Vectors /\ Len(v) > 1
      /\ f.done \in 0..Len(Calls[v]) /\ f.sum = Sums[v][f.done]
  BY DEF FrameOK
<1>2. /\ Calls[v] \in Seq(CallRecords)
      /\ \A j \in 1..Len(Calls[v]) : Len(Calls[v][j].parts) < Len(v)
      /\ Sums[v] \in [0..Len(Calls[v]) -> Nat]
      /\ \A j \in 1..Len(Calls[v]) :
            Sums[v][j] = Sums[v][j - 1] + Calls[v][j].times * Count[Calls[v][j].parts]
  BY <1>1, OrientationAssumption DEF CallRecords
<1>3. Len(Calls[v]) \in Nat
  BY <1>2
<1>4. i \in 1..Len(Calls[v]) /\ i - 1 = f.done /\ i \in 0..Len(Calls[v])
  BY <1>1, <1>3
<1>5. call \in CallRecords
  BY <1>2, <1>4, ElementOf
<1>6. Sums[v][i] = f.sum + call.times * Count[call.parts]
  BY <1>1, <1>2, <1>4
<1>7. Sums[v][i] \in Nat
  BY <1>2, <1>4
<1>8. Len(call.parts) < Len(v)
  BY <1>2, <1>4
<1>9. FrameOK([parts |-> v, done |-> i, sum |-> Sums[v][i]])
  BY <1>1, <1>4 DEF FrameOK
<1>10. call.parts \in Vectors /\ call.times \in Nat
  BY <1>5 DEF CallRecords
<1> QED
  BY <1>6, <1>7, <1>8, <1>9, <1>10

LEMMA NewFrame ==
  ASSUME NEW v \in Vectors, Len(v) > 1
  PROVE  FrameOK([parts |-> v, done |-> 0, sum |-> 0])
<1>1. Calls[v] \in Seq(CallRecords) /\ Sums[v][0] = 0
  BY OrientationAssumption DEF CallRecords
<1>2. Len(Calls[v]) \in Nat
  BY <1>1
<1>3. 0 \in 0..Len(Calls[v])
  BY <1>2
<1> QED
  BY <1>1, <1>3 DEF FrameOK

\* A frame that is done with its calls has the number of orientations.
LEMMA DoneFrame ==
  ASSUME NEW f, FrameOK(f), ~(f.done < Len(Calls[f.parts]))
  PROVE  f.sum = Count[f.parts]
<1>1. /\ f.parts \in Vectors /\ Len(f.parts) > 1
      /\ f.done \in 0..Len(Calls[f.parts]) /\ f.sum = Sums[f.parts][f.done]
  BY DEF FrameOK
<1>2. /\ Calls[f.parts] \in Seq(CallRecords)
      /\ Count[f.parts] = Sums[f.parts][Len(Calls[f.parts])]
  BY <1>1, OrientationAssumption DEF CallRecords
<1>3. Len(Calls[f.parts]) \in Nat
  BY <1>2
<1>4. f.done = Len(Calls[f.parts])
  BY <1>1, <1>3
<1> QED
  BY <1>1, <1>2, <1>4

-----------------------------------------------------------------------------
(* States                                                                  *)

\* At most one thread is between lock and unlock.
LEMMA OneInside ==
  ASSUME TypeOK, NEW t \in Threads, at[t] \in Inside
  PROVE  M = t /\ \A s \in Threads : at[s] \in Inside => s = t
BY DEF TypeOK

\* What the recursion takes from the map, or knows without it, is right.
LEMMA KnownValues ==
  ASSUME TypeOK, EntriesAreCounts, NEW t \in Threads, at[t] = "compute",
         NEW v \in Vectors, Known(v)
  PROVE  ValueOf(v) = Count[v]
<1>1. ~BeingAssigned(v)
  BY OneInside DEF BeingAssigned, Inside
<1>2. CASE v \in DOMAIN Cache
  BY <1>1, <1>2 DEF EntriesAreCounts, ValueOf
<1>3. CASE v \notin DOMAIN Cache
  BY <1>3, OrientationAssumption DEF Known, ValueOf
<1> QED
  BY <1>2, <1>3

LEMMA CountIsNat == ASSUME NEW v \in Vectors PROVE Count[v] \in Nat
BY OrientationAssumption

LEMMA ShortCounts == ASSUME NEW v \in Vectors, Len(v) <= 1 PROVE Count[v] = 1
BY OrientationAssumption

LEMMA InitIInv == ASSUME Init PROVE IInv
<1>1. \A v \in DOMAIN Cache : v \in Vectors /\ Cache[v] = Count[v]
  BY OrientationAssumption DEF Init
<1>2. PICK v \in Vectors : Len(v) = 1 /\ components = [t \in Threads |-> v]
  BY DEF Init
<1>3. Count[v] = 1
  BY <1>2, ShortCounts
<1>4. frames \in Seq([parts : Vectors, done : Nat, sum : Nat]) /\ Len(frames) = 0
  BY DEF Init
<1>5. TypeOK
  BY <1>1, <1>2, <1>4, CountIsNat, OrientationAssumption DEF Init, TypeOK, Inside
<1>6. FramesOK
  BY <1>4 DEF Init, FramesOK
<1>7. EntriesAreCounts
  BY <1>1 DEF Init, EntriesAreCounts, BeingAssigned
<1>8. AnswersAreCountsOrZero
  BY <1>2, <1>3 DEF Init, AnswersAreCountsOrZero
<1> QED
  BY <1>5, <1>6, <1>7, <1>8 DEF IInv

-----------------------------------------------------------------------------
(* Steps without the mutex leave the map and the frames alone.             *)

LEMMA OutsideStep ==
  ASSUME IInv, NEW t \in Threads,
         at[t] \notin Inside, at'[t] \notin Inside,
         at' = [at EXCEPT ![t] = at'[t]],
         UNCHANGED <<Cache, M, frames>>
  PROVE  /\ FramesOK' /\ EntriesAreCounts'
         /\ \A s \in Threads : at'[s] \in Inside <=> M' = s
<1>1. at \in [Threads -> {"idle", "find", "lock"} \cup Inside]
  BY DEF IInv, TypeOK
<1>2. \A s \in Threads : s # t => at'[s] = at[s]
  BY <1>1
<1>3. \A s \in Threads : at[s] \in {"grow", "assign"} <=> at'[s] \in {"grow", "assign"}
  BY <1>2 DEF Inside
<1>4. \A s \in Threads : at[s] = "assign" <=> at'[s] = "assign"
  BY <1>2 DEF Inside
<1>5. FramesOK'
  BY <1>3, <1>4 DEF IInv, FramesOK, CallsAreLeft, Top
<1>6. \A v : BeingAssigned(v)' <=> BeingAssigned(v)
  BY <1>4 DEF BeingAssigned, Top
<1>7. EntriesAreCounts'
  BY <1>6 DEF IInv, EntriesAreCounts
<1>8. \A s \in Threads : at'[s] \in Inside <=> M' = s
  BY <1>2 DEF IInv, TypeOK
<1> QED
  BY <1>5, <1>7, <1>8

-----------------------------------------------------------------------------
(* Steps with the mutex                                                    *)

\* What a thread that is computing finds: no element is being assigned, no
\* frame's vector is in the map, and the frame on top is as it should be.
LEMMA Computing ==
  ASSUME IInv, NEW t \in Threads, at[t] = "compute"
  PROVE  /\ M = t
         /\ \A s \in Threads : s # t => at[s] \notin Inside
         /\ \A s \in Threads : at[s] \notin {"grow", "assign"}
         /\ \A i \in 1..Len(frames) : frames[i].parts \notin DOMAIN Cache
         /\ \A v \in DOMAIN Cache : Cache[v] = Count[v]
<1>1. M = t /\ \A s \in Threads : at[s] \in Inside => s = t
  BY OneInside DEF IInv, Inside
<1>2. \A s \in Threads : at[s] \notin {"grow", "assign"}
  BY <1>1 DEF Inside
<1>3. \A v : ~BeingAssigned(v)
  BY <1>2 DEF BeingAssigned
<1> QED
  BY <1>1, <1>2, <1>3 DEF IInv, FramesOK, EntriesAreCounts

LEMMA FramesAreSeq ==
  ASSUME IInv
  PROVE  /\ frames \in Seq([parts : Vectors, done : Nat, sum : Nat])
         /\ Len(frames) \in Nat
         /\ \A i \in 1..Len(frames) :
               frames[i].parts \in Vectors /\ Len(frames[i].parts) \in Nat
<1>1. frames \in Seq([parts : Vectors, done : Nat, sum : Nat])
  BY DEF IInv, TypeOK
<1>2. \A i \in 1..Len(frames) : frames[i].parts \in Vectors
  BY DEF IInv, FramesOK, FrameOK
<1> QED
  BY <1>1, <1>2, LengthIsNat

LEMMA LockStep ==
  ASSUME IInv, NEW t \in Threads, Lock(t)
  PROVE  IInv'
<1> USE DEF Goto
<1>1. at \in [Threads -> {"idle", "find", "lock"} \cup Inside]
  BY DEF IInv, TypeOK
<1>2. /\ M = NoThread /\ M' = t /\ at' = [at EXCEPT ![t] = "compute"]
      /\ UNCHANGED <<Cache, components, frames, answer, broken>>
  BY DEF Lock
<1>3. NoThread \notin Threads
  BY OrientationAssumption
<1>4. \A s \in Threads : at[s] \notin Inside
  BY <1>2, <1>3 DEF IInv, TypeOK
<1>5. /\ \A s \in Threads : s # t => at'[s] = at[s]
      /\ at'[t] = "compute"
  BY <1>1, <1>2
<1>6. TypeOK'
  <2>1. at' \in [Threads -> {"idle", "find", "lock"} \cup Inside]
    BY <1>1, <1>2 DEF Inside
  <2>2. \A s \in Threads : at'[s] \in Inside <=> M' = s
    BY <1>2, <1>4, <1>5 DEF Inside
  <2> QED
    BY <1>2, <2>1, <2>2 DEF IInv, TypeOK
<1>7. \A s \in Threads : at'[s] \notin {"grow", "assign"} /\ at[s] # "assign"
  BY <1>4, <1>5 DEF Inside
<1>8. FramesOK'
  BY <1>2, <1>3, <1>7 DEF IInv, FramesOK
<1>9. EntriesAreCounts'
  BY <1>2, <1>7 DEF IInv, EntriesAreCounts, BeingAssigned
<1>10. AnswersAreCountsOrZero'
  BY <1>2, <1>5 DEF IInv, AnswersAreCountsOrZero
<1> QED
  BY <1>6, <1>8, <1>9, <1>10 DEF IInv

LEMMA DescendStep ==
  ASSUME IInv, NEW t \in Threads, Descend(t)
  PROVE  IInv'
<1> DEFINE L == Len(frames)
           v == IF frames = <<>> THEN components[t] ELSE NextCall.parts
<1>1. /\ at[t] = "compute" /\ UNCHANGED <<Cache, M, at, components, answer, broken>>
      /\ frames' = Append(frames, [parts |-> v, done |-> 0, sum |-> 0])
      /\ ~Known(v)
      /\ frames # <<>> => CallsAreLeft
  BY DEF Descend
<1>2. /\ frames \in Seq([parts : Vectors, done : Nat, sum : Nat]) /\ L \in Nat
      /\ \A i \in 1..L : frames[i].parts \in Vectors /\ Len(frames[i].parts) \in Nat
  BY FramesAreSeq
<1>3. v \in Vectors /\ (L > 0 => Len(v) < Len(frames[L].parts))
  <2>1. CASE frames = <<>>
    BY <2>1 DEF IInv, TypeOK
  <2>2. CASE frames # <<>>
    <3>1. L \in 1..L
      BY <1>2, <2>2
    <3>2. FrameOK(Top) /\ Top.done < Len(Calls[Top.parts])
      BY <1>1, <2>2, <3>1 DEF IInv, FramesOK, Top, CallsAreLeft
    <3> QED
      BY <2>2, <3>2, CallFacts DEF NextCall, Top
  <2> QED
    BY <2>1, <2>2
<1>4. v \notin DOMAIN Cache /\ Len(v) > 1 /\ Len(v) \in Nat
  BY <1>1, <1>3, LengthIsNat DEF Known
<1>5. FrameOK([parts |-> v, done |-> 0, sum |-> 0])
  BY <1>3, <1>4, NewFrame
<1> HIDE DEF v
<1>6. /\ frames' \in Seq([parts : Vectors, done : Nat, sum : Nat])
      /\ Len(frames') = L + 1
      /\ \A i \in 1..L : frames'[i] = frames[i]
      /\ frames'[L + 1] = [parts |-> v, done |-> 0, sum |-> 0]
  BY <1>1, <1>2, <1>3
<1> HIDE DEF L
<1>7. \A i \in 1..Len(frames') : i \in 1..L \/ i = L + 1
  BY <1>2, <1>6
<1>8. FramesOK'
  <2>1. \A i \in 1..Len(frames') : FrameOK(frames'[i])
    BY <1>5, <1>6, <1>7 DEF IInv, FramesOK, L
  <2>2. ASSUME NEW i \in 1..Len(frames'), NEW j \in 1..Len(frames'), i < j
        PROVE  Len(frames'[j].parts) < Len(frames'[i].parts)
    <3>1. CASE j \in 1..L
      <4>1. i \in 1..L
        BY <1>2, <2>2, <3>1
      <4> QED
        BY <1>6, <2>2, <3>1, <4>1 DEF IInv, FramesOK, L
    <3>2. CASE j = L + 1
      <4>1. i \in 1..L /\ L \in 1..L /\ L > 0 /\ (i = L \/ i < L)
        BY <1>2, <2>2, <3>2
      <4>2. i < L => Len(frames[L].parts) < Len(frames[i].parts)
        BY <4>1 DEF IInv, FramesOK, L
      <4>3. Len(v) < Len(frames[L].parts)
        BY <1>3, <4>1
      <4>4. /\ Len(v) \in Nat /\ Len(frames[L].parts) \in Nat
            /\ Len(frames[i].parts) \in Nat
        BY <1>2, <1>4, <4>1
      <4>5. Len(v) < Len(frames[i].parts)
        BY <4>1, <4>2, <4>3, <4>4
      <4> QED
        BY <1>6, <3>2, <4>1, <4>5
    <3> QED
      BY <1>7, <3>1, <3>2
  <2>3. \A i \in 1..Len(frames') : frames'[i].parts \notin DOMAIN Cache'
    BY <1>1, <1>4, <1>6, <1>7, Computing DEF L
  <2>4. /\ \A s \in Threads : at'[s] \notin {"grow", "assign"}
        /\ M' # NoThread
    BY <1>1, Computing, OrientationAssumption
  <2> QED
    BY <2>1, <2>2, <2>3, <2>4 DEF FramesOK
<1>9. TypeOK'
  BY <1>1, <1>6 DEF IInv, TypeOK
<1>10. EntriesAreCounts' /\ AnswersAreCountsOrZero'
  <2>1. \A s \in Threads : at'[s] # "assign"
    BY <1>1, Computing
  <2> QED
    BY <1>1, <2>1, Computing DEF IInv, EntriesAreCounts, BeingAssigned, AnswersAreCountsOrZero
<1> QED
  BY <1>8, <1>9, <1>10 DEF IInv

LEMMA AddStep ==
  ASSUME IInv, NEW t \in Threads, Add(t)
  PROVE  IInv'
<1> DEFINE L == Len(frames)
           new == [parts |-> Top.parts, done |-> Top.done + 1,
                   sum |-> Top.sum + NextCall.times * Count[NextCall.parts]]
<1>1. /\ at[t] = "compute" /\ UNCHANGED <<Cache, M, at, components, answer, broken>>
      /\ frames # <<>> /\ CallsAreLeft /\ Known(NextCall.parts)
  BY DEF Add, HasReturned
<1>2. /\ frames \in Seq([parts : Vectors, done : Nat, sum : Nat]) /\ L \in Nat
  BY FramesAreSeq
<1>3. L \in 1..L
  BY <1>1, <1>2
<1>4. FrameOK(Top) /\ Top.done < Len(Calls[Top.parts]) /\ Top = frames[L]
  BY <1>1, <1>3 DEF IInv, FramesOK, Top, CallsAreLeft
<1>5. NextCall.parts \in Vectors /\ FrameOK(new) /\ new.sum \in Nat
  BY <1>4, CallFacts DEF NextCall
<1>6. ValueOf(NextCall.parts) = Count[NextCall.parts]
  BY <1>1, <1>5, KnownValues DEF IInv
<1>7. frames' = [frames EXCEPT ![L] = new]
  BY <1>6 DEF Add, HasReturned
<1>8. Top \in [parts : Vectors, done : Nat, sum : Nat]
  BY <1>2, <1>3, ElementOf DEF Top
<1>9. new \in [parts : Vectors, done : Nat, sum : Nat] /\ new.parts = frames[L].parts
  BY <1>4, <1>5, <1>8
<1> HIDE DEF new
<1>10. /\ frames' \in Seq([parts : Vectors, done : Nat, sum : Nat])
       /\ Len(frames') = L /\ frames'[L] = new
       /\ \A i \in 1..L : i # L => frames'[i] = frames[i]
  BY <1>2, <1>3, <1>7, <1>9
<1> HIDE DEF L
<1>11. \A i \in 1..L : frames'[i].parts = frames[i].parts
  BY <1>9, <1>10
<1>12. FramesOK'
  <2>1. \A i \in 1..L : FrameOK(frames'[i])
    BY <1>5, <1>10 DEF IInv, FramesOK, L
  <2>2. \A s \in Threads : at'[s] \notin {"grow", "assign"}
    BY <1>1, Computing
  <2>3. M' # NoThread
    BY <1>1, Computing, OrientationAssumption
  <2>4. \A i \in 1..L : frames'[i].parts \notin DOMAIN Cache'
    BY <1>1, <1>11, Computing DEF L
  <2>5. \A i \in 1..L, j \in 1..L :
           i < j => Len(frames'[j].parts) < Len(frames'[i].parts)
    BY <1>11 DEF IInv, FramesOK, L
  <2> QED
    BY <1>10, <2>1, <2>2, <2>3, <2>4, <2>5 DEF FramesOK
<1>13. TypeOK'
  BY <1>1, <1>10 DEF IInv, TypeOK
<1>14. EntriesAreCounts' /\ AnswersAreCountsOrZero'
  <2>1. \A s \in Threads : at'[s] # "assign"
    BY <1>1, Computing
  <2> QED
    BY <1>1, <2>1, Computing DEF IInv, EntriesAreCounts, BeingAssigned, AnswersAreCountsOrZero
<1> QED
  BY <1>12, <1>13, <1>14 DEF IInv

LEMMA GrowStep ==
  ASSUME IInv, NEW t \in Threads, Grow(t)
  PROVE  IInv'
<1>1. /\ at[t] = "compute" /\ at' = [at EXCEPT ![t] = "grow"]
      /\ frames # <<>> /\ ~CallsAreLeft
      /\ UNCHANGED <<Cache, M, components, frames, answer, broken>>
  BY DEF Grow, Goto
<1>2. at \in [Threads -> {"idle", "find", "lock"} \cup Inside]
  BY DEF IInv, TypeOK
<1>3. /\ at'[t] = "grow" /\ \A s \in Threads : s # t => at'[s] = at[s]
      /\ at' \in [Threads -> {"idle", "find", "lock"} \cup Inside]
  BY <1>1, <1>2 DEF Inside
<1>4. M = t /\ \A s \in Threads : s # t => at[s] \notin Inside
  BY <1>1, Computing
<1>5. TypeOK'
  <2>1. \A s \in Threads : at'[s] \in Inside <=> M' = s
    BY <1>1, <1>3, <1>4 DEF Inside
  <2> QED
    BY <1>1, <1>3, <2>1 DEF IInv, TypeOK
<1>6. \A s \in Threads : at'[s] # "assign"
  BY <1>3, <1>4 DEF Inside
<1>7. FramesOK'
  <2>1. Len(frames) > 0
    BY <1>1, FramesAreSeq
  <2>2. ~CallsAreLeft'
    BY <1>1 DEF CallsAreLeft, Top
  <2>3. \A i \in 1..Len(frames) : frames[i].parts \notin DOMAIN Cache
    BY <1>1, Computing
  <2>4. M' # NoThread
    BY <1>1, <1>4, OrientationAssumption
  <2> QED
    BY <1>1, <2>1, <2>2, <2>3, <2>4 DEF IInv, FramesOK
<1>8. EntriesAreCounts'
  BY <1>1, <1>6, Computing DEF EntriesAreCounts, BeingAssigned
<1>9. AnswersAreCountsOrZero'
  BY <1>1, <1>3 DEF IInv, AnswersAreCountsOrZero
<1> QED
  BY <1>5, <1>7, <1>8, <1>9 DEF IInv

LEMMA InsertStep ==
  ASSUME IInv, NEW t \in Threads, Insert(t)
  PROVE  IInv'
<1> DEFINE L == Len(frames)
           v == Top.parts
<1>1. /\ at[t] \in {"compute", "grow"} /\ at' = [at EXCEPT ![t] = "assign"]
      /\ frames # <<>> /\ ~CallsAreLeft
      /\ Cache' = [w \in DOMAIN Cache \cup {v} |->
                      IF w \in DOMAIN Cache THEN Cache[w] ELSE 0]
      /\ UNCHANGED <<M, components, frames, answer, broken>>
  BY DEF Insert, Goto
<1>2. at \in [Threads -> {"idle", "find", "lock"} \cup Inside]
  BY DEF IInv, TypeOK
<1>3. /\ at'[t] = "assign" /\ \A s \in Threads : s # t => at'[s] = at[s]
      /\ at' \in [Threads -> {"idle", "find", "lock"} \cup Inside]
  BY <1>1, <1>2 DEF Inside
<1>4. M = t /\ \A s \in Threads : s # t => at[s] \notin Inside
  BY <1>1, OneInside DEF IInv, Inside
<1>5. \A s \in Threads : at[s] # "assign"
  BY <1>1, <1>4 DEF Inside
<1>6. L \in Nat /\ L > 0 /\ L \in 1..L
  BY <1>1, FramesAreSeq
<1>7. /\ \A i \in 1..L : frames[i].parts \notin DOMAIN Cache
      /\ v = frames[L].parts /\ v \in Vectors
  BY <1>5, <1>6, FramesAreSeq DEF IInv, FramesOK, Top
<1>8. DOMAIN Cache' = DOMAIN Cache \cup {v} /\ Cache'[v] = 0
      /\ \A w \in DOMAIN Cache : w # v /\ Cache'[w] = Cache[w] /\ Cache[w] = Count[w]
  <2>1. v \notin DOMAIN Cache
    BY <1>6, <1>7
  <2>2. \A w \in DOMAIN Cache : Cache[w] = Count[w]
    BY <1>5 DEF IInv, EntriesAreCounts, BeingAssigned
  <2> QED
    BY <1>1, <2>1, <2>2
<1> HIDE DEF v, L
<1>9. TypeOK'
  <2>1. \A s \in Threads : at'[s] \in Inside <=> M' = s
    BY <1>1, <1>3, <1>4 DEF Inside
  <2>2. DOMAIN Cache' \subseteq Vectors /\ \A w \in DOMAIN Cache' : Cache'[w] \in Nat
    BY <1>7, <1>8 DEF IInv, TypeOK
  <2> QED
    BY <1>1, <1>3, <2>1, <2>2 DEF IInv, TypeOK
<1>10. Top' = Top /\ (CallsAreLeft' <=> CallsAreLeft)
  BY <1>1 DEF Top, CallsAreLeft
<1>11. FramesOK'
  <2>1. \A i \in 1..L : frames[i].parts \in DOMAIN Cache' => i = L
    <3>1. ASSUME NEW i \in 1..L, frames[i].parts = v, i # L
          PROVE  FALSE
      <4>1. Len(frames[L].parts) < Len(frames[i].parts)
        BY <1>6, <3>1 DEF IInv, FramesOK, L
      <4>2. Len(frames[L].parts) \in Nat
        BY <1>6, FramesAreSeq DEF L
      <4> QED
        BY <1>7, <3>1, <4>1, <4>2
    <3> QED
      BY <1>7, <1>8, <3>1
  <2>2. M' # NoThread
    BY <1>1, <1>4, OrientationAssumption
  <2> QED
    BY <1>1, <1>3, <1>6, <1>10, <2>1, <2>2 DEF IInv, FramesOK, L
<1>12. EntriesAreCounts'
  <2>1. \A w : BeingAssigned(w)' <=> w = v
    BY <1>1, <1>3, <1>10 DEF BeingAssigned, v
  <2> QED
    BY <1>8, <2>1 DEF EntriesAreCounts
<1>13. AnswersAreCountsOrZero'
  BY <1>1, <1>3 DEF IInv, AnswersAreCountsOrZero
<1> QED
  BY <1>9, <1>11, <1>12, <1>13 DEF IInv

LEMMA AssignStep ==
  ASSUME IInv, NEW t \in Threads, Assign(t)
  PROVE  IInv'
<1> DEFINE L == Len(frames)
           v == Top.parts
<1>1. /\ at[t] = "assign" /\ at' = [at EXCEPT ![t] = "compute"]
      /\ Cache' = [Cache EXCEPT ![v] = Top.sum]
      /\ frames' = SubSeq(frames, 1, L - 1)
      /\ UNCHANGED <<M, components, answer, broken>>
  BY DEF Assign, Goto
<1>2. at \in [Threads -> {"idle", "find", "lock"} \cup Inside]
  BY DEF IInv, TypeOK
<1>3. /\ at'[t] = "compute" /\ \A s \in Threads : s # t => at'[s] = at[s]
      /\ at' \in [Threads -> {"idle", "find", "lock"} \cup Inside]
  BY <1>1, <1>2 DEF Inside
<1>4. M = t /\ \A s \in Threads : s # t => at[s] \notin Inside
  BY <1>1, OneInside DEF IInv, Inside
<1>5. \A s \in Threads : at'[s] \notin {"grow", "assign"}
  BY <1>3, <1>4 DEF Inside
<1>6. L \in Nat /\ L > 0 /\ ~CallsAreLeft
  BY <1>1, FramesAreSeq DEF IInv, FramesOK
<1>7. L \in 1..L /\ FrameOK(Top) /\ Top = frames[L]
  BY <1>6 DEF IInv, FramesOK, Top
<1>8. Top.sum = Count[v] /\ v \in Vectors
  BY <1>6, <1>7, DoneFrame DEF CallsAreLeft, FrameOK
<1>9. /\ DOMAIN Cache' = DOMAIN Cache
      /\ \A w \in DOMAIN Cache : Cache'[w] = IF w = v THEN Count[v] ELSE Cache[w]
  BY <1>1, <1>8
<1>10. \A w \in DOMAIN Cache : Cache'[w] = Count[w]
  <2>1. \A w \in DOMAIN Cache : w # v => ~BeingAssigned(w)
    BY DEF BeingAssigned
  <2> QED
    BY <1>9, <2>1 DEF IInv, EntriesAreCounts
<1>11. /\ frames' \in Seq([parts : Vectors, done : Nat, sum : Nat])
       /\ Len(frames') = L - 1
       /\ \A i \in 1..(L - 1) : frames'[i] = frames[i] /\ i \in 1..L /\ i # L
  BY <1>1, <1>6, FramesAreSeq, AllButLast
<1> HIDE DEF v, L
<1>12. TypeOK'
  <2>1. \A s \in Threads : at'[s] \in Inside <=> M' = s
    BY <1>1, <1>3, <1>4 DEF Inside
  <2>2. DOMAIN Cache' \subseteq Vectors /\ \A w \in DOMAIN Cache' : Cache'[w] \in Nat
    BY <1>9, <1>10, CountIsNat DEF IInv, TypeOK
  <2> QED
    BY <1>1, <1>3, <1>11, <2>1, <2>2 DEF IInv, TypeOK
<1>13. FramesOK'
  <2>1. \A i \in 1..(L - 1) : frames'[i].parts \notin DOMAIN Cache'
    BY <1>9, <1>11 DEF IInv, FramesOK, L
  <2>2. M' # NoThread
    BY <1>1, <1>4, OrientationAssumption
  <2>3. \A i \in 1..(L - 1) : FrameOK(frames'[i])
    BY <1>11 DEF IInv, FramesOK, L
  <2>4. \A i \in 1..(L - 1), j \in 1..(L - 1) :
           i < j => Len(frames'[j].parts) < Len(frames'[i].parts)
    BY <1>11 DEF IInv, FramesOK, L
  <2> QED
    BY <1>5, <1>11, <2>1, <2>2, <2>3, <2>4 DEF FramesOK
<1>14. EntriesAreCounts'
  BY <1>5, <1>9, <1>10 DEF EntriesAreCounts, BeingAssigned
<1>15. AnswersAreCountsOrZero'
  BY <1>1, <1>3 DEF IInv, AnswersAreCountsOrZero
<1> QED
  BY <1>12, <1>13, <1>14, <1>15 DEF IInv

LEMMA UnlockStep ==
  ASSUME IInv, NEW t \in Threads, Unlock(t)
  PROVE  IInv' /\ answer'[t] = Count[components[t]]
<1>1. /\ at[t] = "compute" /\ at' = [at EXCEPT ![t] = "idle"]
      /\ frames = <<>> /\ Known(components[t]) /\ M' = NoThread
      /\ answer' = [answer EXCEPT ![t] = ValueOf(components[t])]
      /\ UNCHANGED <<Cache, components, frames, broken>>
  BY DEF Unlock, Goto
<1>2. /\ at \in [Threads -> {"idle", "find", "lock"} \cup Inside]
      /\ answer \in [Threads -> Nat] /\ components[t] \in Vectors
  BY DEF IInv, TypeOK
<1>3. /\ at'[t] = "idle" /\ \A s \in Threads : s # t => at'[s] = at[s]
      /\ at' \in [Threads -> {"idle", "find", "lock"} \cup Inside]
  BY <1>1, <1>2
<1>4. M = t /\ \A s \in Threads : s # t => at[s] \notin Inside
  BY <1>1, Computing
<1>5. ValueOf(components[t]) = Count[components[t]]
  BY <1>1, <1>2, KnownValues DEF IInv
<1>6. answer'[t] = Count[components[t]]
  BY <1>1, <1>2, <1>5
<1>7. \A s \in Threads : at'[s] \notin Inside
  BY <1>3, <1>4 DEF Inside
<1>8. TypeOK'
  <2>1. answer' \in [Threads -> Nat]
    BY <1>1, <1>2, <1>5, CountIsNat
  <2>2. M' = NoThread /\ NoThread \notin Threads
    BY <1>1, OrientationAssumption
  <2> QED
    BY <1>1, <1>3, <1>7, <2>1, <2>2 DEF IInv, TypeOK
<1>9. FramesOK'
  BY <1>1, <1>7 DEF FramesOK, Inside
<1>10. EntriesAreCounts'
  BY <1>1, <1>7, Computing DEF EntriesAreCounts, BeingAssigned, Inside
<1>11. AnswersAreCountsOrZero'
  <2>1. \A s \in Threads : s # t => answer'[s] = answer[s]
    BY <1>1, <1>2
  <2> QED
    BY <1>1, <1>3, <1>6, <2>1 DEF IInv, AnswersAreCountsOrZero
<1> QED
  BY <1>6, <1>8, <1>9, <1>10, <1>11 DEF IInv

-----------------------------------------------------------------------------
(* The theorems                                                            *)

LEMMA NextIInv ==
  ASSUME IInv, [Next]_vars
  PROVE  IInv'
<1>0. /\ at \in [Threads -> {"idle", "find", "lock"} \cup Inside]
      /\ components \in [Threads -> Vectors] /\ answer \in [Threads -> Nat]
  BY DEF IInv, TypeOK
<1> USE DEF Goto
<1>1. ASSUME NEW t \in Threads, NEW v \in Vectors, Call(t, v)
      PROVE  IInv'
  <2>1. /\ at[t] = "idle" /\ at' = [at EXCEPT ![t] = "find"]
        /\ components' = [components EXCEPT ![t] = v]
        /\ UNCHANGED <<Cache, M, frames, answer, broken>>
    BY <1>1 DEF Call, Free
  <2>2. /\ at'[t] = "find" /\ components' \in [Threads -> Vectors]
        /\ at' \in [Threads -> {"idle", "find", "lock"} \cup Inside]
        /\ \A s \in Threads : s # t =>
              at'[s] = at[s] /\ components'[s] = components[s]
    BY <1>0, <2>1
  <2>3. /\ FramesOK' /\ EntriesAreCounts'
        /\ \A s \in Threads : at'[s] \in Inside <=> M' = s
    BY <2>1, <2>2, OutsideStep DEF Inside
  <2>4. AnswersAreCountsOrZero'
    BY <2>1, <2>2 DEF IInv, AnswersAreCountsOrZero
  <2> QED
    BY <2>1, <2>2, <2>3, <2>4 DEF IInv, TypeOK
<1>2. ASSUME NEW t \in Threads, FindHits(t)
      PROVE  IInv'
  <2>1. /\ at[t] = "find" /\ at' = [at EXCEPT ![t] = "idle"]
        /\ components[t] \in DOMAIN Cache
        /\ answer' = [answer EXCEPT ![t] = Cache[components[t]]]
        /\ UNCHANGED <<Cache, M, components, frames, broken>>
    BY <1>2 DEF FindHits
  <2>2. Cache[components[t]] \in {0, Count[components[t]]}
    BY <2>1 DEF IInv, EntriesAreCounts
  <2>3. Cache[components[t]] \in Nat
    BY <2>1 DEF IInv, TypeOK
  <2>4. /\ at'[t] = "idle" /\ answer' \in [Threads -> Nat]
        /\ at' \in [Threads -> {"idle", "find", "lock"} \cup Inside]
        /\ answer'[t] = Cache[components[t]]
        /\ \A s \in Threads : s # t => at'[s] = at[s] /\ answer'[s] = answer[s]
    BY <1>0, <2>1, <2>3
  <2>5. /\ FramesOK' /\ EntriesAreCounts'
        /\ \A s \in Threads : at'[s] \in Inside <=> M' = s
    BY <2>1, <2>4, OutsideStep DEF Inside
  <2>6. AnswersAreCountsOrZero'
    BY <2>1, <2>2, <2>4 DEF IInv, AnswersAreCountsOrZero
  <2> QED
    BY <2>1, <2>4, <2>5, <2>6 DEF IInv, TypeOK
<1>3. ASSUME NEW t \in Threads, FindMisses(t)
      PROVE  IInv'
  <2>1. /\ at[t] = "find" /\ at' = [at EXCEPT ![t] = "lock"]
        /\ UNCHANGED <<Cache, M, components, frames, answer, broken>>
    BY <1>3 DEF FindMisses
  <2>2. /\ at'[t] = "lock"
        /\ at' \in [Threads -> {"idle", "find", "lock"} \cup Inside]
        /\ \A s \in Threads : s # t => at'[s] = at[s]
    BY <1>0, <2>1
  <2>3. /\ FramesOK' /\ EntriesAreCounts'
        /\ \A s \in Threads : at'[s] \in Inside <=> M' = s
    BY <2>1, <2>2, OutsideStep DEF Inside
  <2>4. AnswersAreCountsOrZero'
    BY <2>1, <2>2 DEF IInv, AnswersAreCountsOrZero
  <2> QED
    BY <2>1, <2>2, <2>3, <2>4 DEF IInv, TypeOK
<1>4. ASSUME NEW t \in Threads, FindBreaks(t)
      PROVE  IInv'
  BY <1>4 DEF FindBreaks, IInv, TypeOK, FramesOK, CallsAreLeft, Top,
              EntriesAreCounts, BeingAssigned, AnswersAreCountsOrZero
<1>5. CASE UNCHANGED vars
  BY <1>5 DEF vars, IInv, TypeOK, FramesOK, CallsAreLeft, Top,
              EntriesAreCounts, BeingAssigned, AnswersAreCountsOrZero
<1> QED
  BY <1>1, <1>2, <1>3, <1>4, <1>5, LockStep, DescendStep, AddStep, GrowStep,
     InsertStep, AssignStep, UnlockStep DEF Next, Proceed

\* The map has the number of acyclic orientations for every key but the one
\* that is being assigned to, and a call returns that number, or the zero of
\* such a key when it looked without the mutex.
THEOREM OrientationInvariance ==
  Spec => [](TypeOK /\ EntriesAreCounts /\ AnswersAreCountsOrZero)
<1>1. Init => IInv
  BY InitIInv
<1>2. IInv /\ [Next]_vars => IInv'
  BY NextIInv
<1>3. IInv => TypeOK /\ EntriesAreCounts /\ AnswersAreCountsOrZero
  BY DEF IInv
<1> QED
  BY <1>1, <1>2, <1>3, PTL DEF Spec

\* A call that took the mutex returns the number of acyclic orientations.
THEOREM LockedCallsAreRight == Spec => LockedAnswersAreCounts
<1>1. Init => IInv
  BY InitIInv
<1>2. IInv /\ [Next]_vars => IInv'
  BY NextIInv
<1>3. IInv /\ [Next]_vars =>
        [\A t \in Threads : Unlock(t) => answer'[t] = Count[components[t]]]_vars
  BY UnlockStep
<1> QED
  BY <1>1, <1>2, <1>3, PTL DEF Spec, LockedAnswersAreCounts

-----------------------------------------------------------------------------
(* The shared graph.  The argument does not need the counter to be right,  *)
(* which it is not: no thread computes the number of acyclic orientations  *)
(* of the shared graph, because main has done so or nobody asks.  The      *)
(* other invariants are computed without shared state, so that a field     *)
(* only ever changes from zero to the value that all threads compute.      *)

Filled(t) == field[wanted[t]] = Truth(wanted[t])

SharedInv ==
    /\ task \in [Threads -> {"none", "compute", "return"}]
    /\ wanted \in [Threads -> Invariants]
    /\ DOMAIN returned = Threads
    /\ DOMAIN field = Invariants
    /\ warm => field[Acyclic] = Truth(Acyclic)
    /\ \A t \in Threads :
          /\ task[t] = "compute" => wanted[t] # Acyclic
          /\ task[t] = "return" => Filled(t)

GraphIInv == SharedInv /\ FieldsAreRightOrZero /\ SharedAnswersAreRight

LEMMA CountIsPositive == Truth(Acyclic) # 0
<1>1. Count[Components] \in Nat \ {0}
  BY OrientationAssumption, SharedGraphAssumption
<1> QED
  BY <1>1 DEF Truth

LEMMA InitGraph == ASSUME SharedInit PROVE GraphIInv
<1> USE DEF SharedInit
<1>1. Acyclic \in Invariants
  BY DEF Invariants
<1>2. SharedInv
  BY <1>1 DEF SharedInv
<1>3. FieldsAreRightOrZero
  BY DEF FieldsAreRightOrZero
<1>4. SharedAnswersAreRight
  BY <1>1 DEF SharedAnswersAreRight, Truth
<1> QED
  BY <1>2, <1>3, <1>4 DEF GraphIInv

LEMMA NextGraph ==
  ASSUME GraphIInv, [SharedNext]_sharedVars
  PROVE  GraphIInv'
<1>0. /\ task \in [Threads -> {"none", "compute", "return"}]
      /\ wanted \in [Threads -> Invariants]
      /\ DOMAIN returned = Threads /\ DOMAIN field = Invariants
  BY DEF GraphIInv, SharedInv
<1>1. ASSUME NEW t \in Threads, NEW f \in Invariants, Ask(t, f)
      PROVE  GraphIInv'
  <2>1. /\ task[t] = "none" /\ (warm \/ f = "Pt")
        /\ wanted' = [wanted EXCEPT ![t] = f]
        /\ \/ field[f] # 0 /\ task' = [task EXCEPT ![t] = "return"]
           \/ field[f] = 0 /\ task' = [task EXCEPT ![t] = "compute"]
        /\ UNCHANGED <<warm, field, returned>>
    BY <1>1 DEF Ask
  <2>2. /\ wanted'[t] = f /\ task'[t] \in {"compute", "return"}
        /\ wanted' \in [Threads -> Invariants]
        /\ task' \in [Threads -> {"none", "compute", "return"}]
        /\ \A s \in Threads : s # t => wanted'[s] = wanted[s] /\ task'[s] = task[s]
    BY <1>0, <2>1
  <2>3. task'[t] = "return" => field[f] # 0
    BY <1>0, <2>1
  <2>4. task'[t] = "return" => Filled(t)'
    BY <2>1, <2>2, <2>3 DEF GraphIInv, FieldsAreRightOrZero, Filled
  <2>5. task'[t] = "compute" => f # Acyclic
    <3>1. f = Acyclic => warm
      BY <2>1, SharedGraphAssumption DEF Acyclic
    <3>2. task'[t] = "compute" => field[f] = 0
      BY <1>0, <2>1
    <3> QED
      BY <3>1, <3>2, CountIsPositive DEF GraphIInv, SharedInv
  <2>6. SharedInv'
    BY <2>1, <2>2, <2>4, <2>5 DEF GraphIInv, SharedInv, Filled
  <2>7. FieldsAreRightOrZero'
    BY <2>1 DEF GraphIInv, FieldsAreRightOrZero
  <2>8. SharedAnswersAreRight'
    BY <2>1, <2>2 DEF GraphIInv, SharedAnswersAreRight
  <2> QED
    BY <2>6, <2>7, <2>8 DEF GraphIInv
<1>2. ASSUME NEW t \in Threads, Store(t)
      PROVE  GraphIInv'
  <2> DEFINE f == wanted[t]
  <2>1. /\ task[t] = "compute" /\ f \in Invariants /\ f # Acyclic
        /\ task' = [task EXCEPT ![t] = "return"]
        /\ field' = [field EXCEPT ![f] = Truth(f)]
        /\ UNCHANGED <<warm, wanted, returned>>
    BY <1>0, <1>2 DEF Store, NewField, Computed, Truth, GraphIInv, SharedInv
  <2>2. /\ task'[t] = "return"
        /\ task' \in [Threads -> {"none", "compute", "return"}]
        /\ \A s \in Threads : s # t => task'[s] = task[s]
    BY <1>0, <2>1
  <2>3. /\ DOMAIN field' = Invariants /\ field'[f] = Truth(f)
        /\ \A g \in Invariants : g # f => field'[g] = field[g]
    BY <1>0, <2>1
  <2> HIDE DEF f
  <2>4. ASSUME NEW s \in Threads, task'[s] = "return"
        PROVE  Filled(s)'
    <3>1. CASE wanted[s] = f
      BY <2>1, <2>3, <3>1 DEF Filled
    <3>2. CASE wanted[s] # f
      <4>1. s # t /\ wanted[s] \in Invariants
        BY <1>0, <3>2 DEF f
      <4>2. Filled(s)
        BY <2>2, <2>4, <4>1 DEF GraphIInv, SharedInv
      <4> QED
        BY <2>1, <2>3, <3>2, <4>1, <4>2 DEF Filled
    <3> QED
      BY <3>1, <3>2
  <2>5. SharedInv'
    <3>1. \A s \in Threads : task'[s] = "compute" => wanted'[s] # Acyclic
      BY <2>1, <2>2 DEF GraphIInv, SharedInv
    <3>2. warm' => field'[Acyclic] = Truth(Acyclic)
      BY <2>1, <2>3 DEF GraphIInv, SharedInv, Invariants
    <3> QED
      BY <1>0, <2>1, <2>2, <2>3, <2>4, <3>1, <3>2 DEF GraphIInv, SharedInv
  <2>6. FieldsAreRightOrZero'
    BY <2>3 DEF GraphIInv, FieldsAreRightOrZero
  <2>7. SharedAnswersAreRight'
    BY <2>1, <2>2 DEF GraphIInv, SharedAnswersAreRight
  <2> QED
    BY <2>5, <2>6, <2>7 DEF GraphIInv
<1>3. ASSUME NEW t \in Threads, Return(t)
      PROVE  GraphIInv'
  <2>1. /\ task[t] = "return" /\ task' = [task EXCEPT ![t] = "none"]
        /\ returned' = [returned EXCEPT ![t] = field[wanted[t]]]
        /\ UNCHANGED <<warm, field, wanted>>
    BY <1>3 DEF Return
  <2>2. /\ returned'[t] = Truth(wanted[t]) /\ DOMAIN returned' = Threads
        /\ task' \in [Threads -> {"none", "compute", "return"}]
        /\ task'[t] = "none"
        /\ \A s \in Threads : s # t =>
              task'[s] = task[s] /\ returned'[s] = returned[s]
    BY <1>0, <2>1 DEF GraphIInv, SharedInv, Filled
  <2>3. SharedInv'
    BY <2>1, <2>2 DEF GraphIInv, SharedInv, Filled
  <2>4. FieldsAreRightOrZero'
    BY <2>1 DEF GraphIInv, FieldsAreRightOrZero
  <2>5. SharedAnswersAreRight'
    BY <2>1, <2>2 DEF GraphIInv, SharedAnswersAreRight
  <2> QED
    BY <2>3, <2>4, <2>5 DEF GraphIInv
<1>4. CASE UNCHANGED graphVars
  BY <1>4 DEF graphVars, GraphIInv, SharedInv, Filled, FieldsAreRightOrZero,
              SharedAnswersAreRight
<1> QED
  BY <1>1, <1>2, <1>3, <1>4 DEF SharedNext, Work, AskPrivate, sharedVars

-----------------------------------------------------------------------------
(* Composition: a step of SharedCaches is a step of one cache and a        *)
(* stutter of the others, so that what is proved of each cache alone holds *)
(* of all of them together.  That the counter asks for coefficients within *)
(* the bounds of BinomialCache takes its own invariant about the frames.   *)

\* A step of the shared graph, seen from the counter.
LEMMA CounterStep == ASSUME [SharedNext]_sharedVars PROVE [Next]_vars
<1>1. ASSUME NEW t \in Threads, NEW f \in Invariants, Ask(t, f)
      PROVE  [Next]_vars
  <2>1. UNCHANGED vars \/ Call(t, Components)
    BY <1>1 DEF Ask
  <2> QED
    BY <2>1, SharedGraphAssumption DEF Next
<1> QED
  BY <1>1, SharedGraphAssumption
     DEF SharedNext, Work, Store, Return, AskPrivate, Next, sharedVars

\* The counter asks for the coefficients that its recursion needs.
OwedOK == owed \in Seq(Pairs)

LEMMA OwedStep ==
  ASSUME IInv, OwedOK, NEW t \in Threads, WorkOn(t)
  PROVE  OwedOK'
<1>1. CASE HasReturned(t)
  <2>1. at[t] = "compute" /\ frames # <<>> /\ CallsAreLeft
    BY <1>1 DEF HasReturned
  <2>2. frames \in Seq([parts : Vectors, done : Nat, sum : Nat])
        /\ Len(frames) \in Nat
    BY FramesAreSeq
  <2>3. Len(frames) \in 1..Len(frames)
    BY <2>1, <2>2
  <2>4. FrameOK(Top) /\ Top.done < Len(Calls[Top.parts])
    BY <2>1, <2>3 DEF IInv, FramesOK, Top, CallsAreLeft
  <2>5. /\ Top.parts \in Vectors /\ Len(Top.parts) > 1
        /\ Top.done \in 0..Len(Calls[Top.parts])
    BY <2>4 DEF FrameOK
  <2>6. Calls[Top.parts] \in Seq(CallRecords)
    BY <2>5, OrientationAssumption DEF CallRecords
  <2>7. Top.done + 1 \in DOMAIN Calls[Top.parts]
    BY <2>4, <2>5, <2>6
  <2>8. NextCall.asks \in Seq(Pairs)
    BY <2>5, <2>7, AsksAssumption DEF NextCall
  <2> QED
    BY <1>1, <2>8 DEF WorkOn, OwedOK
<1>2. CASE ~HasReturned(t)
  BY <1>2 DEF WorkOn, OwedOK
<1> QED
  BY <1>1, <1>2

LEMMA CachesStep ==
  ASSUME IInv, OwedOK, [CachesNext]_allVars
  PROVE  /\ [SharedNext]_sharedVars
         /\ [Factorial!Next]_(Factorial!vars)
         /\ [Binomial!Next]_(Binomial!vars)
         /\ OwedOK'
<1> DEFINE Goal ==
        /\ [SharedNext]_sharedVars
        /\ [Factorial!Next]_(Factorial!vars)
        /\ [Binomial!Next]_(Binomial!vars)
        /\ OwedOK'
<1> USE DEF factorialVars, binomialVars, Factorial!vars, Binomial!vars
<1>1. ASSUME NEW t \in Threads, Begin(t)
      PROVE  Goal
  <2>1. OwedOK'
    BY <1>1 DEF Begin, OwedOK
  <2>2. Private \subseteq Vectors
    BY SharedGraphAssumption
  <2> QED
    BY <1>1, <2>1, <2>2 DEF Begin, SharedNext, Factorial!Next, Binomial!Next
<1>2. ASSUME NEW t \in Threads, WorkOn(t)
      PROVE  Goal
  <2>1. OwedOK'
    BY <1>2, OwedStep
  <2> QED
    BY <1>2, <2>1 DEF WorkOn, SharedNext
<1>3. ASSUME NEW t \in Threads, AskCoefficient(t)
      PROVE  Goal
  <2>1. Head(owed) \in Pairs /\ Tail(owed) \in Seq(Pairs)
    BY <1>3 DEF AskCoefficient, OwedOK
  <2>2. Binomial!Next
    BY <1>3, <2>1 DEF AskCoefficient, Binomial!Next
  <2> QED
    BY <1>3, <2>1, <2>2 DEF AskCoefficient, OwedOK
<1>4. ASSUME NEW t \in Threads, Continue(t)
      PROVE  Goal
  <2>1. CASE WorkOn(t) \/ AskCoefficient(t)
    BY <1>2, <1>3, <2>1
  <2>2. CASE Factorial!Proceed(t) /\ UNCHANGED <<sharedVars, binomialVars, owed>>
    BY <2>2 DEF Factorial!Next, OwedOK
  <2>3. CASE Binomial!Proceed(t) /\ UNCHANGED <<sharedVars, factorialVars, owed>>
    BY <2>3 DEF Binomial!Next, OwedOK
  <2> QED
    BY <1>4, <2>1, <2>2, <2>3 DEF Continue
<1>5. CASE UNCHANGED allVars
  BY <1>5 DEF allVars, OwedOK
<1> QED
  BY <1>1, <1>4, <1>5 DEF CachesNext

\* What the threads do to all of the caches, the counter's question for a
\* coefficient included, is for each cache a behaviour that its own module
\* admits.
LEMMA EachCacheByItself ==
  CachesSpec => SharedSpec /\ Spec /\ Factorial!Spec /\ Binomial!Spec
<1>1. CachesInit =>
          /\ SharedInit /\ Init /\ Factorial!Init /\ Binomial!Init
          /\ OwedOK /\ IInv
  <2>1. Init => IInv
    BY InitIInv
  <2>2. owed = <<>> => OwedOK
    BY DEF OwedOK
  <2> QED
    BY <2>1, <2>2 DEF CachesInit, SharedInit
<1>2. IInv /\ OwedOK /\ [CachesNext]_allVars =>
          /\ [SharedNext]_sharedVars
          /\ [Factorial!Next]_(Factorial!vars)
          /\ [Binomial!Next]_(Binomial!vars)
          /\ OwedOK'
  BY CachesStep
<1>3. [SharedNext]_sharedVars => [Next]_vars
  BY CounterStep
<1>4. IInv /\ [Next]_vars => IInv'
  BY NextIInv
<1> QED
  BY <1>1, <1>2, <1>3, <1>4, PTL
     DEF CachesSpec, SharedSpec, Spec, Factorial!Spec, Binomial!Spec

\* Whatever its tasks do at the same time, the shared graph answers with its
\* invariants, and no field is ever spoilt.
THEOREM SharedGraphIsRight ==
  CachesSpec => [](FieldsAreRightOrZero /\ SharedAnswersAreRight)
<1>1. SharedInit => GraphIInv
  BY InitGraph
<1>2. GraphIInv /\ [SharedNext]_sharedVars => GraphIInv'
  BY NextGraph
<1>3. GraphIInv => FieldsAreRightOrZero /\ SharedAnswersAreRight
  BY DEF GraphIInv
<1> QED
  BY <1>1, <1>2, <1>3, EachCacheByItself, PTL DEF SharedSpec

\* The map of counts is right, and so are the calls that wait for its mutex.
THEOREM CountsStayRight ==
  CachesSpec => []CountsAreRight /\ LockedAnswersAreCounts
<1>1. EntriesAreCounts /\ AnswersAreCountsOrZero => CountsAreRight
  BY DEF CountsAreRight
<1> QED
  BY <1>1, OrientationInvariance, LockedCallsAreRight, EachCacheByItself,
     PTL

\* The cache of factorials and its answers, in the composition.
THEOREM FactorialsStayRight == CachesSpec => []FactorialsAreRight
<1>1. Factorial!CacheHoldsFactorials /\ Factorial!ResultIsSomeFactorial
          => FactorialsAreRight
  BY DEF FactorialsAreRight
<1> QED
  BY <1>1, FactorialInvariance, EachCacheByItself, PTL

\* Pascal's triangle and its answers, in the composition.
THEOREM BinomialsStayRight == CachesSpec => []BinomialsAreRight
<1>1. Binomial!RowsArePascals /\ Binomial!AnswersAreEntries
          => BinomialsAreRight
  BY DEF BinomialsAreRight
<1> QED
  BY <1>1, BinomialInvariance, EachCacheByItself, PTL

\* Every call returns the binomial coefficient of its arguments, in the
\* composition as well.
THEOREM AnswersStayBinomials == CachesSpec => []AnswersAreBinomials
BY BinomialAnswers, EachCacheByItself, PTL

=============================================================================
