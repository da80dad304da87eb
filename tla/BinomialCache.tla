--------------------------- MODULE BinomialCache ---------------------------
(***************************************************************************)
(* TBinomialCoefficientCalculator of lib/binomial_coefficients, a          *)
(* singleton: a deque of rows of Pascal's triangle.  The first three and   *)
(* the last three coefficients of a row are computed at once.  For the     *)
(* others a call compares n with the size of the deque without the mutex,  *)
(* and reads the deque if the row is there; otherwise it takes the mutex   *)
(* and appends rows.                                                       *)
(*                                                                         *)
(* Unlocked reads race with push_back.  Rows stay below 21, so that the    *)
(* deque of 24-byte vectors stays in its first node: push_back makes the   *)
(* row and then moves the end, rows never move, and a reader sees the size *)
(* before or after a push_back.                                            *)
(***************************************************************************)
EXTENDS Naturals, Sequences

CONSTANTS
    Threads,
    NoThread,
    Pairs,      \* bound of the model: the pairs n, k that threads ask for
    Modulus     \* of unsigned int: 2^32 in the code

\* The programs ask for k <= n, except ComputeI4, where k is always 2.
BinomialAssumption ==
    /\ Pairs \subseteq (0..20) \X (0..20)
    /\ \A a \in Pairs : a[2] <= a[1] \/ a[2] = 2
    /\ Modulus \in Nat \ {0} /\ \A a \in Pairs : a[1] < Modulus
    /\ NoThread \notin Threads

VARIABLES
    Cache,      \* Cache[n + 1][k + 1] is Cache[n][k] of the code
    M,          \* the holder of the mutex, or NoThread
    pc,         \* where each thread is
    n, k,       \* the arguments of each thread
    m,          \* the loop variable of Compute()
    result      \* what the last call of each thread returned

vars == <<Cache, M, pc, n, k, m, result>>

Init ==
    /\ Cache = <<<<1>>>>
    /\ M = NoThread
    /\ pc = [t \in Threads |-> "idle"]
    /\ n = [t \in Threads |-> 0]
    /\ k = [t \in Threads |-> 0]
    /\ m = [t \in Threads |-> 0]
    /\ result = [t \in Threads |-> 1]       \* as a call with n = 0 leaves it

Goto(t, where) == pc' = [pc EXCEPT ![t] = where]

\* The shortcuts; the product is computed in the width of n.
Outermost(a, b) == b \in {0, a}
Second(a, b) == b = 1 \/ b + 1 = a
Third(a, b) == b = 2 \/ b + 2 = a
IsShort(a, b) == Outermost(a, b) \/ Second(a, b) \/ Third(a, b)
TriangularOfNext(a) == ((a * (a + 1)) % Modulus) \div 2       \* for a mutant
Triangular(a) == ((a * (a - 1)) % Modulus) \div 2
Short(a, b) == IF Outermost(a, b) THEN 1
               ELSE IF Second(a, b) THEN a
               ELSE Triangular(a)

\* operator() up to the unlocked look at the size.
Call(t, a, b) ==
    /\ pc[t] = "idle"
    /\ n' = [n EXCEPT ![t] = a]
    /\ k' = [k EXCEPT ![t] = b]
    /\ IF IsShort(a, b)
         THEN result' = [result EXCEPT ![t] = Short(a, b)] /\ UNCHANGED pc
         ELSE /\ Goto(t, IF a < Len(Cache) THEN "read" ELSE "lock")
              /\ UNCHANGED result
    /\ UNCHANGED <<Cache, M, m>>

ReadCache(t) ==
    /\ pc[t] = "read"
    /\ result' = [result EXCEPT ![t] = Cache[n[t] + 1][k[t] + 1]]
    /\ Goto(t, "idle")
    /\ UNCHANGED <<Cache, M, n, k, m>>

\* Compute(): the lock, and m = Cache.size().
Lock(t) ==
    /\ pc[t] = "lock"
    /\ M = NoThread
    /\ M' = t
    /\ m' = [m EXCEPT ![t] = Len(Cache)]
    /\ Goto(t, "loop")
    /\ UNCHANGED <<Cache, n, k, result>>

\* ComputeRow(rowNumber)
Row(rowNumber) ==
    LET prevRow == Cache[rowNumber]
    IN  [i \in 1..(rowNumber + 1) |->
            IF i \in {1, rowNumber + 1} THEN 1 ELSE prevRow[i] + prevRow[i - 1]]

\* One round of the loop.
Extend(t) ==
    /\ pc[t] = "loop"
    /\ m[t] <= n[t]
    /\ Cache' = Append(Cache, Row(m[t]))
    /\ m' = [m EXCEPT ![t] = @ + 1]
    /\ UNCHANGED <<M, pc, n, k, result>>

UnlockWithLastRow(t) ==                                     \* for a mutant
    /\ pc[t] = "loop"
    /\ m[t] > n[t]
    /\ result' = [result EXCEPT ![t] = Cache[Len(Cache)][k[t] + 1]]
    /\ M' = NoThread
    /\ Goto(t, "idle")
    /\ UNCHANGED <<Cache, n, k, m>>

\* return Cache[n][k], and the unlock.
Unlock(t) ==
    /\ pc[t] = "loop"
    /\ m[t] > n[t]
    /\ result' = [result EXCEPT ![t] = Cache[n[t] + 1][k[t] + 1]]
    /\ M' = NoThread
    /\ Goto(t, "idle")
    /\ UNCHANGED <<Cache, n, k, m>>

Proceed(t) == ReadCache(t) \/ Lock(t) \/ Extend(t) \/ Unlock(t)

Next == \E t \in Threads :
    Proceed(t) \/ \E a \in Pairs : Call(t, a[1], a[2])

Spec == Init /\ [][Next]_vars

-----------------------------------------------------------------------------
(* Properties                                                              *)

TypeOK ==
    /\ Cache \in Seq(Seq(Nat)) /\ Len(Cache) \in 1..21
    /\ M \in Threads \cup {NoThread}
    /\ pc \in [Threads -> {"idle", "read", "lock", "loop"}]
    /\ \A t \in Threads : pc[t] = "loop" <=> M = t
    /\ n \in [Threads -> 0..20]
    /\ k \in [Threads -> 0..20]
    /\ m \in [Threads -> 0..21]
    /\ result \in [Threads -> Nat]

\* Whatever threads extend the cache in turn, it is Pascal's triangle.
RowsArePascals ==
    /\ Cache[1] = <<1>>
    /\ \A r \in 2..Len(Cache) :
          /\ Len(Cache[r]) = r
          /\ Cache[r][1] = 1 /\ Cache[r][r] = 1
          /\ \A i \in 2..(r - 1) :
                Cache[r][i] = Cache[r - 1][i] + Cache[r - 1][i - 1]

\* A call that is not answered at once returns the element of its row, however
\* far other threads have extended the cache since the unlocked look.
AnswersAreEntries ==
    \A t \in Threads : pc[t] = "idle" /\ ~IsShort(n[t], k[t]) =>
        /\ n[t] + 1 \in DOMAIN Cache
        /\ result[t] = Cache[n[t] + 1][k[t] + 1]

=============================================================================
