---------------------------- MODULE SharedCaches ----------------------------
(***************************************************************************)
(* What all threads share without a queue in between: the singletons for   *)
(* factorials and binomial coefficients, and the complete graph with the   *)
(* counter of its orientations.  The counter asks for binomial             *)
(* coefficients while it holds its mutex, and so takes a second mutex      *)
(* inside; no other code takes two.  The sum that it makes of them is data *)
(* (see OrientationCalls): AnswersAreBinomials is why it may be.           *)
(*                                                                         *)
(* In a behaviour all threads call the graph and the counter, or all call  *)
(* the factorials, or all the coefficients.                                *)
(***************************************************************************)
EXTENDS SharedGraph, Combinatorics

CONSTANTS
    MaxArgument,    \* bounds of FactorialCache and BinomialCache
    Pairs,
    Modulus,
    MaxCalls        \* bound of the model: the calls of each thread

VARIABLES
    factorials, factorialMutex, factorialPc, factorialArgument, fact,
    factorialResult,
    rows, rowsMutex, rowsPc, n, k, m, binomial,
    owed,           \* the coefficients that the holder of the counter's
                    \* mutex asks for before it goes on
    subject,        \* what the threads call
    calls           \* the calls that each thread has made

factorialVars == <<factorials, factorialMutex, factorialPc,
                   factorialArgument, fact, factorialResult>>
binomialVars == <<rows, rowsMutex, rowsPc, n, k, m, binomial>>
allVars == <<sharedVars, factorialVars, binomialVars, owed, subject, calls>>

Factorial == INSTANCE FactorialCache WITH
    Cache <- factorials, M <- factorialMutex, pc <- factorialPc,
    argument <- factorialArgument, result <- factorialResult

Binomial == INSTANCE BinomialCache WITH
    Cache <- rows, M <- rowsMutex, pc <- rowsPc, result <- binomial

ASSUME CachesAssumption ==
    Factorial!FactorialAssumption /\ Binomial!BinomialAssumption

\* The coefficients that the recursion asks for are among Pairs.
ASSUME AsksAssumption ==
    \A v \in Vectors : Len(v) > 1 =>
        \A i \in DOMAIN Calls[v] : Calls[v][i].asks \in Seq(Pairs)

CachesInit ==
    /\ SharedInit
    /\ Factorial!Init
    /\ Binomial!Init
    /\ owed = <<>>
    /\ subject \in {"graph", "factorial", "binomial"}
    /\ subject # "graph" => ~warm
    /\ calls = [t \in Threads |-> 0]

Idle(t) ==
    /\ at[t] = "idle" /\ task[t] = "none"
    /\ factorialPc[t] = "idle"
    /\ rowsPc[t] = "idle"

Begin(t) ==
    /\ Idle(t) /\ ~broken
    /\ calls[t] < MaxCalls
    /\ calls' = [calls EXCEPT ![t] = @ + 1]
    /\ UNCHANGED <<owed, subject>>
    /\ \/ /\ subject = "graph"
          /\ \/ \E f \in Invariants : Ask(t, f)
             \/ \E v \in Private : AskPrivate(t, v)
          /\ UNCHANGED <<factorialVars, binomialVars>>
       \/ /\ subject = "factorial"
          /\ \E a \in Factorial!Arguments : Factorial!Call(t, a)
          /\ UNCHANGED <<sharedVars, binomialVars>>
       \/ /\ subject = "binomial"
          /\ \E a \in Pairs : Binomial!Call(t, a[1], a[2])
          /\ UNCHANGED <<sharedVars, factorialVars>>

\* A call of the graph goes on.  When a call of the recursion has returned, the
\* counter asks for the coefficients of its result, and waits for each.
WorkOn(t) ==
    /\ rowsPc[t] = "idle"
    /\ M = t => owed = <<>>
    /\ Work(t)
    /\ owed' = IF HasReturned(t) THEN NextCall.asks ELSE owed
    /\ UNCHANGED <<factorialVars, binomialVars>>

\* BinomialCoefficient(componentSize, j), with the counter's mutex.
AskCoefficient(t) ==
    /\ M = t /\ owed # <<>>
    /\ Binomial!Call(t, Head(owed)[1], Head(owed)[2])
    /\ owed' = Tail(owed)
    /\ UNCHANGED <<sharedVars, factorialVars>>

Continue(t) ==
    /\ ~broken
    /\ \/ WorkOn(t)
       \/ AskCoefficient(t)
       \/ /\ Factorial!Proceed(t)
          /\ UNCHANGED <<sharedVars, binomialVars, owed>>
       \/ /\ Binomial!Proceed(t)
          /\ UNCHANGED <<sharedVars, factorialVars, owed>>
    /\ UNCHANGED <<subject, calls>>

CachesNext == \E t \in Threads : Begin(t) \/ Continue(t)

\* Threads in a call are scheduled.  Each makes finitely many calls, so that
\* one that waits for a mutex gets it.
CachesSpec ==
    /\ CachesInit /\ [][CachesNext]_allVars
    /\ \A t \in Threads : WF_allVars(Continue(t))

-----------------------------------------------------------------------------
(* Properties                                                              *)

\* Whatever threads extend the cache in turn it holds factorials, and a call
\* returns the factorial of its argument or of a larger one.
FactorialsAreRight ==
    Factorial!CacheHoldsFactorials /\ Factorial!ResultIsSomeFactorial

\* Whatever threads append rows in turn the cache is Pascal's triangle, and a
\* call returns the element of its row.
BinomialsAreRight ==
    Binomial!RowsArePascals /\ Binomial!AnswersAreEntries

\* The map holds the counts of its keys, but for a zero about to be assigned,
\* and a call returns the count of its argument or this zero.
CountsAreRight == EntriesAreCounts /\ AnswersAreCountsOrZero

\* A call returns the binomial coefficient, whichever way it is found, unless
\* n * (n - 1) wraps around in the shortcut for k = 2 and k = n - 2.
AnswersAreBinomials ==
    \A t \in Threads : rowsPc[t] = "idle" =>
        \/ Binomial!Third(n[t], k[t]) /\ n[t] * (n[t] - 1) >= Modulus
        \/ k[t] > n[t] /\ binomial[t] = 0
        \/ k[t] <= n[t] /\ binomial[t] = choose(n[t], k[t])

\* No call waits for ever: no thread keeps a mutex, no recursion of the counter
\* needs the mutex that its thread already has, and who waits for the binomial
\* coefficients with the counter's mutex gets them.
CallsReturn == \A t \in Threads : ~Idle(t) ~> Idle(t) \/ broken

=============================================================================
