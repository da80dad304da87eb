--------------------------- MODULE FactorialCache ---------------------------
(***************************************************************************)
(* TFactorialCalcer of lib/factorial/factorial.cpp, the singleton behind   *)
(* Factorial(): a deque with the factorials computed so far.  A call first *)
(* compares its argument with the size of the deque without the mutex, and *)
(* reads the deque if the element is there; otherwise it takes the mutex   *)
(* and extends the deque one element at a time.                            *)
(*                                                                         *)
(* Unlocked reads race with push_back.  Arguments stay below 64, so the    *)
(* deque of 8-byte elements stays in its first node: push_back stores the  *)
(* element and then moves the end, elements never move, and a reader sees  *)
(* the size before or after a push_back.  Values stay below 2^63 (n <= 20).*)
(***************************************************************************)
EXTENDS Naturals, Sequences, FiniteSets

CONSTANTS
    Threads,
    NoThread,
    MaxArgument     \* bound of the model: the largest n a thread asks for

FactorialAssumption ==
    /\ MaxArgument \in 2..20
    /\ NoThread \notin Threads

VARIABLES
    Cache,      \* Cache[i + 1] is the element with index i
    M,          \* the holder of the mutex, or NoThread
    pc,         \* where each thread is
    argument,   \* n
    fact,       \* the local variable of Calculate()
    result      \* what the last call of each thread returned

vars == <<Cache, M, pc, argument, fact, result>>

Arguments == 0..MaxArgument

\* The reference.
F[n \in Nat] == IF n = 0 THEN 1 ELSE n * F[n - 1]

Init ==
    /\ Cache = <<1>>
    /\ M = NoThread
    /\ pc = [t \in Threads |-> "idle"]
    /\ argument = [t \in Threads |-> 0]
    /\ fact = [t \in Threads |-> 0]
    /\ result = [t \in Threads |-> 1]       \* as a call with n = 0 leaves it

Goto(t, where) == pc' = [pc EXCEPT ![t] = where]

\* operator() up to the unlocked look at the size.
Call(t, n) ==
    /\ pc[t] = "idle"
    /\ argument' = [argument EXCEPT ![t] = n]
    /\ IF n <= 1
         THEN result' = [result EXCEPT ![t] = 1] /\ UNCHANGED pc
         ELSE /\ Goto(t, IF n < Len(Cache) THEN "read" ELSE "lock")
              /\ UNCHANGED result
    /\ UNCHANGED <<Cache, M, fact>>

ReadCache(t) ==
    /\ pc[t] = "read"
    /\ result' = [result EXCEPT ![t] = Cache[argument[t] + 1]]
    /\ Goto(t, "idle")
    /\ UNCHANGED <<Cache, M, argument, fact>>

\* Calculate(): the lock, and fact = Cache.back().
LockIsNoLock(t) ==                                          \* for a mutant
    /\ pc[t] = "lock"
    /\ M' = t
    /\ fact' = [fact EXCEPT ![t] = Cache[Len(Cache)]]
    /\ Goto(t, "loop")
    /\ UNCHANGED <<Cache, argument, result>>

Lock(t) ==
    /\ pc[t] = "lock"
    /\ M = NoThread
    /\ M' = t
    /\ fact' = [fact EXCEPT ![t] = Cache[Len(Cache)]]
    /\ Goto(t, "loop")
    /\ UNCHANGED <<Cache, argument, result>>

\* One round of the loop.
Extend(t) ==
    /\ pc[t] = "loop"
    /\ Len(Cache) <= argument[t]
    /\ fact' = [fact EXCEPT ![t] = @ * Len(Cache)]
    /\ Cache' = Append(Cache, fact'[t])
    /\ UNCHANGED <<M, pc, argument, result>>

\* return Cache.back(), and the unlock.
Unlock(t) ==
    /\ pc[t] = "loop"
    /\ Len(Cache) > argument[t]
    /\ result' = [result EXCEPT ![t] = Cache[Len(Cache)]]
    /\ M' = NoThread
    /\ Goto(t, "idle")
    /\ UNCHANGED <<Cache, argument, fact>>

Proceed(t) == ReadCache(t) \/ Lock(t) \/ Extend(t) \/ Unlock(t)

Next == \E t \in Threads : Proceed(t) \/ \E n \in Arguments : Call(t, n)

Spec == Init /\ [][Next]_vars

-----------------------------------------------------------------------------
(* Properties                                                              *)

TypeOK ==
    /\ Cache \in Seq(Nat) /\ Len(Cache) \in 1..(MaxArgument + 1)
    /\ M \in Threads \cup {NoThread}
    /\ pc \in [Threads -> {"idle", "read", "lock", "loop"}]
    /\ argument \in [Threads -> Arguments]
    /\ fact \in [Threads -> Nat]
    /\ result \in [Threads -> Nat]

\* Whatever threads extend the cache in turn, every element is the factorial
\* of its index: the first is 1, and each is its index times the one before.
CacheHoldsFactorials ==
    /\ Cache[1] = 1
    /\ \A i \in 2..Len(Cache) : Cache[i] = (i - 1) * Cache[i - 1]

\* A call returns the element of its argument, or of a larger argument that
\* another thread had asked for.
ResultIsSomeFactorial ==
    \A t \in Threads : pc[t] = "idle" =>
        \/ argument[t] <= 1 /\ result[t] = 1
        \/ \E i \in (argument[t] + 1)..Len(Cache) : result[t] = Cache[i]

\* A call returns the factorial of its argument, as tests/test_factorial.cpp
\* expects of Factorial(5).  True of one thread; two threads break it.
ResultIsTheFactorial ==
    \A t \in Threads : pc[t] = "idle" => result[t] = F[argument[t]]

=============================================================================
