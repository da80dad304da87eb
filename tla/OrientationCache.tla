-------------------------- MODULE OrientationCache --------------------------
(***************************************************************************)
(* TCompleteGraphAcyclicOrientationsCounter of lib/multipartite_graphs/    *)
(* acyclic_orintations.{h,cpp}, a singleton: an unordered_map from the     *)
(* sizes of the parts of a complete graph to the number of its acyclic     *)
(* orientations.  A call sorts the sizes and looks into the map without    *)
(* the mutex; if they are not there it takes the mutex and computes, and   *)
(* puts every graph that the recursion meets into the map.                 *)
(*                                                                         *)
(* The recursion adds up counts of graphs with one part less.  Which       *)
(* graphs, in which order and how often is data: Calls (see                *)
(* OrientationCalls).  What other threads see of it are the insertions:    *)
(* `Cache[components] = result` inserts a zero and then assigns to it, and *)
(* an insertion that lets the table grow moves it to other memory.         *)
(***************************************************************************)
EXTENDS Naturals, Sequences, FiniteSets

CONSTANTS
    Threads,
    NoThread,
    Vectors,        \* the sequences of sizes that can be keys
    Calls,          \* Calls[v][i]: the i-th call in the recursion for v, ...
    Sums,           \* Sums[v][i]: ... the sum of the first i of them, and ...
    Count,          \* ... the number of acyclic orientations
    Leaves,         \* the keys that the calls of main have left in the map
    GrowsAt         \* the numbers of elements at which the table is full

ASSUME OrientationAssumption ==
    /\ NoThread \notin Threads
    /\ Vectors \subseteq Seq(Nat)
    /\ Leaves \subseteq Vectors
    /\ Count \in [Vectors -> Nat \ {0}]
    /\ \A v \in Vectors : Len(v) <= 1 => Count[v] = 1
    /\ \A v \in Vectors : Len(v) > 1 =>
          /\ Calls[v] \in Seq([parts : Vectors, times : Nat,
                              asks : Seq(Nat \X Nat)])
          /\ \A i \in 1..Len(Calls[v]) : Len(Calls[v][i].parts) < Len(v)
          /\ Sums[v] \in [0..Len(Calls[v]) -> Nat]
          /\ Sums[v][0] = 0
          /\ \A i \in 1..Len(Calls[v]) :
                Sums[v][i] = Sums[v][i - 1]
                    + Calls[v][i].times * Count[Calls[v][i].parts]
          /\ Count[v] = Sums[v][Len(Calls[v])]

VARIABLES
    Cache,      \* a function on the keys that are in the map
    M,          \* the holder of the mutex, or NoThread
    at,         \* where each thread is
    components, \* the sorted argument of each thread's call
    frames,     \* the recursion of the holder: the last frame is on top
    answer,     \* what the last call of each thread returned
    broken      \* a lookup has walked through a table that was being moved

vars == <<Cache, M, at, components, frames, answer, broken>>

\* The map as the threads find it: graph_cases has called the counter before
\* it makes threads; the calculator, which makes none, has not.
Init ==
    /\ \E S \in {{}, Leaves} : Cache = [v \in S |-> Count[v]]
    /\ M = NoThread
    /\ at = [t \in Threads |-> "idle"]
    /\ \E v \in Vectors : Len(v) = 1 /\ components = [t \in Threads |-> v]
    /\ frames = <<>>
    /\ answer = [t \in Threads |-> 1]
    /\ broken = FALSE

Goto(t, where) == at' = [at EXCEPT ![t] = where]

\* A thread that is not in a call.
Free(t) == at[t] = "idle" /\ ~broken

-----------------------------------------------------------------------------
(* operator()                                                              *)

\* v is the sorted argument.
Call(t, v) ==
    /\ Free(t)
    /\ components' = [components EXCEPT ![t] = v]
    /\ Goto(t, "find")
    /\ UNCHANGED <<Cache, M, frames, answer, broken>>

\* The lookup without the mutex.  An element is found as soon as it is linked
\* into the table.  While the table is being moved anything may happen.
FindHits(t) ==
    /\ at[t] = "find"
    /\ components[t] \in DOMAIN Cache
    /\ answer' = [answer EXCEPT ![t] = Cache[components[t]]]
    /\ Goto(t, "idle")
    /\ UNCHANGED <<Cache, M, components, frames, broken>>

FindMisses(t) ==
    /\ at[t] = "find"
    /\ components[t] \notin DOMAIN Cache
    /\ Goto(t, "lock")
    /\ UNCHANGED <<Cache, M, components, frames, answer, broken>>

FindBreaks(t) ==
    /\ at[t] = "find"
    /\ \E u \in Threads : at[u] = "grow"
    /\ broken' = TRUE
    /\ UNCHANGED <<Cache, M, at, components, frames, answer>>

Lock(t) ==
    /\ at[t] = "lock"
    /\ M = NoThread
    /\ M' = t
    /\ Goto(t, "compute")
    /\ UNCHANGED <<Cache, components, frames, answer, broken>>

-----------------------------------------------------------------------------
(* ComputeUnsafe                                                           *)

Top == frames[Len(frames)]
CallsAreLeft == Top.done < Len(Calls[Top.parts])
NextCall == Calls[Top.parts][Top.done + 1]

\* ComputeUnsafe(v) returns without a recursion: from the map, or 1.
Known(v) == v \in DOMAIN Cache \/ Len(v) <= 1
ValueOf(v) == IF v \in DOMAIN Cache THEN Cache[v] ELSE 1

DescendThroughCompute(t) ==                                 \* for a mutant
    /\ at[t] = "compute"
    /\ IF frames = <<>> THEN ~Known(components[t])
         ELSE CallsAreLeft /\ ~Known(NextCall.parts) /\ M = NoThread
    /\ frames' = Append(frames,
           [parts |-> IF frames = <<>> THEN components[t] ELSE NextCall.parts,
            done |-> 0, sum |-> 0])
    /\ UNCHANGED <<Cache, M, at, components, answer, broken>>

Descend(t) ==
    /\ at[t] = "compute"
    /\ IF frames = <<>> THEN ~Known(components[t])
                        ELSE CallsAreLeft /\ ~Known(NextCall.parts)
    /\ frames' = Append(frames,
           [parts |-> IF frames = <<>> THEN components[t] ELSE NextCall.parts,
            done |-> 0, sum |-> 0])
    /\ UNCHANGED <<Cache, M, at, components, answer, broken>>

\* A call of the recursion has returned.  A result that was just computed is
\* in the map.
HasReturned(t) ==
    /\ at[t] = "compute"
    /\ frames # <<>> /\ CallsAreLeft /\ Known(NextCall.parts)

AddWithoutBinomial(t) ==                                    \* for a mutant
    /\ HasReturned(t)
    /\ frames' = [frames EXCEPT ![Len(frames)] =
           [@ EXCEPT !.done = @ + 1, !.sum = @ + ValueOf(NextCall.parts)]]
    /\ UNCHANGED <<Cache, M, at, components, answer, broken>>

Add(t) ==
    /\ HasReturned(t)
    /\ frames' = [frames EXCEPT ![Len(frames)] =
           [parts |-> Top.parts, done |-> Top.done + 1,
            sum |-> Top.sum + NextCall.times * ValueOf(NextCall.parts)]]
    /\ UNCHANGED <<Cache, M, at, components, answer, broken>>

\* Cache[components] = result: the table grows when it is full, ...
Grow(t) ==
    /\ at[t] = "compute"
    /\ frames # <<>> /\ ~CallsAreLeft
    /\ Cardinality(DOMAIN Cache) \in GrowsAt
    /\ Goto(t, "grow")
    /\ UNCHANGED <<Cache, M, components, frames, answer, broken>>

\* ... operator[] inserts a zero unless the key is there, ...
Insert(t) ==
    /\ \/ at[t] = "compute" /\ Cardinality(DOMAIN Cache) \notin GrowsAt
       \/ at[t] = "grow"
    /\ frames # <<>> /\ ~CallsAreLeft
    /\ Cache' = [v \in DOMAIN Cache \cup {Top.parts} |->
                    IF v \in DOMAIN Cache THEN Cache[v] ELSE 0]
    /\ Goto(t, "assign")
    /\ UNCHANGED <<M, components, frames, answer, broken>>

\* ... and the result is assigned.
Assign(t) ==
    /\ at[t] = "assign"
    /\ Cache' = [Cache EXCEPT ![Top.parts] = Top.sum]
    /\ frames' = SubSeq(frames, 1, Len(frames) - 1)
    /\ Goto(t, "compute")
    /\ UNCHANGED <<M, components, answer, broken>>

\* Compute returns, and unlocks.
Unlock(t) ==
    /\ at[t] = "compute"
    /\ frames = <<>> /\ Known(components[t])
    /\ answer' = [answer EXCEPT ![t] = ValueOf(components[t])]
    /\ M' = NoThread
    /\ Goto(t, "idle")
    /\ UNCHANGED <<Cache, components, frames, broken>>

-----------------------------------------------------------------------------

\* A call goes on.
Proceed(t) ==
    /\ ~broken
    /\ \/ FindHits(t) \/ FindMisses(t) \/ FindBreaks(t)
       \/ Lock(t) \/ Descend(t) \/ Add(t)
       \/ Grow(t) \/ Insert(t) \/ Assign(t) \/ Unlock(t)

Next == \E t \in Threads : Proceed(t) \/ \E v \in Vectors : Call(t, v)

Spec == Init /\ [][Next]_vars

-----------------------------------------------------------------------------
(* Properties                                                              *)

Inside == {"compute", "grow", "assign"}

BeingAssigned(v) ==
    \E t \in Threads : at[t] = "assign" /\ frames # <<>> /\ Top.parts = v

TypeOK ==
    /\ DOMAIN Cache \subseteq Vectors
    /\ \A v \in DOMAIN Cache : Cache[v] \in Nat
    /\ M \in Threads \cup {NoThread}
    /\ at \in [Threads -> {"idle", "find", "lock"} \cup Inside]
    /\ \A t \in Threads : at[t] \in Inside <=> M = t
    /\ components \in [Threads -> Vectors]
    /\ frames \in Seq([parts : Vectors, done : Nat, sum : Nat])
    /\ answer \in [Threads -> Nat]
    /\ broken \in BOOLEAN

\* Whatever calls meet, every element of the map is the number of acyclic
\* orientations of its key, except the one that the holder of the mutex has
\* just inserted and is about to assign: that one is zero.
EntriesAreCounts ==
    \A v \in DOMAIN Cache :
        Cache[v] = IF BeingAssigned(v) THEN 0 ELSE Count[v]

\* A call that took the mutex returns the number of acyclic orientations; one
\* that found its argument without the mutex may return a zero instead.
LockedAnswersAreCounts ==
    [][\A t \in Threads :
          Unlock(t) => answer'[t] = Count[components[t]]]_vars

AnswersAreCountsOrZero ==
    \A t \in Threads : at[t] = "idle" =>
        answer[t] \in {0, Count[components[t]]}

\* A call returns the number of acyclic orientations of its argument, as the
\* tests of CountAcyclicOrientations expect.  True of one thread; two threads
\* break it.
AnswersAreCounts ==
    \A t \in Threads : at[t] = "idle" => answer[t] = Count[components[t]]

=============================================================================
