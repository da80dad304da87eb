------------------------- MODULE MCMultiThreadQueue -------------------------
(***************************************************************************)
(* TLC instances of MultiThreadQueue.                                      *)
(***************************************************************************)
EXTENDS MultiThreadQueue, TLC

\* Threads of the same role are interchangeable.  For safety runs only.
Symmetry ==
    UNION {Permutations(S) :
           S \in {Producers, Poppers, TimedPoppers, EmptyWaiters}}

=============================================================================
