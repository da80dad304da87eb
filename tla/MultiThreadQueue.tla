-------------------------- MODULE MultiThreadQueue --------------------------
(***************************************************************************)
(* TMultiThreadQueue<TType> of lib/queue/queue.h: a deque protected by one *)
(* mutex and three condition variables.                                    *)
(*                                                                         *)
(*     NonEmpty   Pop() and Pop(timeout, result) sleep on it               *)
(*     Pushable   Push() sleeps on it when the queue is bounded and full   *)
(*     Empty_     WaitEmpty() sleeps on it                                 *)
(*                                                                         *)
(* Every operation holds the mutex from its first line to its return and   *)
(* gives it up only inside wait(), so one action is one stretch of code    *)
(* between two releases of the mutex: a call either goes through, or it    *)
(* falls asleep.  A sleeping thread is "waiting"; once notified it is      *)
(* "woken", and has to get the mutex back and evaluate the condition of    *)
(* its while loop again before it goes on.  Another thread may take the    *)
(* mutex in between.                                                       *)
(*                                                                         *)
(* Each thread has one role and calls the operation of its role over and   *)
(* over, as the threads in the repository do.                              *)
(***************************************************************************)
EXTENDS Naturals, Sequences, FiniteSets

CONSTANTS
    Producers,      \* threads that call Push
    Poppers,        \* threads that call Pop()
    TimedPoppers,   \* threads that call Pop(timeout, result)
    EmptyWaiters,   \* threads that call WaitEmpty()
    MaxSize,        \* constructor argument, 0 means unbounded
    MaxPushes       \* bound of the model: calls of Push per producer

Consumers == Poppers \cup TimedPoppers
Threads == Producers \cup Consumers \cup EmptyWaiters

ASSUME QueueAssumption ==
    /\ MaxSize \in Nat
    /\ MaxPushes \in Nat
    /\ IsFiniteSet(Threads)
    /\ Producers \cap Consumers = {}
    /\ Producers \cap EmptyWaiters = {}
    /\ Consumers \cap EmptyWaiters = {}
    /\ Poppers \cap TimedPoppers = {}

VARIABLES
    Storage,    \* the deque, front first
    pc,         \* what each thread is doing: "idle", "waiting" or "woken"
    calls,      \* number of completed Push calls of each producer
    pushed,     \* history: the items in the order of push_back
    popped      \* history: the items in the order of pop_front

vars == <<Storage, pc, calls, pushed, popped>>

\* The k-th item of producer p; every item is pushed once.
Items == Producers \X (1..MaxPushes)

Waiting(S) == {t \in S : pc[t] = "waiting"}
Woken(S) == {t \in S : pc[t] = "woken"}

Init ==
    /\ Storage = <<>>
    /\ pc = [t \in Threads |-> "idle"]
    /\ calls = [p \in Producers |-> 0]
    /\ pushed = <<>>
    /\ popped = <<>>

-----------------------------------------------------------------------------
(* The mutex and the condition variables.                                  *)

\* t gets the mutex: on entry of an operation, or again inside wait().
Running(t) == pc[t] \in {"idle", "woken"}

\* The sets of threads that notify_one may wake when S sleeps on the variable.
NotifyOne(S) == IF S = {} THEN {{}} ELSE {{t} : t \in S}

\* t falls asleep on the condition variable of its role.
Wait(t) ==
    /\ pc' = [pc EXCEPT ![t] = "waiting"]
    /\ UNCHANGED <<Storage, calls, pushed, popped>>

\* t returns from its operation, which notified the threads of W.
Return(t, W) ==
    pc' = [u \in Threads |-> IF u = t THEN "idle"
                             ELSE IF u \in W THEN "woken" ELSE pc[u]]

\* wait() may return although nobody notified the condition variable.
SpuriousWakeup(t) ==
    /\ pc[t] = "waiting"
    /\ pc' = [pc EXCEPT ![t] = "woken"]
    /\ UNCHANGED <<Storage, calls, pushed, popped>>

-----------------------------------------------------------------------------
(* Push                                                                    *)

FullOneTooLate == MaxSize # 0 /\ Len(Storage) > MaxSize    \* for a mutant
Full == MaxSize # 0 /\ Len(Storage) >= MaxSize

\* The threads that Push may wake once the item is in the deque.
WokenOnlyFromEmpty ==                                       \* for a mutant
    IF Storage = <<>> THEN NotifyOne(Waiting(Consumers)) ELSE {{}}
WokenByPush == NotifyOne(Waiting(Consumers))

PushBlocks(p) ==
    /\ Running(p)
    /\ calls[p] < MaxPushes
    /\ Full
    /\ Wait(p)

PushReturns(p) ==
    /\ Running(p)
    /\ calls[p] < MaxPushes
    /\ ~Full
    /\ LET item == <<p, calls[p] + 1>> IN
       /\ Storage' = Append(Storage, item)
       /\ pushed' = Append(pushed, item)
    /\ calls' = [calls EXCEPT ![p] = @ + 1]
    /\ \E W \in WokenByPush : Return(p, W)
    /\ UNCHANGED popped

-----------------------------------------------------------------------------
(* Pop and Pop(timeout, result)                                            *)

\* DoPop notifies everybody who waits for the queue to become empty ...
WokenTestedTooEarly ==                                      \* for a mutant
    IF Len(Storage) = 0 THEN Waiting(EmptyWaiters) ELSE {}
WokenByEmptying == IF Len(Storage) = 1 THEN Waiting(EmptyWaiters) ELSE {}

\* ... and one producer, when the queue has a bound.
WokenOnlyFromFull ==                                        \* for a mutant
    IF Len(Storage) = MaxSize THEN NotifyOne(Waiting(Producers)) ELSE {{}}
WokenByRoom ==
    IF Len(Storage) - 1 < MaxSize THEN NotifyOne(Waiting(Producers)) ELSE {{}}

DoPopFromBack(t) ==                                         \* for a mutant
    /\ Storage' = SubSeq(Storage, 1, Len(Storage) - 1)
    /\ popped' = Append(popped, Storage[Len(Storage)])
    /\ \E W \in WokenByRoom : Return(t, WokenByEmptying \cup W)
    /\ UNCHANGED <<calls, pushed>>

DoPop(t) ==
    /\ Storage' = Tail(Storage)
    /\ popped' = Append(popped, Head(Storage))
    /\ \E W \in WokenByRoom : Return(t, WokenByEmptying \cup W)
    /\ UNCHANGED <<calls, pushed>>

PopBlocks(t) ==
    /\ Running(t)
    /\ Storage = <<>>
    /\ Wait(t)

PopReturns(t) ==
    /\ Running(t)
    /\ Storage # <<>>
    /\ DoPop(t)

\* wait_for() reports a timeout: the time is up for a thread that nobody
\* notified, or it is up by the time a notified thread has the mutex back.
\* Pop returns false without another look at the deque.
PopTimesOut(t) ==
    /\ pc[t] \in {"waiting", "woken"}
    /\ Return(t, {})
    /\ UNCHANGED <<Storage, calls, pushed, popped>>

-----------------------------------------------------------------------------
(* WaitEmpty                                                               *)

WaitEmptyBlocks(t) ==
    /\ Running(t)
    /\ Storage # <<>>
    /\ Wait(t)

WaitEmptyReturns(t) ==
    /\ pc[t] = "woken"      \* from "idle" the call changes nothing
    /\ Storage = <<>>
    /\ Return(t, {})
    /\ UNCHANGED <<Storage, calls, pushed, popped>>

-----------------------------------------------------------------------------

Push(p) == PushBlocks(p) \/ PushReturns(p)
Pop(t) == PopBlocks(t) \/ PopReturns(t)
WaitEmpty(t) == WaitEmptyBlocks(t) \/ WaitEmptyReturns(t)

Next ==
    \/ \E p \in Producers : Push(p)
    \/ \E t \in Consumers : Pop(t)
    \/ \E t \in TimedPoppers : PopTimesOut(t)
    \/ \E t \in EmptyWaiters : WaitEmpty(t)
    \/ \E t \in Threads : SpuriousWakeup(t)

Spec == Init /\ [][Next]_vars

\* The operating system schedules every thread that can get the mutex, and
\* a timeout runs out.  Nothing obliges a wakeup to be spurious.
Fairness ==
    /\ \A p \in Producers : WF_vars(Push(p))
    /\ \A t \in Consumers : WF_vars(Pop(t))
    /\ \A t \in TimedPoppers : WF_vars(PopTimesOut(t))
    /\ \A t \in EmptyWaiters : WF_vars(WaitEmpty(t))

FairSpec == Spec /\ Fairness

-----------------------------------------------------------------------------
(* Properties                                                              *)

\* Types, and the bound of the deque.
TypeOK ==
    /\ Storage \in Seq(Items)
    /\ MaxSize # 0 => Len(Storage) <= MaxSize
    /\ pc \in [Threads -> {"idle", "waiting", "woken"}]
    /\ calls \in [Producers -> 0..MaxPushes]
    /\ pushed \in Seq(Items)
    /\ popped \in Seq(Items)

\* The queue is the bounded first-in first-out channel of BoundedFifo: nothing
\* is lost, duplicated or overtaken, and push_back never exceeds MaxSize,
\* whichever threads sleep and whoever takes the mutex first.
Fifo == INSTANCE BoundedFifo WITH
    Elements <- Items, Capacity <- MaxSize, sent <- pushed, received <- popped

ImplementsFifo == Fifo!Spec

\* No wakeup of a Pop is lost: while a thread sleeps in Pop, every item in the
\* deque has a woken thread on its way to it.  Push notifies one thread per
\* item, and a thread that barges in takes an item but leaves the woken one.
\* Does not hold with timed Pops (see the README): a notified thread that
\* reports a timeout leaves its item to nobody.
NoItemSleptOn ==
    Waiting(Consumers) # {} => Len(Storage) <= Cardinality(Woken(Consumers))

\* No wakeup of a Push is lost: while a producer sleeps in Push, every free
\* slot of the bounded queue has a woken producer on its way to it.
NoRoomSleptOn ==
    Waiting(Producers) # {} =>
        MaxSize <= Len(Storage) + Cardinality(Woken(Producers))

\* A thread asleep in WaitEmpty() means that there is something in the deque:
\* the Pop that empties it notifies all of them before it gives up the mutex.
NoEmptinessSleptOn ==
    Waiting(EmptyWaiters) # {} => Storage # <<>>

\* Every Push returns and every item reaches a Pop, when the consumers keep
\* calling Pop, with a timeout or without.
EverythingDelivered ==
    <>(\A p \in Producers : calls[p] = MaxPushes /\ Storage = <<>>)

\* WaitEmpty() returns when the producers stop at some point.
WaitEmptyIsAnswered ==
    \A t \in EmptyWaiters : pc[t] = "waiting" ~> pc[t] = "idle"

=============================================================================
