---------------------------- MODULE BoundedFifo ----------------------------
(***************************************************************************)
(* What TMultiThreadQueue (lib/queue/queue.h) promises to its callers: a   *)
(* first-in first-out channel of at most Capacity undelivered elements,    *)
(* unbounded when Capacity is 0.  There are no threads, mutexes or         *)
(* condition variables here; MultiThreadQueue implements this module.      *)
(***************************************************************************)
EXTENDS Naturals, Sequences

CONSTANTS
    Elements,   \* the values that may be put into the channel
    Capacity    \* 0 means that the channel is unbounded

VARIABLES
    sent,       \* everything that was put into the channel, oldest first
    received    \* everything that was taken out of it, oldest first

vars == <<sent, received>>

InTransit == Len(sent) - Len(received)

Init ==
    /\ sent = <<>>
    /\ received = <<>>

Put(x) ==
    /\ Capacity = 0 \/ InTransit < Capacity
    /\ sent' = Append(sent, x)
    /\ UNCHANGED received

\* The element taken is the oldest one that was not taken before.
Take ==
    /\ Len(received) < Len(sent)
    /\ received' = Append(received, sent[Len(received) + 1])
    /\ UNCHANGED sent

Next == Take \/ \E x \in Elements : Put(x)

Spec == Init /\ [][Next]_vars

=============================================================================
