------------------------------ MODULE Executer ------------------------------
(***************************************************************************)
(* TMultiThreadExecuter of lib/executer/multithread_executer.{h,cpp}: a    *)
(* vector of worker threads that pop tasks from one queue.                 *)
(*                                                                         *)
(* The queue is the channel of BoundedFifo, which MultiThreadQueue is      *)
(* shown to implement: Push waits for room, Pop waits for an item.  The    *)
(* queue carries tasks and stop messages.  A worker that pops a stop       *)
(* message leaves its loop.  Stop() pushes one stop message per worker     *)
(* and joins the threads; the destructor calls Stop() again, also when the *)
(* owner has called it before.                                             *)
(***************************************************************************)
EXTENDS Naturals, Sequences, FiniteSets

CONSTANTS
    Workers,            \* the threads in the vector Threads
    Tasks,              \* tasks; each is added at most once
    StopMessage,        \* the TStopMessage alternative of TItem
    NoTask,
    QueueSize,          \* constructor argument queueSize, 0 means unbounded
    HasExceptions,      \* whether the constructor got a queue of exceptions
    ExceptionsSize      \* the MaxSize of that queue, 0 means unbounded

ASSUME ExecuterAssumption ==
    /\ IsFiniteSet(Workers)
    /\ IsFiniteSet(Tasks)
    /\ StopMessage \notin Tasks
    /\ NoTask \notin Tasks
    /\ QueueSize \in Nat
    /\ HasExceptions \in BOOLEAN
    /\ ExceptionsSize \in Nat

VARIABLES
    sent,           \* Queue: everything pushed into it ...
    received,       \* ... and everything popped from it
    at,             \* where each worker is in its loop
    item,           \* the task a worker holds
    outcome,        \* how the Do() of each task ended
    Exceptions,     \* the tasks whose exceptions are in *Exceptions
    phase,          \* where the owner is
    stopsPushed,    \* i of the loop in StopAll()
    destroying      \* the owner is in, or behind, the destructor

workerVars == <<at, item, outcome, Exceptions>>
ownerVars == <<phase, stopsPushed, destroying>>
vars == <<sent, received, at, item, outcome, Exceptions,
          phase, stopsPushed, destroying>>

Queue == INSTANCE BoundedFifo WITH
    Elements <- Tasks \cup {StopMessage}, Capacity <- QueueSize

Added == {t \in Tasks : \E i \in DOMAIN sent : sent[i] = t}
QueuedStops == {i \in Len(received) + 1..Len(sent) : sent[i] = StopMessage}
Alive == {w \in Workers : at[w] # "exited"}
Threw == {t \in Tasks : outcome[t] = "threw"}

Init ==
    /\ Queue!Init
    /\ at = [w \in Workers |-> "pop"]
    /\ item = [w \in Workers |-> NoTask]
    /\ outcome = [t \in Tasks |-> "none"]
    /\ Exceptions = {}
    /\ phase = "running"
    /\ stopsPushed = 0
    /\ destroying = FALSE

-----------------------------------------------------------------------------
(* The worker's loop                                                       *)

\* The item that Pop() is about to return.
Newest == sent[Len(sent)]                                   \* for a mutant
Oldest == sent[Len(received) + 1]

TakeTask(w) ==
    /\ at[w] = "pop"
    /\ Queue!Take
    /\ Oldest # StopMessage
    /\ at' = [at EXCEPT ![w] = "do"]
    /\ item' = [item EXCEPT ![w] = Oldest]
    /\ UNCHANGED <<outcome, Exceptions, ownerVars>>

TakeStop(w) ==
    /\ at[w] = "pop"
    /\ Queue!Take
    /\ Oldest = StopMessage
    /\ at' = [at EXCEPT ![w] = "exited"]
    /\ UNCHANGED <<item, outcome, Exceptions, ownerVars>>

DoReturns(w) ==
    /\ at[w] = "do"
    /\ outcome' = [outcome EXCEPT ![item[w]] = "returned"]
    /\ at' = [at EXCEPT ![w] = "pop"]
    /\ item' = [item EXCEPT ![w] = NoTask]
    /\ UNCHANGED <<sent, received, Exceptions, ownerVars>>

DoThrowsUnreported(w) ==                                    \* for a mutant
    /\ at[w] = "do"
    /\ outcome' = [outcome EXCEPT ![item[w]] = "threw"]
    /\ at' = [at EXCEPT ![w] = "pop"]
    /\ item' = [item EXCEPT ![w] = NoTask]
    /\ UNCHANGED <<sent, received, Exceptions, ownerVars>>

\* The exception is dropped when nobody gave a queue for it.
DoThrows(w) ==
    /\ at[w] = "do"
    /\ outcome' = [outcome EXCEPT ![item[w]] = "threw"]
    /\ IF HasExceptions
         THEN at' = [at EXCEPT ![w] = "report"] /\ UNCHANGED item
         ELSE /\ at' = [at EXCEPT ![w] = "pop"]
              /\ item' = [item EXCEPT ![w] = NoTask]
    /\ UNCHANGED <<sent, received, Exceptions, ownerVars>>

\* Exceptions->Push(), which waits for room like any other Push.
Report(w) ==
    /\ at[w] = "report"
    /\ ExceptionsSize = 0 \/ Cardinality(Exceptions) < ExceptionsSize
    /\ Exceptions' = Exceptions \cup {item[w]}
    /\ at' = [at EXCEPT ![w] = "pop"]
    /\ item' = [item EXCEPT ![w] = NoTask]
    /\ UNCHANGED <<sent, received, outcome, ownerVars>>

Work(w) ==
    \/ TakeTask(w) \/ TakeStop(w)
    \/ DoReturns(w) \/ DoThrows(w) \/ Report(w)

-----------------------------------------------------------------------------
(* The owner.  No caller in the repository adds a task once it has called  *)
(* Stop() or destroyed the executer.                                       *)

Add(t) ==
    /\ phase = "running"
    /\ t \in Tasks \ Added
    /\ Queue!Put(t)
    /\ UNCHANGED <<workerVars, ownerVars>>

BeginStop ==
    /\ phase = "running"
    /\ phase' = "stopAll"
    /\ UNCHANGED <<sent, received, workerVars, stopsPushed, destroying>>

\* The destructor calls Stop(), whether it was called before or not.
BeginDestroy ==
    /\ phase \in {"running", "stopped"}
    /\ phase' = "stopAll"
    /\ destroying' = TRUE
    /\ UNCHANGED <<sent, received, workerVars, stopsPushed>>

StopsToPushOneTooFew == Cardinality(Workers) - 1            \* for a mutant
StopsToPush == Cardinality(Workers)

PushStop ==
    /\ phase = "stopAll"
    /\ stopsPushed < StopsToPush
    /\ Queue!Put(StopMessage)
    /\ stopsPushed' = stopsPushed + 1
    /\ UNCHANGED <<workerVars, phase, destroying>>

StopAllReturns ==
    /\ phase = "stopAll"
    /\ stopsPushed = StopsToPush
    /\ phase' = "waitAll"
    /\ stopsPushed' = 0
    /\ UNCHANGED <<sent, received, workerVars, destroying>>

\* join() returns once the thread has ended; a thread that was joined before
\* is not joinable.
JoinedWhenIdle(w) == at[w] \in {"pop", "exited"}            \* for a mutant
Joined(w) == at[w] = "exited"

WaitAllReturns ==
    /\ phase = "waitAll"
    /\ \A w \in Workers : Joined(w)
    /\ phase' = IF destroying THEN "destroyed" ELSE "stopped"
    /\ UNCHANGED <<sent, received, workerVars, stopsPushed, destroying>>

Stop == PushStop \/ StopAllReturns \/ WaitAllReturns

Destroyed == phase = "destroyed" /\ UNCHANGED vars

-----------------------------------------------------------------------------

Next ==
    \/ \E w \in Workers : Work(w)
    \/ \E t \in Tasks : Add(t)
    \/ BeginStop \/ BeginDestroy \/ Stop
    \/ Destroyed

Spec == Init /\ [][Next]_vars

\* Every thread is scheduled and every task terminates.  Nothing obliges the
\* owner to add a task, to call Stop() or to destroy the executer.
Fairness ==
    /\ \A w \in Workers : WF_vars(Work(w))
    /\ WF_vars(Stop)

FairSpec == Spec /\ Fairness

-----------------------------------------------------------------------------
(* Properties                                                              *)

TypeOK ==
    /\ sent \in Seq(Tasks \cup {StopMessage})
    /\ received \in Seq(Tasks \cup {StopMessage})
    /\ at \in [Workers -> {"pop", "do", "report", "exited"}]
    /\ item \in [Workers -> Tasks \cup {NoTask}]
    /\ \A w \in Workers : at[w] \in {"do", "report"} <=> item[w] # NoTask
    /\ outcome \in [Tasks -> {"none", "returned", "threw"}]
    /\ Exceptions \subseteq Tasks
    /\ phase \in {"running", "stopAll", "waitAll", "stopped", "destroyed"}
    /\ stopsPushed \in 0..StopsToPush
    /\ destroying \in BOOLEAN

\* When Stop() or the destructor has returned, every task that was ever added
\* has been run to its end, and every exception is in the caller's queue.
\* This is what the programs rely on when they read the results.
StopMeansDone ==
    phase \in {"stopped", "destroyed"} =>
        /\ \A t \in Added : outcome[t] # "none"
        /\ HasExceptions => Exceptions = Threw

\* While the owner waits in WaitAll(), every worker that has not left its loop
\* has a stop message of its own in the queue: no task and no other worker
\* can use it up.
EveryWorkerHasAStop ==
    phase = "waitAll" => Cardinality(Alive) <= Cardinality(QueuedStops)

\* The executer is a pool that runs every task exactly once and never closes
\* on an unfinished task or an unreported exception.  It is closed when the
\* last worker has left its loop.
Pool == INSTANCE TaskPool WITH
    KeepsExceptions <- HasExceptions, submitted <- Added,
    reported <- Exceptions,
    closed <- \A w \in Workers : at[w] = "exited"

ImplementsTaskPool == Pool!Spec

MoreExceptionsThanRoom ==
    HasExceptions /\ ExceptionsSize # 0 /\ Cardinality(Threw) > ExceptionsSize

\* Stop() returns, and so does the Stop() of the destructor, when the queue
\* has room for one stop message per worker, unless more tasks throw than the
\* caller's queue of exceptions holds: no caller empties it before Stop().
StopReturns ==
    phase \in {"stopAll", "waitAll"}
        ~> phase \in {"stopped", "destroyed"} \/ MoreExceptionsThanRoom

\* An executer that was stopped can be destroyed, as tests/test_singleton.cpp
\* and both programs do at the end of a scope.  Not true when the queue is
\* smaller than the number of threads: see the README.
DestructorReturns == destroying ~> phase = "destroyed"

-----------------------------------------------------------------------------
(* The inductive invariant behind the safety properties, in parts.         *)

\* The queue.
TakenInOrder ==
    /\ Len(received) <= Len(sent)
    /\ \A i \in 1..Len(received) : received[i] = sent[i]

TasksAreSentOnce ==
    \A i, j \in 1..Len(sent) :
        sent[i] \in Tasks /\ sent[i] = sent[j] => i = j

NoTaskBehindAStop ==
    \A i, j \in 1..Len(sent) :
        sent[i] = StopMessage /\ i < j => sent[j] = StopMessage

NoStopWhileRunning ==
    phase = "running" => \A i \in 1..Len(sent) : sent[i] # StopMessage

\* The workers.
Taken(t) == \E i \in 1..Len(received) : sent[i] = t

HeldTasksAreUnfinished ==
    \A w \in Workers :
        /\ at[w] = "do" => Taken(item[w]) /\ outcome[item[w]] = "none"
        /\ at[w] = "report" =>
               /\ HasExceptions
               /\ outcome[item[w]] = "threw"
               /\ item[w] \notin Exceptions

NoTaskIsHeldTwice ==
    \A v, w \in Workers : item[w] \in Tasks /\ item[v] = item[w] => v = w

TakenTasksAreHandled ==
    \A t \in Tasks :
        /\ outcome[t] # "none" => Taken(t)
        /\ Taken(t) => \/ outcome[t] # "none"
                       \/ \E w \in Workers : at[w] = "do" /\ item[w] = t

ExceptionsAreReported ==
    HasExceptions =>
        /\ Exceptions \subseteq Threw
        /\ \A t \in Threw \ Exceptions :
              \E w \in Workers : at[w] = "report" /\ item[w] = t

\* Stopping.
ExitedMeansAStopWasTaken ==
    \A w \in Workers : at[w] = "exited" => Taken(StopMessage)

StoppedMeansExited ==
    phase \in {"stopped", "destroyed"} => \A w \in Workers : at[w] = "exited"

EnoughStops ==
    /\ phase # "stopAll" => stopsPushed = 0
    /\ phase = "stopAll" =>
           Cardinality(Alive)
               <= Cardinality(QueuedStops) + (StopsToPush - stopsPushed)
    /\ EveryWorkerHasAStop

Inv ==
    /\ TypeOK
    /\ TakenInOrder /\ TasksAreSentOnce
    /\ NoTaskBehindAStop /\ NoStopWhileRunning
    /\ HeldTasksAreUnfinished /\ NoTaskIsHeldTwice
    /\ TakenTasksAreHandled /\ ExceptionsAreReported
    /\ ExitedMeansAStopWasTaken /\ StoppedMeansExited /\ EnoughStops

=============================================================================
