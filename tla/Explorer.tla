------------------------------ MODULE Explorer ------------------------------
(***************************************************************************)
(* invariant_explorer/main.cpp: for each number of edges, the smallest and *)
(* the largest value of an invariant over all ways to delete that many     *)
(* edges.  A task computes the invariant of one graph and adds the value   *)
(* to the TResultCollector of its number of edges, under the collector's   *)
(* mutex.  main() stops the executer and then reads the collectors without *)
(* that mutex.  A collector is found by its number: that the tasks point   *)
(* into a deque, which grows and is returned, is not modelled.             *)
(*                                                                         *)
(* The tasks are numbered in the order in which CheckAllEdges adds them.   *)
(* With a thread count of 1 CreateExecuter returns a TSingleThreadExecuter,*)
(* whose Add() runs the task and whose Stop() does nothing: then inline is *)
(* TRUE, and the queue stays empty because there are no workers.           *)
(***************************************************************************)
EXTENDS Executer, FiniteSetsExt

CONSTANTS
    NumberOfTasks,
    MaxNumberOfEdges,
    EdgesOf,        \* the number of edges that a task deletes
    Numbers,        \* bound of the model: the values an invariant may have
    MaxUnsigned     \* numeric_limits<unsigned>::max()

ASSUME ExplorerAssumption ==
    /\ NumberOfTasks \in Nat
    /\ MaxNumberOfEdges \in Nat
    /\ MaxUnsigned \in Nat
    /\ Tasks = 1..NumberOfTasks
    /\ EdgesOf \in [Tasks -> 1..MaxNumberOfEdges]
    /\ \A t \in 1..(NumberOfTasks - 1) : EdgesOf[t] <= EdgesOf[t + 1]
    /\ Numbers \subseteq 0..MaxUnsigned
    /\ ~HasExceptions

VARIABLES
    inline,         \* whether the thread count is 1
    collectors,     \* the deque of collectors: their minima and maxima
    next,           \* the next task to add
    rows,           \* what main() has printed
    terminated,     \* an exception has left main()
    computed        \* history: the value that each task has computed

explorerVars == <<inline, collectors, next, rows, terminated, computed>>
allVars == <<vars, explorerVars>>

EmptyResult == [min |-> MaxUnsigned, max |-> 0]

ExplorerInit ==
    /\ Init
    /\ inline \in BOOLEAN
    /\ collectors = <<>>
    /\ next = 1
    /\ rows = <<>>
    /\ terminated = FALSE
    /\ computed = [t \in Tasks |-> 0]

\* TResultCollector::Add
Collect(c, v) == [min |-> Min({c.min, v}), max |-> Max({c.max, v})]

\* Do() computes the invariant of the graph of t.
CollectFor(t) == \E v \in Numbers :
    /\ collectors' = [collectors EXCEPT ![EdgesOf[t]] = Collect(@, v)]
    /\ computed' = [computed EXCEPT ![t] = v]

-----------------------------------------------------------------------------
(* The workers                                                             *)

TaskReturns(w) ==
    /\ DoReturns(w)
    /\ CollectFor(item[w])
    /\ UNCHANGED <<inline, next, rows, terminated>>

WorkerStep(w) ==
    \/ TaskReturns(w)
    \/ (TakeTask(w) \/ TakeStop(w) \/ DoThrows(w)) /\ UNCHANGED explorerVars

-----------------------------------------------------------------------------
(* The main thread                                                         *)

\* The collector of a number of edges is made before its tasks are added.
HasCollector(t) == EdgesOf[t] <= Len(collectors)

NewCollector ==
    /\ phase = "running"
    /\ Len(collectors) < MaxNumberOfEdges
    /\ next \in Tasks => ~HasCollector(next)
    /\ collectors' = Append(collectors, EmptyResult)
    /\ UNCHANGED <<vars, inline, next, rows, terminated, computed>>

AddTask ==
    /\ ~inline
    /\ next \in Tasks /\ HasCollector(next)
    /\ Add(next)
    /\ next' = next + 1
    /\ UNCHANGED <<inline, collectors, rows, terminated, computed>>

RunInline ==
    /\ inline
    /\ phase = "running"
    /\ next \in Tasks /\ HasCollector(next)
    /\ \/ /\ outcome' = [outcome EXCEPT ![next] = "returned"]
          /\ CollectFor(next)
          /\ UNCHANGED terminated
       \/ /\ outcome' = [outcome EXCEPT ![next] = "threw"]
          /\ terminated' = TRUE
          /\ UNCHANGED <<collectors, computed>>
    /\ next' = next + 1
    /\ UNCHANGED <<sent, received, at, item, Exceptions, ownerVars,
                   inline, rows>>

\* Stop() and the destructor of the single-thread executer.
ReturnsAtOnce(before, after) ==
    /\ phase = before
    /\ phase' = after
    /\ UNCHANGED <<sent, received, workerVars, stopsPushed, destroying>>

StopExecuter ==
    /\ next = NumberOfTasks + 1
    /\ Len(collectors) = MaxNumberOfEdges
    /\ IF inline THEN ReturnsAtOnce("running", "stopped") ELSE BeginStop
    /\ UNCHANGED explorerVars

MayPrintAtOnce == phase \in {"waitAll", "stopped"}          \* for a mutant
MayPrint == phase = "stopped"

PrintRow ==
    /\ MayPrint
    /\ Len(rows) < MaxNumberOfEdges
    /\ rows' = Append(rows, collectors[Len(rows) + 1])
    /\ UNCHANGED <<vars, inline, collectors, next, terminated, computed>>

DestroyExecuter ==
    /\ phase = "stopped"
    /\ Len(rows) = MaxNumberOfEdges
    /\ IF inline THEN ReturnsAtOnce("stopped", "destroyed") ELSE BeginDestroy
    /\ UNCHANGED explorerVars

Main ==
    \/ NewCollector \/ AddTask \/ RunInline \/ StopExecuter
    \/ Stop /\ UNCHANGED explorerVars
    \/ PrintRow \/ DestroyExecuter

ExplorerEnded == phase = "destroyed" \/ terminated

-----------------------------------------------------------------------------

ExplorerNext ==
    \/ /\ ~terminated
       /\ Main \/ (\E w \in Workers : WorkerStep(w))
    \/ ExplorerEnded /\ UNCHANGED allVars

ExplorerSpec == ExplorerInit /\ [][ExplorerNext]_allVars

ExplorerFairSpec ==
    /\ ExplorerSpec
    /\ WF_allVars(~terminated /\ Main)
    /\ \A w \in Workers : WF_allVars(~terminated /\ WorkerStep(w))

-----------------------------------------------------------------------------
(* Properties                                                              *)

\* The values that count for the row of e: those of the tasks that returned.
Values(e) == {computed[t] : t \in {u \in Tasks : EdgesOf[u] = e
                                                 /\ outcome[u] = "returned"}}

\* A printed row is the minimum and the maximum over the tasks of its number of
\* edges that have returned, although the collector is read without its mutex:
\* no task is left that could still change it.  A task that threw does not
\* count; its exception is swallowed.
RowsAreFinal ==
    \A e \in DOMAIN rows :
        rows[e] = IF Values(e) = {} THEN EmptyResult
                  ELSE [min |-> Min(Values(e)), max |-> Max(Values(e))]

\* The program ends, with one row for each number of edges, if the queue has
\* room for a stop message of each worker.  With --max-queue-size below the
\* number of threads the destructor's second StopAll waits for ever: see
\* DestructorReturns in Executer.
ExplorerEnds ==
    <>(\/ terminated
       \/ phase = "destroyed" /\ Len(rows) = MaxNumberOfEdges)

=============================================================================
