-------------------------- MODULE ComparePipeline --------------------------
(***************************************************************************)
(* The part of compare_two_graphs (bin/graph_cases.cpp) that has threads.  *)
(* The main thread generates the combinations of edges to delete and gives *)
(* each to an executer as a task; a task compares two graphs, which may    *)
(* throw, and then pushes the line it made to TWriter, which may wait      *)
(* (lib/multithread_writer).  The writer owns an executer with a single    *)
(* worker that writes the lines to the output.                             *)
(*                                                                         *)
(* Both executers are instances of Executer.  With a thread count of 1     *)
(* CreateExecuter returns a TSingleThreadExecuter instead, which runs a    *)
(* task inside Add() and has nothing to stop: then inline is TRUE and the  *)
(* pool is never used.                                                     *)
(***************************************************************************)
EXTENDS Naturals, Sequences, FiniteSets, SequencesExt

CONSTANTS
    PoolWorkers,    \* threads of the executer when threadCount is not 1
    WriterWorkers,  \* threads of the writer's executer: one in the code
    StopMessage,
    NoTask,
    PoolQueueSize,      \* 1000 in the code
    WriterQueueSize,    \* 1000 in the code
    Combinations    \* number of combinations that the generator yields

VARIABLES
    poolSent, poolReceived, poolAt, poolItem, poolOutcome,
    poolPhase, poolStops, poolDestroying,
    writerSent, writerReceived, writerAt, writerItem, writerOutcome,
    writerPhase, writerStops, writerDestroying,
    inline,         \* whether threadCount is 1
    compared,       \* the tasks whose comparison has returned: they are in,
                    \* or behind, Writer.Push()
    output,         \* the lines in the output, by the number of their task
    terminated      \* an exception has left main()

poolVars == <<poolSent, poolReceived, poolAt, poolItem, poolOutcome,
              poolPhase, poolStops, poolDestroying>>
writerVars == <<writerSent, writerReceived, writerAt, writerItem,
                writerOutcome, writerPhase, writerStops, writerDestroying>>
vars == <<poolVars, writerVars, inline, compared, output, terminated>>

Tasks == 1..Combinations

Pool == INSTANCE Executer WITH
    Workers <- PoolWorkers, QueueSize <- PoolQueueSize,
    HasExceptions <- FALSE, ExceptionsSize <- 0, Exceptions <- {},
    sent <- poolSent, received <- poolReceived, at <- poolAt,
    item <- poolItem, outcome <- poolOutcome, phase <- poolPhase,
    stopsPushed <- poolStops, destroying <- poolDestroying

Writer == INSTANCE Executer WITH
    Workers <- WriterWorkers, QueueSize <- WriterQueueSize,
    HasExceptions <- FALSE, ExceptionsSize <- 0, Exceptions <- {},
    sent <- writerSent, received <- writerReceived, at <- writerAt,
    item <- writerItem, outcome <- writerOutcome, phase <- writerPhase,
    stopsPushed <- writerStops, destroying <- writerDestroying

ASSUME PipelineAssumption ==
    /\ Combinations \in Nat
    /\ Pool!ExecuterAssumption
    /\ Writer!ExecuterAssumption

Init ==
    /\ Pool!Init
    /\ Writer!Init
    /\ inline \in BOOLEAN
    /\ compared = {}
    /\ output = <<>>
    /\ terminated = FALSE

-----------------------------------------------------------------------------
(* The workers of the pool run TCompareGraphsTask.                         *)

PoolTakes(w) ==
    /\ Pool!TakeTask(w) \/ Pool!TakeStop(w)
    /\ UNCHANGED <<writerVars, inline, compared, output, terminated>>

\* CompareSourceAndDense() returns ...
Compare(w) ==
    /\ poolAt[w] = "do" /\ poolItem[w] \notin compared
    /\ compared' = compared \cup {poolItem[w]}
    /\ UNCHANGED <<poolVars, writerVars, inline, output, terminated>>

\* ... or throws.  Nobody asked for the exceptions: there is no line.
CompareThrows(w) ==
    /\ poolItem[w] \notin compared
    /\ Pool!DoThrows(w)
    /\ UNCHANGED <<writerVars, inline, compared, output, terminated>>

\* The last call of Do() is Writer.Push(), which waits for room.  A task that
\* waits has no other way on.
PushLine(w) ==
    /\ poolItem[w] \in compared
    /\ Pool!DoReturns(w)
    /\ Writer!Add(poolItem[w])
    /\ UNCHANGED <<inline, compared, output, terminated>>

RunTask(w) == PoolTakes(w) \/ Compare(w) \/ CompareThrows(w) \/ PushLine(w)

-----------------------------------------------------------------------------
(* The writer's worker runs TWriterTask, which does not throw: the output  *)
(* stream has no exceptions enabled.                                       *)

WriterTakesAtTheEnd(w) ==                                   \* for a mutant
    /\ writerPhase # "running"
    /\ Writer!TakeTask(w) \/ Writer!TakeStop(w)
    /\ UNCHANGED <<poolVars, inline, compared, output, terminated>>

WriterTakes(w) ==
    /\ Writer!TakeTask(w) \/ Writer!TakeStop(w)
    /\ UNCHANGED <<poolVars, inline, compared, output, terminated>>

WriteLine(w) ==
    /\ Writer!DoReturns(w)
    /\ output' = Append(output, writerItem[w])
    /\ UNCHANGED <<poolVars, inline, compared, terminated>>

-----------------------------------------------------------------------------
(* The main thread                                                         *)

\* Tasks ended so far when main runs them itself, added so far otherwise.
Generated ==
    IF inline THEN {t \in Tasks : poolOutcome[t] # "none"}
              ELSE Pool!Added
NextTask == Cardinality(Generated) + 1

\* executer->Add() of the generator's next combination.
Generate ==
    /\ ~inline
    /\ NextTask \in Tasks
    /\ Pool!Add(NextTask)
    /\ UNCHANGED <<writerVars, inline, compared, output, terminated>>

\* TSingleThreadExecuter::Add() runs the task, in the same steps: it compares,
\* or throws, and then it pushes.
TaskEnds(outcome) ==
    /\ poolOutcome' = [poolOutcome EXCEPT ![NextTask] = outcome]
    /\ UNCHANGED <<poolSent, poolReceived, poolAt, poolItem, poolPhase,
                   poolStops, poolDestroying, inline, compared, output>>

CompareInline ==
    /\ inline
    /\ NextTask \in Tasks \ compared
    /\ compared' = compared \cup {NextTask}
    /\ UNCHANGED <<poolVars, writerVars, inline, output, terminated>>

\* main catches no exception.
ThrowInline ==
    /\ inline
    /\ NextTask \in Tasks \ compared
    /\ TaskEnds("threw")
    /\ terminated' = TRUE
    /\ UNCHANGED writerVars

PushInline ==
    /\ inline
    /\ NextTask \in compared
    /\ TaskEnds("returned")
    /\ Writer!Add(NextTask)
    /\ UNCHANGED terminated

RunInline == CompareInline \/ ThrowInline \/ PushInline

\* executer->Stop() when the generator is exhausted, ...
StopPool ==
    /\ ~inline
    /\ Generated = Tasks
    /\ Pool!BeginStop
    /\ UNCHANGED <<writerVars, inline, compared, output, terminated>>

\* ... then the destructors, in the reverse order of the declarations.
DestroyPool ==
    /\ poolPhase = "stopped"
    /\ Pool!BeginDestroy
    /\ UNCHANGED <<writerVars, inline, compared, output, terminated>>

WriterOutlivesNobody == poolPhase = "stopAll"               \* for a mutant
WriterMayGo == IF inline THEN Generated = Tasks ELSE poolPhase = "destroyed"

DestroyWriter ==
    /\ WriterMayGo
    /\ Writer!BeginDestroy
    /\ UNCHANGED <<poolVars, inline, compared, output, terminated>>

RunStop ==
    /\ UNCHANGED <<inline, compared, output, terminated>>
    /\ \/ Pool!Stop /\ UNCHANGED writerVars
       \/ Writer!Stop /\ UNCHANGED poolVars

Main ==
    \/ Generate \/ RunInline \/ StopPool
    \/ DestroyPool \/ DestroyWriter \/ RunStop

Ended == writerPhase = "destroyed" \/ terminated

-----------------------------------------------------------------------------

Next ==
    \/ /\ ~terminated
       /\ \/ \E w \in PoolWorkers : RunTask(w)
          \/ \E w \in WriterWorkers : WriterTakes(w) \/ WriteLine(w)
          \/ Main
    \/ Ended /\ UNCHANGED vars

Spec == Init /\ [][Next]_vars

\* All threads are scheduled, all comparisons end, and a push that waits goes
\* on when there is room; main runs to its end.
Fairness ==
    /\ \A w \in PoolWorkers : WF_vars(RunTask(w))
    /\ \A w \in WriterWorkers : WF_vars(WriterTakes(w) \/ WriteLine(w))
    /\ WF_vars(Main)

FairSpec == Spec /\ Fairness

-----------------------------------------------------------------------------
(* Properties                                                              *)

\* When compare_two_graphs returns, the output has one line for each
\* combination whose comparison returned, and no other line: no line is still
\* in a task or a queue, lost, or written twice.
OutputIsComplete ==
    writerPhase = "destroyed" =>
        /\ ToSet(output) = compared
        /\ Len(output) = Cardinality(compared)

\* The lines reach the output in the order in which they were pushed to the
\* writer: its executer has a single worker.
LinesKeepTheirOrder == IsPrefix(output, writerSent)

\* No task is running when the writer is on its way out: the executer is
\* declared after the writer and goes first.
WriterOutlivesTheTasks ==
    writerPhase # "running" => \A w \in PoolWorkers : poolAt[w] # "do"

\* compare_two_graphs returns, or the exception of a task run by the main
\* thread ends the program.  Tasks that wait for room in the writer's queue
\* while main adds, or waits in Stop(), wait for the writer's thread only.
\* True when each queue has room for one stop message per worker, as those of
\* the program have for up to 1000 threads; see DestructorReturns of Executer.
PipelineEnds == <>Ended

=============================================================================
