----------------------- MODULE ComparePipelineProofs -----------------------
(***************************************************************************)
(* The safety properties of ComparePipeline for any number of workers and  *)
(* of combinations, and for queues of any size.                            *)
(*                                                                         *)
(* The argument is a composition.  Every step of the pipeline is a step of *)
(* the pool's executer, or leaves it alone, and the same for the writer's; *)
(* so the invariants of ExecuterProofs hold of both, unless main runs the  *)
(* tasks and the pool is not used at all.  What remains is the connection: *)
(* the lines pushed are those of the tasks that returned, and the output   *)
(* has the lines that the writer's executer is done with.  At the end of   *)
(* the writer's destructor everything pushed is done (StoppedMeansDone),   *)
(* and no task is left between its comparison and its push.                *)
(***************************************************************************)
EXTENDS ComparePipeline, FiniteSetTheorems, TLAPS

PoolP == INSTANCE ExecuterProofs WITH
    Workers <- PoolWorkers, QueueSize <- PoolQueueSize,
    HasExceptions <- FALSE, ExceptionsSize <- 0, Exceptions <- {},
    sent <- poolSent, received <- poolReceived, at <- poolAt,
    item <- poolItem, outcome <- poolOutcome, phase <- poolPhase,
    stopsPushed <- poolStops, destroying <- poolDestroying

WriterP == INSTANCE ExecuterProofs WITH
    Workers <- WriterWorkers, QueueSize <- WriterQueueSize,
    HasExceptions <- FALSE, ExceptionsSize <- 0, Exceptions <- {},
    sent <- writerSent, received <- writerReceived, at <- writerAt,
    item <- writerItem, outcome <- writerOutcome, phase <- writerPhase,
    stopsPushed <- writerStops, destroying <- writerDestroying

LEMMA PoolAssumed == PoolP!ExecuterAssumption
BY PipelineAssumption
   DEF Pool!ExecuterAssumption, PoolP!ExecuterAssumption,
       Pool!IsFiniteSet, PoolP!IsFiniteSet

LEMMA WriterAssumed == WriterP!ExecuterAssumption
BY PipelineAssumption
   DEF Writer!ExecuterAssumption, WriterP!ExecuterAssumption,
       Writer!IsFiniteSet, WriterP!IsFiniteSet

-----------------------------------------------------------------------------
(* The steps of the pipeline, seen from the two executers                  *)

LEMMA PoolStep ==
  ASSUME [Next]_vars, ~inline
  PROVE  [PoolP!Next]_(PoolP!vars)
<1>1. ASSUME NEW w \in PoolWorkers,
             PoolTakes(w) \/ PushLine(w) \/ CompareThrows(w)
      PROVE  PoolP!Next
  <2>1. PoolP!Work(w)
    BY <1>1 DEF PoolTakes, PushLine, CompareThrows, PoolP!Work,
        Pool!TakeTask, PoolP!TakeTask, Pool!TakeStop, PoolP!TakeStop,
        Pool!DoReturns, PoolP!DoReturns, Pool!DoThrows, PoolP!DoThrows,
        Pool!Oldest, PoolP!Oldest, Pool!ownerVars, PoolP!ownerVars,
        Pool!Queue!Take, PoolP!Queue!Take
  <2> QED
    BY <2>1 DEF PoolP!Next
<1>2. CASE Generate
  <2>1. PoolP!Add(NextTask) /\ NextTask \in Tasks
    BY <1>2 DEF Generate, Pool!Add, PoolP!Add, Pool!Added, PoolP!Added,
        Pool!workerVars, PoolP!workerVars, Pool!ownerVars, PoolP!ownerVars,
        Pool!Queue!Put, PoolP!Queue!Put, Pool!Queue!InTransit,
        PoolP!Queue!InTransit
  <2> QED
    BY <2>1 DEF PoolP!Next
<1>3. CASE StopPool \/ DestroyPool
  <2>1. PoolP!BeginStop \/ PoolP!BeginDestroy
    BY <1>3 DEF StopPool, DestroyPool, Pool!BeginStop, PoolP!BeginStop,
        Pool!BeginDestroy, PoolP!BeginDestroy, Pool!workerVars,
        PoolP!workerVars
  <2> QED
    BY <2>1 DEF PoolP!Next
<1>4. CASE Pool!Stop
  <2>1. PoolP!Stop
    BY <1>4 DEF Pool!Stop, PoolP!Stop, Pool!PushStop, PoolP!PushStop,
        Pool!StopAllReturns, PoolP!StopAllReturns, Pool!WaitAllReturns,
        PoolP!WaitAllReturns, Pool!StopsToPush, PoolP!StopsToPush,
        Pool!Joined, PoolP!Joined, Pool!workerVars, PoolP!workerVars,
        Pool!Queue!Put, PoolP!Queue!Put, Pool!Queue!InTransit,
        PoolP!Queue!InTransit, Pool!Cardinality, PoolP!Cardinality
  <2> QED
    BY <2>1 DEF PoolP!Next
<1>5. CASE UNCHANGED poolVars
  BY <1>5 DEF poolVars, PoolP!vars
<1> QED
  BY <1>1, <1>2, <1>3, <1>4, <1>5
     DEF Next, Main, RunTask, Compare, RunInline, CompareInline, ThrowInline,
         PushInline, DestroyWriter, RunStop, WriterTakes, WriteLine, vars

LEMMA WriterStep == ASSUME [Next]_vars PROVE [WriterP!Next]_(WriterP!vars)
<1>1. ASSUME NEW w \in WriterWorkers, WriterTakes(w) \/ WriteLine(w)
      PROVE  WriterP!Next
  <2>1. WriterP!Work(w)
    BY <1>1 DEF WriterTakes, WriteLine, WriterP!Work,
        Writer!TakeTask, WriterP!TakeTask, Writer!TakeStop, WriterP!TakeStop,
        Writer!DoReturns, WriterP!DoReturns,
        Writer!Oldest, WriterP!Oldest, Writer!ownerVars, WriterP!ownerVars,
        Writer!Queue!Take, WriterP!Queue!Take
  <2> QED
    BY <2>1 DEF WriterP!Next
<1>2. ASSUME NEW t, Writer!Add(t)
      PROVE  WriterP!Next
  <2>1. WriterP!Add(t) /\ t \in Tasks
    BY <1>2 DEF Writer!Add, WriterP!Add, Writer!Added, WriterP!Added,
        Writer!workerVars, WriterP!workerVars, Writer!ownerVars,
        WriterP!ownerVars, Writer!Queue!Put, WriterP!Queue!Put,
        Writer!Queue!InTransit, WriterP!Queue!InTransit
  <2> QED
    BY <2>1 DEF WriterP!Next
<1>3. CASE DestroyWriter
  <2>1. WriterP!BeginDestroy
    BY <1>3 DEF DestroyWriter, Writer!BeginDestroy, WriterP!BeginDestroy,
        Writer!workerVars, WriterP!workerVars
  <2> QED
    BY <2>1 DEF WriterP!Next
<1>4. CASE Writer!Stop
  <2>1. WriterP!Stop
    BY <1>4 DEF Writer!Stop, WriterP!Stop, Writer!PushStop, WriterP!PushStop,
        Writer!StopAllReturns, WriterP!StopAllReturns, Writer!WaitAllReturns,
        WriterP!WaitAllReturns, Writer!StopsToPush, WriterP!StopsToPush,
        Writer!Joined, WriterP!Joined, Writer!workerVars, WriterP!workerVars,
        Writer!Queue!Put, WriterP!Queue!Put, Writer!Queue!InTransit,
        WriterP!Queue!InTransit, Writer!Cardinality, WriterP!Cardinality
  <2> QED
    BY <2>1 DEF WriterP!Next
<1>5. CASE UNCHANGED writerVars
  BY <1>5 DEF writerVars, WriterP!vars
<1> QED
  BY <1>1, <1>2, <1>3, <1>4, <1>5
     DEF Next, Main, Generate, RunInline, CompareInline, ThrowInline,
         PushInline, StopPool, DestroyPool, RunStop, RunTask, PoolTakes,
         Compare, CompareThrows, PushLine, vars

-----------------------------------------------------------------------------
(* The invariant                                                           *)

PoolIsUnused ==
    /\ poolSent = <<>> /\ poolReceived = <<>>
    /\ \A w \in PoolWorkers : poolAt[w] = "pop"
    /\ poolPhase = "running"
    /\ poolOutcome \in [Tasks -> {"none", "returned", "threw"}]
    /\ \E n \in 0..Combinations :
          \A t \in Tasks : poolOutcome[t] # "none" <=> t <= n

ThePool == IF inline THEN PoolIsUnused ELSE PoolP!Inv

Pushed(t) == \E i \in 1..Len(writerSent) : writerSent[i] = t

LinesAreReturned ==
    \A t \in Tasks : Pushed(t) <=> poolOutcome[t] = "returned"

OutputIsWritten ==
    /\ output \in Seq(Tasks)
    /\ \A i, j \in 1..Len(output) : output[i] = output[j] => i = j
    /\ \A t \in Tasks :
          /\ writerOutcome[t] # "threw"
          /\ (\E i \in 1..Len(output) : output[i] = t)
                 <=> writerOutcome[t] = "returned"

DestroyedInOrder ==
    writerPhase # "running" =>
        IF inline THEN Generated = Tasks ELSE poolPhase = "destroyed"

\* A comparison that has returned is that of a task which has been taken from
\* the queue, if there is one, and which does not throw any more.
ComparedTasks ==
    /\ compared \subseteq Tasks
    /\ \A t \in Tasks : poolOutcome[t] = "returned" => t \in compared
    /\ \A t \in compared :
          poolOutcome[t] # "threw" /\ (inline \/ PoolP!Taken(t))

IInv ==
    /\ ThePool /\ WriterP!Inv
    /\ LinesAreReturned /\ OutputIsWritten
    /\ ComparedTasks /\ DestroyedInOrder

LEMMA InitIInv == ASSUME Init PROVE IInv
<1>1. PoolP!Inv
  <2>1. PoolP!Init
    BY DEF Init, Pool!Init, PoolP!Init, Pool!Queue!Init, PoolP!Queue!Init
  <2> QED
    BY <2>1, PoolAssumed, PoolP!InitInv
<1>2. WriterP!Inv
  <2>1. WriterP!Init
    BY DEF Init, Writer!Init, WriterP!Init, Writer!Queue!Init,
           WriterP!Queue!Init
  <2> QED
    BY <2>1, WriterAssumed, WriterP!InitInv
<1>3. /\ poolSent = <<>> /\ poolReceived = <<>>
      /\ \A w \in PoolWorkers : poolAt[w] = "pop"
      /\ poolPhase = "running" /\ writerPhase = "running"
      /\ poolOutcome = [t \in Tasks |-> "none"]
      /\ writerOutcome = [t \in Tasks |-> "none"]
      /\ writerSent = <<>> /\ output = <<>>
  BY DEF Init, Pool!Init, Pool!Queue!Init, Writer!Init, Writer!Queue!Init
<1>4. PoolIsUnused
  <2>1. 0 \in 0..Combinations
    BY PipelineAssumption
  <2>2. \A t \in Tasks : poolOutcome[t] # "none" <=> t <= 0
    BY <1>3, PipelineAssumption DEF Tasks
  <2> QED
    BY <1>3, <2>1, <2>2 DEF PoolIsUnused
<1>5. compared = {}
  BY DEF Init
<1>6. /\ LinesAreReturned /\ OutputIsWritten
      /\ ComparedTasks /\ DestroyedInOrder
  BY <1>3, <1>5 DEF LinesAreReturned, Pushed, OutputIsWritten, ComparedTasks,
                    DestroyedInOrder
<1> QED
  BY <1>1, <1>2, <1>4, <1>6 DEF IInv, ThePool

\* The tasks that have ended are the first n: the next is n + 1.
LEMMA NextInline ==
  ASSUME inline, PoolIsUnused,
         NEW n \in 0..Combinations,
         \A t \in Tasks : poolOutcome[t] # "none" <=> t <= n
  PROVE  NextTask = n + 1
<1>1. Generated = 1..n
  BY PipelineAssumption DEF Generated, Tasks
<1>2. Cardinality(1..n) = n
  BY FS_Interval, PipelineAssumption
<1> QED
  BY <1>1, <1>2 DEF NextTask

LEMMA NextUnused ==
  ASSUME inline, PoolIsUnused, ComparedTasks, [Next]_vars
  PROVE  PoolIsUnused'
<1> USE DEF PoolIsUnused
<1>1. ASSUME ThrowInline \/ PushInline, ComparedTasks
      PROVE  PoolIsUnused'
  <2>1. PICK n \in 0..Combinations :
            \A t \in Tasks : poolOutcome[t] # "none" <=> t <= n
    OBVIOUS
  <2>2. NextTask = n + 1 /\ n + 1 \in Tasks
    BY <1>1, <2>1, NextInline DEF ThrowInline, PushInline, ComparedTasks
  <2>3. PICK o \in {"returned", "threw"} :
            poolOutcome' = [poolOutcome EXCEPT ![n + 1] = o]
    BY <1>1, <2>2 DEF ThrowInline, PushInline, TaskEnds
  <2>4. n + 1 \in 0..Combinations
    BY <2>2, PipelineAssumption DEF Tasks
  <2>5. \A t \in Tasks : poolOutcome'[t] # "none" <=> t <= n + 1
    BY <2>1, <2>2, <2>3, PipelineAssumption DEF Tasks
  <2>6. /\ poolOutcome' \in [Tasks -> {"none", "returned", "threw"}]
        /\ UNCHANGED <<poolSent, poolReceived, poolAt, poolPhase>>
    BY <1>1, <2>3 DEF ThrowInline, PushInline, TaskEnds
  <2> QED
    BY <2>4, <2>5, <2>6
<1>2. UNCHANGED poolVars => PoolIsUnused'
  BY DEF poolVars
<1>3. \A w \in PoolWorkers : ~RunTask(w)
  <2>1. ~Pool!Queue!Take
    BY DEF Pool!Queue!Take
  <2> QED
    BY <2>1 DEF RunTask, PoolTakes, Compare, CompareThrows, PushLine,
                Pool!TakeTask, Pool!TakeStop, Pool!DoReturns, Pool!DoThrows
<1>4. ~Pool!Stop /\ ~DestroyPool /\ ~Generate /\ ~StopPool
  BY DEF DestroyPool, Generate, StopPool, Pool!Stop, Pool!PushStop,
         Pool!StopAllReturns, Pool!WaitAllReturns
<1> QED
  BY <1>1, <1>2, <1>3, <1>4
     DEF Next, Main, RunInline, CompareInline, RunStop, DestroyWriter,
         WriterTakes, WriteLine, vars

\* Only a comparison that returns pushes a line, and only the line of its task.
LEMMA PushedSteps ==
  ASSUME IInv, NEW u \in Tasks, Writer!Add(u)
  PROVE  \A t \in Tasks : Pushed(t)' <=> Pushed(t) \/ t = u
<1>1. writerSent' = Append(writerSent, u)
  BY DEF Writer!Add, Writer!Queue!Put
<1>2. writerSent \in Seq(Tasks \cup {StopMessage})
  BY DEF IInv, WriterP!Inv, WriterP!TypeOK
<1>3. /\ 1..Len(writerSent') = (1..Len(writerSent)) \cup {Len(writerSent) + 1}
      /\ \A i \in 1..Len(writerSent) : writerSent'[i] = writerSent[i]
      /\ writerSent'[Len(writerSent) + 1] = u
  BY <1>1, <1>2
<1> QED
  BY <1>3 DEF Pushed

\* A stop message is no line.
LEMMA PushedByStop ==
  ASSUME IInv, Writer!Stop
  PROVE  \A t \in Tasks : Pushed(t)' <=> Pushed(t)
<1>0. writerSent \in Seq(Tasks \cup {StopMessage}) /\ StopMessage \notin Tasks
  BY WriterAssumed DEF IInv, WriterP!Inv, WriterP!TypeOK,
     WriterP!ExecuterAssumption
<1>1. CASE writerSent' = writerSent
  BY <1>1 DEF Pushed
<1>2. CASE writerSent' = Append(writerSent, StopMessage)
  <2>1. /\ 1..Len(writerSent')
               = (1..Len(writerSent)) \cup {Len(writerSent) + 1}
        /\ \A i \in 1..Len(writerSent) : writerSent'[i] = writerSent[i]
        /\ writerSent'[Len(writerSent) + 1] = StopMessage
    BY <1>0, <1>2
  <2> QED
    BY <1>0, <2>1 DEF Pushed
<1> QED
  BY <1>1, <1>2 DEF Writer!Stop, Writer!PushStop, Writer!StopAllReturns,
                    Writer!WaitAllReturns, Writer!Queue!Put

\* What a worker of the pool holds while it compares.
LEMMA HeldByPool ==
  ASSUME IInv, NEW w \in PoolWorkers, poolAt[w] = "do"
  PROVE  /\ poolItem[w] \in Tasks /\ poolOutcome[poolItem[w]] = "none"
         /\ PoolP!Taken(poolItem[w])
         /\ DOMAIN poolOutcome = Tasks /\ ~inline
<1>1. ~inline
  BY DEF IInv, ThePool, PoolIsUnused
<1>2. PoolP!TypeOK /\ PoolP!HeldTasksAreUnfinished
  BY <1>1 DEF IInv, ThePool, PoolP!Inv
<1> QED
  BY <1>1, <1>2 DEF PoolP!TypeOK, PoolP!HeldTasksAreUnfinished

\* The task that main runs next has not ended.
LEMMA NextIsNone ==
  ASSUME IInv, inline, NextTask \in Tasks
  PROVE  DOMAIN poolOutcome = Tasks /\ poolOutcome[NextTask] = "none"
<1>1. PoolIsUnused
  BY DEF IInv, ThePool
<1>2. PICK n \in 0..Combinations :
          \A t \in Tasks : poolOutcome[t] # "none" <=> t <= n
  BY <1>1 DEF PoolIsUnused
<1>3. NextTask = n + 1 /\ ~(n + 1 <= n)
  BY <1>1, <1>2, NextInline
<1> QED
  BY <1>1, <1>2, <1>3 DEF PoolIsUnused

LEMMA NextLinesAreReturned ==
  ASSUME IInv, [Next]_vars
  PROVE  LinesAreReturned'
<1> USE DEF LinesAreReturned
<1>0. LinesAreReturned
  BY DEF IInv
<1>1. ASSUME NEW w \in PoolWorkers, PushLine(w)
      PROVE  LinesAreReturned'
  <2>1. /\ poolAt[w] = "do" /\ Writer!Add(poolItem[w])
        /\ poolOutcome' = [poolOutcome EXCEPT ![poolItem[w]] = "returned"]
    BY <1>1 DEF PushLine, Pool!DoReturns
  <2> QED
    BY <1>0, <2>1, HeldByPool, PushedSteps
<1>2. ASSUME NEW w \in PoolWorkers, CompareThrows(w)
      PROVE  LinesAreReturned'
  <2>1. /\ poolAt[w] = "do" /\ writerSent' = writerSent
        /\ poolOutcome' = [poolOutcome EXCEPT ![poolItem[w]] = "threw"]
    BY <1>2 DEF CompareThrows, Pool!DoThrows, writerVars
  <2> QED
    BY <1>0, <2>1, HeldByPool DEF Pushed
<1>3. ASSUME ThrowInline \/ PushInline
      PROVE  LinesAreReturned'
  <2>1. NextTask \in Tasks
    BY <1>3 DEF ThrowInline, PushInline, IInv, ComparedTasks
  <2>2. DOMAIN poolOutcome = Tasks /\ poolOutcome[NextTask] = "none"
    BY <1>3, <2>1, NextIsNone DEF ThrowInline, PushInline
  <2>3. CASE PushInline
    <3>1. /\ poolOutcome' = [poolOutcome EXCEPT ![NextTask] = "returned"]
          /\ Writer!Add(NextTask)
      BY <2>3 DEF PushInline, TaskEnds
    <3> QED
      BY <1>0, <2>1, <2>2, <3>1, PushedSteps
  <2>4. CASE ThrowInline
    <3>1. /\ poolOutcome' = [poolOutcome EXCEPT ![NextTask] = "threw"]
          /\ writerSent' = writerSent
      BY <2>4 DEF ThrowInline, TaskEnds, writerVars
    <3> QED
      BY <1>0, <2>1, <2>2, <3>1 DEF Pushed
  <2> QED
    BY <1>3, <2>3, <2>4
<1>4. CASE Writer!Stop /\ UNCHANGED poolVars
  BY <1>0, <1>4, PushedByStop DEF poolVars
<1>5. CASE UNCHANGED <<poolOutcome, writerSent>>
  BY <1>0, <1>5 DEF Pushed
<1>6. ASSUME NEW w \in PoolWorkers, PoolTakes(w) \/ Compare(w)
      PROVE  UNCHANGED <<poolOutcome, writerSent>>
  BY <1>6 DEF PoolTakes, Compare, Pool!TakeTask, Pool!TakeStop, poolVars,
              writerVars
<1>7. ASSUME NEW w \in WriterWorkers, WriterTakes(w) \/ WriteLine(w)
      PROVE  UNCHANGED <<poolOutcome, writerSent>>
  BY <1>7 DEF WriterTakes, WriteLine, Writer!TakeTask, Writer!TakeStop,
              Writer!DoReturns, Writer!Queue!Take, poolVars
<1>8. ASSUME Generate \/ CompareInline \/ StopPool \/ DestroyPool
             \/ DestroyWriter \/ (Pool!Stop /\ UNCHANGED writerVars)
      PROVE  UNCHANGED <<poolOutcome, writerSent>>
  BY <1>8 DEF Generate, CompareInline, StopPool, DestroyPool, DestroyWriter,
     Pool!Add,
     Pool!BeginStop, Pool!BeginDestroy, Writer!BeginDestroy, Pool!Stop,
     Pool!PushStop, Pool!StopAllReturns, Pool!WaitAllReturns,
     Pool!workerVars, poolVars, writerVars
<1> QED
  BY <1>1, <1>2, <1>3, <1>4, <1>5, <1>6, <1>7, <1>8
     DEF Next, Main, RunTask, RunInline, RunStop, vars, poolVars, writerVars

\* What the writer's worker holds while it writes.
LEMMA HeldByWriter ==
  ASSUME IInv, NEW w \in WriterWorkers, writerAt[w] = "do"
  PROVE  /\ writerItem[w] \in Tasks /\ writerOutcome[writerItem[w]] = "none"
         /\ DOMAIN writerOutcome = Tasks
<1>1. WriterP!TypeOK /\ WriterP!HeldTasksAreUnfinished
  BY DEF IInv, WriterP!Inv
<1> QED
  BY <1>1 DEF WriterP!TypeOK, WriterP!HeldTasksAreUnfinished

LEMMA NextOutputIsWritten ==
  ASSUME IInv, [Next]_vars
  PROVE  OutputIsWritten'
<1>0. OutputIsWritten
  BY DEF IInv
<1>1. ASSUME NEW w \in WriterWorkers, WriteLine(w)
      PROVE  OutputIsWritten'
  <2> DEFINE u == writerItem[w]
  <2>1. /\ writerAt[w] = "do" /\ output' = Append(output, u)
        /\ writerOutcome' = [writerOutcome EXCEPT ![u] = "returned"]
    BY <1>1 DEF WriteLine, Writer!DoReturns
  <2>2. u \in Tasks /\ writerOutcome[u] = "none" /\ DOMAIN writerOutcome = Tasks
    BY <2>1, HeldByWriter
  <2> HIDE DEF u
  <2>3. /\ output' \in Seq(Tasks)
        /\ 1..Len(output') = (1..Len(output)) \cup {Len(output) + 1}
        /\ \A i \in 1..Len(output) : output'[i] = output[i]
        /\ output'[Len(output) + 1] = u
    BY <1>0, <2>1, <2>2 DEF OutputIsWritten
  <2>4. \A i \in 1..Len(output) : output[i] # u
    BY <1>0, <2>2 DEF OutputIsWritten
  <2>5. \A i, j \in 1..Len(output') : output'[i] = output'[j] => i = j
    BY <1>0, <2>3, <2>4 DEF OutputIsWritten
  <2>6. ASSUME NEW t \in Tasks
        PROVE  /\ writerOutcome'[t] # "threw"
               /\ (\E i \in 1..Len(output') : output'[i] = t)
                      <=> writerOutcome'[t] = "returned"
    <3>1. (\E i \in 1..Len(output') : output'[i] = t)
              <=> (\E i \in 1..Len(output) : output[i] = t) \/ t = u
      BY <2>3
    <3>2. writerOutcome'[t] = IF t = u THEN "returned" ELSE writerOutcome[t]
      BY <2>1, <2>2
    <3> QED
      BY <1>0, <3>1, <3>2 DEF OutputIsWritten
  <2> QED
    BY <2>3, <2>5, <2>6 DEF OutputIsWritten
<1>2. CASE UNCHANGED <<output, writerOutcome>>
  BY <1>0, <1>2 DEF OutputIsWritten
<1>3. ASSUME NEW w \in WriterWorkers, WriterTakes(w)
      PROVE  UNCHANGED <<output, writerOutcome>>
  BY <1>3 DEF WriterTakes, Writer!TakeTask, Writer!TakeStop
<1>4. ASSUME NEW w \in PoolWorkers, RunTask(w)
      PROVE  UNCHANGED <<output, writerOutcome>>
  BY <1>4 DEF RunTask, PoolTakes, Compare, CompareThrows, PushLine,
              Writer!Add, Writer!workerVars, writerVars
<1>5. ASSUME Main
      PROVE  UNCHANGED <<output, writerOutcome>>
  BY <1>5 DEF Main, Generate, RunInline, CompareInline, ThrowInline,
     PushInline, TaskEnds, StopPool, DestroyPool, DestroyWriter, RunStop, Writer!Add, Writer!BeginDestroy, Writer!Stop,
     Writer!PushStop, Writer!StopAllReturns, Writer!WaitAllReturns,
     Writer!workerVars, writerVars
<1> QED
  BY <1>1, <1>2, <1>3, <1>4, <1>5 DEF Next, vars, writerVars

\* No step but the first takes inline for something else.
LEMMA InlineStays == ASSUME [Next]_vars PROVE inline' = inline
BY DEF Next, Main, Generate, RunInline, CompareInline, ThrowInline,
   PushInline, TaskEnds, StopPool, DestroyPool, DestroyWriter, RunStop,
   RunTask, PoolTakes, Compare, CompareThrows, PushLine, WriterTakes,
   WriteLine, vars

\* A task changes from none to compared, and then to returned; or to threw.
LEMMA NextComparedTasks ==
  ASSUME IInv, [Next]_vars
  PROVE  ComparedTasks'
<1>0. ComparedTasks /\ inline' = inline
  BY InlineStays DEF IInv
<1>1. ASSUME ~inline, NEW t, PoolP!Taken(t)
      PROVE  PoolP!Taken(t)'
  <2>1. PoolP!Inv
    BY <1>1 DEF IInv, ThePool
  <2> QED
    BY <1>1, <2>1, PoolAssumed, PoolStep, PoolP!TakenIsStable
<1>2. ASSUME NEW w \in PoolWorkers, Compare(w)
      PROVE  ComparedTasks'
  <2>1. /\ poolAt[w] = "do" /\ poolOutcome' = poolOutcome
        /\ compared' = compared \cup {poolItem[w]}
    BY <1>2 DEF Compare, poolVars
  <2> QED
    BY <1>0, <1>1, <2>1, HeldByPool DEF ComparedTasks
<1>3. ASSUME NEW w \in PoolWorkers, CompareThrows(w) \/ PushLine(w)
      PROVE  ComparedTasks'
  <2>1. /\ poolAt[w] = "do" /\ compared' = compared
        /\ \/ /\ poolItem[w] \notin compared
              /\ poolOutcome' = [poolOutcome EXCEPT ![poolItem[w]] = "threw"]
           \/ /\ poolItem[w] \in compared
              /\ poolOutcome' =
                    [poolOutcome EXCEPT ![poolItem[w]] = "returned"]
    BY <1>3 DEF CompareThrows, PushLine, Pool!DoThrows, Pool!DoReturns
  <2> QED
    BY <1>0, <1>1, <2>1, HeldByPool DEF ComparedTasks
<1>4. CASE CompareInline
  <2>1. /\ inline /\ NextTask \in Tasks /\ poolOutcome' = poolOutcome
        /\ compared' = compared \cup {NextTask}
    BY <1>4 DEF CompareInline, poolVars
  <2> QED
    BY <1>0, <2>1, NextIsNone DEF ComparedTasks
<1>5. CASE ThrowInline \/ PushInline
  <2>1. /\ inline /\ NextTask \in Tasks /\ compared' = compared
        /\ \/ /\ NextTask \notin compared
              /\ poolOutcome' = [poolOutcome EXCEPT ![NextTask] = "threw"]
           \/ /\ NextTask \in compared
              /\ poolOutcome' = [poolOutcome EXCEPT ![NextTask] = "returned"]
    BY <1>0, <1>5 DEF ThrowInline, PushInline, TaskEnds, ComparedTasks
  <2> QED
    BY <1>0, <2>1, NextIsNone DEF ComparedTasks
<1>6. CASE UNCHANGED <<compared, poolOutcome>>
  BY <1>0, <1>1, <1>6 DEF ComparedTasks
<1>7. ASSUME NEW w \in PoolWorkers, PoolTakes(w)
      PROVE  UNCHANGED <<compared, poolOutcome>>
  BY <1>7 DEF PoolTakes, Pool!TakeTask, Pool!TakeStop
<1>8. ASSUME NEW w \in WriterWorkers, WriterTakes(w) \/ WriteLine(w)
      PROVE  UNCHANGED <<compared, poolOutcome>>
  BY <1>8 DEF WriterTakes, WriteLine, poolVars
<1>9. ASSUME Generate \/ StopPool \/ DestroyPool \/ DestroyWriter \/ RunStop
      PROVE  UNCHANGED <<compared, poolOutcome>>
  BY <1>9 DEF Generate, StopPool, DestroyPool, DestroyWriter, RunStop,
     Pool!Add, Pool!BeginStop, Pool!BeginDestroy, Pool!Stop, Pool!PushStop,
     Pool!StopAllReturns, Pool!WaitAllReturns, Pool!workerVars, poolVars
<1> QED
  BY <1>2, <1>3, <1>4, <1>5, <1>6, <1>7, <1>8, <1>9
     DEF Next, Main, RunTask, RunInline, vars, poolVars

\* When main has run all tasks there is no other for it to run.
LEMMA AllInlineIsTheEnd ==
  ASSUME IInv, [Next]_vars, inline, Generated = Tasks
  PROVE  Generated' = Tasks
<1>1. \A t \in Tasks : poolOutcome[t] # "none"
  BY DEF Generated
<1>2. CASE poolOutcome' = poolOutcome
  BY <1>2, InlineStays DEF Generated
<1>3. ~(ThrowInline \/ PushInline)
  BY <1>1, NextIsNone DEF ThrowInline, PushInline, IInv, ComparedTasks
<1>4. ASSUME NEW w \in PoolWorkers
      PROVE  ~RunTask(w)
  <2>1. ~Pool!Queue!Take /\ poolAt[w] = "pop"
    BY DEF IInv, ThePool, PoolIsUnused, Pool!Queue!Take
  <2> QED
    BY <2>1 DEF RunTask, PoolTakes, Compare, CompareThrows, PushLine,
                Pool!TakeTask, Pool!TakeStop, Pool!DoReturns, Pool!DoThrows
<1> QED
  BY <1>2, <1>3, <1>4
     DEF Next, Main, RunInline, CompareInline, Generate, StopPool,
         DestroyPool, DestroyWriter, RunStop, WriterTakes, WriteLine,
         Pool!BeginDestroy, Pool!Stop, Pool!PushStop, Pool!StopAllReturns,
         Pool!WaitAllReturns, Pool!workerVars, vars, poolVars

\* The destroyed pool stays so, and the writer's destructor comes after it, or
\* after the last task that main runs.
LEMMA NextDestroyedInOrder ==
  ASSUME IInv, [Next]_vars
  PROVE  DestroyedInOrder'
<1> USE DEF DestroyedInOrder
<1>0. DestroyedInOrder
  BY DEF IInv
<1>1. inline' = inline
  BY InlineStays
<1>2. ~inline /\ poolPhase = "destroyed" => poolPhase' = "destroyed"
  BY PoolStep DEF PoolP!Next, PoolP!vars, PoolP!Work, PoolP!TakeTask,
     PoolP!TakeStop, PoolP!DoReturns, PoolP!DoThrows, PoolP!Report, PoolP!Add,
     PoolP!BeginStop, PoolP!BeginDestroy, PoolP!Stop, PoolP!PushStop,
     PoolP!StopAllReturns, PoolP!WaitAllReturns, PoolP!Destroyed,
     PoolP!ownerVars
<1>3. writerPhase = "running" /\ writerPhase' # "running" =>
          DestroyWriter \/ Writer!Stop
  BY DEF Next, Main, Generate, RunInline, CompareInline, ThrowInline,
     PushInline, StopPool, DestroyPool, RunStop, RunTask, PoolTakes, Compare,
     CompareThrows, PushLine, Writer!Add, WriterTakes, WriteLine,
     Writer!TakeTask, Writer!TakeStop, Writer!DoReturns, Writer!ownerVars,
     writerVars, vars
<1>4. writerPhase = "running" => ~Writer!Stop
  BY DEF Writer!Stop, Writer!PushStop, Writer!StopAllReturns,
         Writer!WaitAllReturns
<1>5. DestroyWriter =>
          IF inline THEN Generated = Tasks ELSE poolPhase = "destroyed"
  BY DEF DestroyWriter, WriterMayGo
<1>6. inline /\ Generated = Tasks => Generated' = Tasks
  BY AllInlineIsTheEnd
<1>7. Tasks' = Tasks
  BY DEF Tasks
<1> QED
  BY <1>0, <1>1, <1>2, <1>3, <1>4, <1>5, <1>6, <1>7

LEMMA NextIInv == ASSUME IInv, [Next]_vars PROVE IInv'
<1>1. WriterP!Inv'
  BY WriterAssumed, WriterStep, WriterP!NextInv DEF IInv
<1>2. inline' = inline
  BY InlineStays
<1>3. ThePool'
  <2>1. inline => PoolIsUnused'
    BY NextUnused DEF IInv, ThePool
  <2>2. ~inline => PoolP!Inv'
    BY PoolAssumed, PoolStep, PoolP!NextInv DEF IInv, ThePool
  <2> QED
    BY <1>2, <2>1, <2>2 DEF ThePool
<1> QED
  BY <1>1, <1>3, NextLinesAreReturned, NextOutputIsWritten,
     NextComparedTasks, NextDestroyedInOrder DEF IInv

-----------------------------------------------------------------------------
(* The theorems                                                            *)

LEMMA Invariance == Spec => []IInv
<1>1. Init => IInv
  BY InitIInv
<1>2. IInv /\ [Next]_vars => IInv'
  BY NextIInv
<1> QED
  BY <1>1, <1>2, PTL DEF Spec

\* Whoever runs the tasks, none is running when the destructor of the writer
\* starts.
THEOREM TheWriterOutlivesTheTasks == Spec => []WriterOutlivesTheTasks
<1>1. IInv => WriterOutlivesTheTasks
  <2> SUFFICES ASSUME IInv, writerPhase # "running", NEW w \in PoolWorkers
               PROVE  poolAt[w] # "do"
    BY DEF WriterOutlivesTheTasks
  <2>1. CASE inline
    BY <2>1 DEF IInv, ThePool, PoolIsUnused
  <2>2. CASE ~inline
    BY <2>2 DEF IInv, ThePool, DestroyedInOrder, PoolP!Inv,
                PoolP!StoppedMeansExited
  <2> QED
    BY <2>1, <2>2
<1> QED
  BY <1>1, Invariance, PTL

\* A sequence without repetitions is as long as its set is large.
LEMMA LengthIsCardinality ==
  ASSUME NEW S, NEW q \in Seq(S),
         \A i, j \in 1..Len(q) : q[i] = q[j] => i = j
  PROVE  Len(q) = Cardinality(ToSet(q))
<1>1. /\ q \in [1..Len(q) -> ToSet(q)] /\ Len(q) \in Nat
      /\ ToSet(q) = {q[i] : i \in 1..Len(q)}
  BY DEF ToSet
<1>2. q \in Bijection(1..Len(q), ToSet(q))
  BY <1>1 DEF Bijection, Injection, IsInjective, Surjection
<1>3. IsFiniteSet(1..Len(q)) /\ Cardinality(1..Len(q)) = Len(q)
  <2>1. 1 \in Int /\ Len(q) \in Int
    BY <1>1
  <2>2. /\ IsFiniteSet(1..Len(q))
        /\ Cardinality(1..Len(q)) = IF 1 > Len(q) THEN 0 ELSE Len(q) - 1 + 1
    BY <2>1, FS_Interval
  <2> QED
    BY <1>1, <2>2
<1> QED
  BY <1>2, <1>3, FS_Bijection DEF ExistsBijection

\* When compare_two_graphs returns, each comparison that returned has its line
\* in the output, once, and there is no other line.
THEOREM TheOutputIsComplete ==
  ASSUME WriterWorkers # {}
  PROVE  Spec => []OutputIsComplete
<1>1. IInv => OutputIsComplete
  <2> SUFFICES ASSUME IInv, writerPhase = "destroyed"
               PROVE  /\ ToSet(output) = compared
                      /\ Len(output) = Cardinality(compared)
    BY DEF OutputIsComplete
  <2>1. WriterP!StopMeansDone
    BY WriterAssumed, WriterP!StoppedMeansDone DEF IInv
  <2>2. ASSUME NEW t \in Tasks
        PROVE  Pushed(t) <=> writerOutcome[t] # "none"
    <3>1. Pushed(t) => t \in WriterP!Added
      <4>1. DOMAIN writerSent = 1..Len(writerSent)
        BY DEF IInv, WriterP!Inv, WriterP!TypeOK
      <4> QED
        BY <4>1 DEF Pushed, WriterP!Added
    <3>2. t \in WriterP!Added => writerOutcome[t] # "none"
      BY <2>1 DEF WriterP!StopMeansDone
    <3>3. writerOutcome[t] # "none" => WriterP!Taken(t)
      BY DEF IInv, WriterP!Inv, WriterP!TakenTasksAreHandled
    <3>4. WriterP!Taken(t) => Pushed(t)
      <4>1. /\ Len(writerReceived) \in Nat /\ Len(writerSent) \in Nat
            /\ Len(writerReceived) <= Len(writerSent)
        BY DEF IInv, WriterP!Inv, WriterP!TypeOK, WriterP!TakenInOrder
      <4> QED
        BY <4>1 DEF WriterP!Taken, Pushed
    <3> QED
      BY <3>1, <3>2, <3>3, <3>4
  <2>3. \A t \in Tasks : writerOutcome[t] \in {"none", "returned", "threw"}
    BY DEF IInv, WriterP!Inv, WriterP!TypeOK
  <2>4. ASSUME NEW t \in Tasks
        PROVE  poolOutcome[t] = "returned" <=> t \in compared
    <3>1. CASE inline
      <4>1. Generated = Tasks /\ PoolIsUnused
        BY <3>1 DEF IInv, ThePool, DestroyedInOrder
      <4>2. poolOutcome[t] \in {"returned", "threw"}
        BY <3>1, <4>1 DEF Generated, PoolIsUnused
      <4> QED
        BY <4>2 DEF IInv, ComparedTasks
    <3>2. CASE ~inline
      <4>1. PoolP!Inv /\ poolPhase = "destroyed"
        BY <3>2 DEF IInv, ThePool, DestroyedInOrder
      <4>2. PoolP!Taken(t) => poolOutcome[t] # "none"
        BY <4>1 DEF PoolP!Inv, PoolP!StoppedMeansExited,
                    PoolP!TakenTasksAreHandled
      <4>3. poolOutcome[t] \in {"none", "returned", "threw"}
        BY <4>1 DEF PoolP!Inv, PoolP!TypeOK
      <4> QED
        BY <3>2, <4>2, <4>3 DEF IInv, ComparedTasks
    <3> QED
      BY <3>1, <3>2
  <2>5. ToSet(output) = compared
    <3>1. DOMAIN output = 1..Len(output)
          /\ \A i \in 1..Len(output) : output[i] \in Tasks
      BY DEF IInv, OutputIsWritten
    <3>2. \A t \in Tasks : (\E i \in 1..Len(output) : output[i] = t)
                               <=> poolOutcome[t] = "returned"
      BY <2>2, <2>3 DEF IInv, OutputIsWritten, LinesAreReturned
    <3>3. compared \subseteq Tasks
      BY DEF IInv, ComparedTasks
    <3> QED
      BY <2>4, <3>1, <3>2, <3>3 DEF ToSet
  <2>6. Len(output) = Cardinality(ToSet(output))
    BY LengthIsCardinality DEF IInv, OutputIsWritten
  <2> QED
    BY <2>5, <2>6
<1> QED
  BY <1>1, Invariance, PTL

-----------------------------------------------------------------------------
(* The order of the lines, which depends on the writer's single worker     *)

\* How far the writer's worker is: it has written what it has taken, but for
\* the line in its hands.
WrittenInOrder(v) ==
    /\ Len(output) <= Len(writerReceived)
    /\ \A i \in 1..Len(output) : output[i] = writerSent[i]
    /\ writerAt[v] = "pop" => Len(writerReceived) = Len(output)
    /\ writerAt[v] = "do" =>
          /\ Len(writerReceived) = Len(output) + 1
          /\ writerItem[v] = writerSent[Len(writerReceived)]

LEMMA WriterTypes ==
  ASSUME IInv
  PROVE  /\ output \in Seq(Tasks)
         /\ writerSent \in Seq(Tasks \cup {StopMessage})
         /\ writerReceived \in Seq(Tasks \cup {StopMessage})
         /\ Len(writerReceived) <= Len(writerSent)
         /\ DOMAIN writerAt = WriterWorkers
         /\ DOMAIN writerItem = WriterWorkers
<1>1. WriterP!TypeOK /\ WriterP!TakenInOrder
  BY DEF IInv, WriterP!Inv
<1> QED
  BY <1>1 DEF WriterP!TypeOK, WriterP!TakenInOrder, IInv, OutputIsWritten

LEMMA NextWrittenInOrder ==
  ASSUME NEW v, WriterWorkers = {v}, IInv, WrittenInOrder(v), [Next]_vars
  PROVE  WrittenInOrder(v)'
<1> USE DEF WrittenInOrder
<1>0. /\ output \in Seq(Tasks)
      /\ writerSent \in Seq(Tasks \cup {StopMessage})
      /\ writerReceived \in Seq(Tasks \cup {StopMessage})
      /\ Len(writerReceived) <= Len(writerSent)
      /\ DOMAIN writerAt = {v} /\ DOMAIN writerItem = {v}
  BY WriterTypes
<1>1. CASE WriterTakes(v)
  <2>1. /\ writerAt[v] = "pop" /\ UNCHANGED <<writerSent, output>>
        /\ writerReceived' = Append(writerReceived,
                                    writerSent[Len(writerReceived) + 1])
        /\ Len(writerSent) > Len(writerReceived)
        /\ \/ writerAt' = [writerAt EXCEPT ![v] = "exited"]
           \/ /\ writerAt' = [writerAt EXCEPT ![v] = "do"]
              /\ writerItem' = [writerItem EXCEPT
                                  ![v] = writerSent[Len(writerReceived) + 1]]
    BY <1>0, <1>1 DEF WriterTakes, Writer!TakeTask, Writer!TakeStop,
                      Writer!Queue!Take, Writer!Queue!InTransit, Writer!Oldest
  <2>2. Len(writerReceived') = Len(writerReceived) + 1
    BY <1>0, <2>1
  <2> QED
    BY <1>0, <2>1, <2>2
<1>2. CASE WriteLine(v)
  <2>1. /\ writerAt[v] = "do" /\ UNCHANGED <<writerSent, writerReceived>>
        /\ writerAt' = [writerAt EXCEPT ![v] = "pop"]
        /\ output' = Append(output, writerItem[v])
    BY <1>2 DEF WriteLine, Writer!DoReturns
  <2>2. writerItem[v] \in Tasks
    BY <2>1, HeldByWriter
  <2>3. /\ Len(output') = Len(output) + 1
        /\ \A i \in 1..Len(output) : output'[i] = output[i]
        /\ output'[Len(output) + 1] = writerItem[v]
    BY <1>0, <2>1, <2>2
  <2> QED
    BY <1>0, <2>1, <2>3
<1>3. CASE /\ UNCHANGED <<writerReceived, writerAt, writerItem, output>>
           /\ \/ writerSent' = writerSent
              \/ \E m \in Tasks \cup {StopMessage} :
                    writerSent' = Append(writerSent, m)
  <2>1. \A i \in 1..Len(writerSent) : writerSent'[i] = writerSent[i]
    <3>1. ASSUME NEW m \in Tasks \cup {StopMessage},
                 writerSent' = Append(writerSent, m)
          PROVE  \A i \in 1..Len(writerSent) : writerSent'[i] = writerSent[i]
      <4>1. writerSent \in Seq(Tasks \cup {StopMessage})
        BY <1>0
      <4> QED
        BY <3>1, <4>1
    <3> QED
      BY <1>3, <3>1
  <2>2. /\ Len(output) \in Nat /\ Len(writerReceived) \in Nat
        /\ Len(writerSent) \in Nat
    BY <1>0
  <2>3. \A i \in 1..Len(output) : output[i] = writerSent'[i]
    BY <1>0, <2>1, <2>2
  <2>4. writerAt[v] = "do" =>
            writerSent'[Len(writerReceived)] = writerSent[Len(writerReceived)]
    BY <1>0, <2>1, <2>2
  <2> QED
    BY <1>3, <2>3, <2>4
<1>4. ASSUME NEW t, Writer!Add(t) \/ Writer!Stop \/ Writer!BeginDestroy
      PROVE  /\ UNCHANGED <<writerReceived, writerAt, writerItem>>
             /\ \/ writerSent' = writerSent
                \/ \E m \in Tasks \cup {StopMessage} :
                      writerSent' = Append(writerSent, m)
  BY <1>4 DEF Writer!Add, Writer!Stop, Writer!BeginDestroy, Writer!PushStop,
     Writer!StopAllReturns, Writer!WaitAllReturns, Writer!workerVars,
     Writer!Queue!Put
<1> QED
  BY <1>1, <1>2, <1>3, <1>4
     DEF Next, Main, Generate, RunInline, CompareInline, ThrowInline,
         PushInline, TaskEnds, StopPool, DestroyPool, DestroyWriter, RunStop,
         RunTask, PoolTakes, Compare, CompareThrows, PushLine, vars,
         writerVars

\* With a single worker, as in the code, the writer puts the lines into the
\* output in the order in which the comparisons pushed them.
THEOREM TheLinesKeepTheirOrder ==
  ASSUME NEW v, WriterWorkers = {v}
  PROVE  Spec => []LinesKeepTheirOrder
<1>1. Init => WrittenInOrder(v)
  BY DEF Init, Writer!Init, Writer!Queue!Init, WrittenInOrder
<1>2. IInv /\ WrittenInOrder(v) /\ [Next]_vars => WrittenInOrder(v)'
  BY NextWrittenInOrder
<1>3. IInv /\ WrittenInOrder(v) => LinesKeepTheirOrder
  <2> SUFFICES ASSUME IInv, WrittenInOrder(v)
               PROVE  IsPrefix(output, writerSent)
    BY DEF LinesKeepTheirOrder
  <2>1. /\ output \in Seq(Tasks)
        /\ writerSent \in Seq(Tasks \cup {StopMessage})
        /\ Len(output) <= Len(writerSent)
    BY WriterTypes DEF WrittenInOrder
  <2> QED
    BY <2>1 DEF WrittenInOrder, IsPrefix
<1> QED
  BY <1>1, <1>2, <1>3, Invariance, PTL DEF Spec

=============================================================================
