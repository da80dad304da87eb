--------------------------- MODULE ExplorerProofs ---------------------------
(***************************************************************************)
(* RowsAreFinal for any number of workers, tasks and edges, and a queue of *)
(* any size.                                                               *)
(*                                                                         *)
(* Each step of the program is a step of its executer (or leaves it        *)
(* alone), so Inv of ExecuterProofs holds, unless main runs the tasks and  *)
(* the executer has no worker to run any.  Each collector has the extremes *)
(* of the tasks that have returned: CollectorsAreExact.  What makes the    *)
(* unlocked reads safe is RowsComeLast: a row is printed only when no      *)
(* worker is left, or no call of Do() by main.                             *)
(***************************************************************************)
EXTENDS Explorer, ExecuterProofs

USE ExplorerAssumption

-----------------------------------------------------------------------------
(* The invariant                                                           *)

Result == [min : 0..MaxUnsigned, max : 0..MaxUnsigned]

ExplorerTypeOK ==
    /\ inline \in BOOLEAN
    /\ next \in 1..(NumberOfTasks + 1)
    /\ collectors \in Seq(Result)
    /\ rows \in Seq(Result)
    /\ computed \in [Tasks -> 0..MaxUnsigned]

\* With a thread count of 1 there are no workers, and the tasks that have
\* ended are those before the next one.
ExecuterIsUnused ==
    /\ sent = <<>> /\ received = <<>>
    /\ \A w \in Workers : at[w] = "pop"
    /\ phase \in {"running", "stopped", "destroyed"}
    /\ outcome \in [Tasks -> {"none", "returned", "threw"}]
    /\ \A t \in Tasks : outcome[t] # "none" <=> t < next

TheExecuter == IF inline THEN ExecuterIsUnused ELSE Inv

\* A task that was added, or run by main, finds its collector.
TasksHaveCollectors ==
    \A t \in Tasks : t \in Added \/ outcome[t] # "none" => HasCollector(t)

Least(x, S) == x \in S /\ \A y \in S : x <= y
Greatest(x, S) == x \in S /\ \A y \in S : y <= x

\* No value is lost and none is counted that was not computed.
Exact(c, S) ==
    IF S = {} THEN c = EmptyResult
              ELSE Least(c.min, S) /\ Greatest(c.max, S)

CollectorsAreExact ==
    \A e \in 1..Len(collectors) : Exact(collectors[e], Values(e))

\* When the first row is printed nobody is left who could run a task.
RowsComeLast ==
    /\ rows # <<>> =>
           /\ phase # "running"
           /\ inline \/ \A w \in Workers : at[w] = "exited"
           /\ Len(collectors) = MaxNumberOfEdges
    /\ Len(rows) <= Len(collectors)
    /\ \A e \in 1..Len(rows) : rows[e] = collectors[e]
    /\ phase # "running" => Len(collectors) = MaxNumberOfEdges

IInv ==
    /\ ExplorerTypeOK /\ TheExecuter
    /\ TasksHaveCollectors /\ CollectorsAreExact /\ RowsComeLast

-----------------------------------------------------------------------------
(* The extremes of a set                                                   *)

LEMMA LeastIsMin ==
  ASSUME NEW S \in SUBSET Int, NEW x, Least(x, S)
  PROVE  Min(S) = x
<1>1. x \in S /\ \A y \in S : x <= y
  BY DEF Least
<1>2. \A z \in S : (\A y \in S : z <= y) => z = x
  BY <1>1
<1> QED
  BY <1>1, <1>2 DEF Min

LEMMA GreatestIsMax ==
  ASSUME NEW S \in SUBSET Int, NEW x, Greatest(x, S)
  PROVE  Max(S) = x
<1>1. x \in S /\ \A y \in S : x >= y
  BY DEF Greatest
<1>2. \A z \in S : (\A y \in S : z >= y) => z = x
  BY <1>1
<1> QED
  BY <1>1, <1>2 DEF Max

LEMMA MinOfTwo ==
  ASSUME NEW a \in Int, NEW b \in Int
  PROVE  Min({a, b}) = IF a <= b THEN a ELSE b
<1>1. Least(IF a <= b THEN a ELSE b, {a, b})
  BY DEF Least
<1> QED
  BY <1>1, LeastIsMin

LEMMA MaxOfTwo ==
  ASSUME NEW a \in Int, NEW b \in Int
  PROVE  Max({a, b}) = IF a <= b THEN b ELSE a
<1>1. Greatest(IF a <= b THEN b ELSE a, {a, b})
  BY DEF Greatest
<1> QED
  BY <1>1, GreatestIsMax

\* TResultCollector::Add keeps the extremes of what was added, from the
\* first value on, which replaces both initial values.
LEMMA CollectIsExact ==
  ASSUME NEW S \in SUBSET (0..MaxUnsigned), NEW v \in 0..MaxUnsigned,
         NEW c \in Result, Exact(c, S)
  PROVE  Exact(Collect(c, v), S \cup {v}) /\ Collect(c, v) \in Result
<1>1. /\ c.min \in 0..MaxUnsigned /\ c.max \in 0..MaxUnsigned
      /\ 0..MaxUnsigned \subseteq Int
  BY DEF Result
<1>2. /\ Collect(c, v).min = (IF c.min <= v THEN c.min ELSE v)
      /\ Collect(c, v).max = (IF c.max <= v THEN v ELSE c.max)
      /\ Collect(c, v) = [min |-> Collect(c, v).min, max |-> Collect(c, v).max]
  BY <1>1, MinOfTwo, MaxOfTwo DEF Collect
<1>3. Collect(c, v) \in Result
  BY <1>1, <1>2 DEF Result
<1>4. CASE S = {}
  <2>1. c.min = MaxUnsigned /\ c.max = 0
    BY <1>4 DEF Exact, EmptyResult
  <2>2. Collect(c, v).min = v /\ Collect(c, v).max = v
    BY <1>2, <2>1
  <2> QED
    BY <1>3, <1>4, <2>2 DEF Exact, Least, Greatest
<1>5. CASE S # {}
  BY <1>1, <1>2, <1>3, <1>5 DEF Exact, Least, Greatest
<1> QED
  BY <1>4, <1>5

-----------------------------------------------------------------------------
(* What a task does to the values that count                               *)

\* A task that returns adds its value to those of its number of edges.
LEMMA ReturningAddsAValue ==
  ASSUME ExplorerTypeOK, outcome \in [Tasks -> {"none", "returned", "threw"}],
         NEW t \in Tasks, NEW v, outcome[t] = "none",
         outcome' = [outcome EXCEPT ![t] = "returned"],
         computed' = [computed EXCEPT ![t] = v]
  PROVE  \A e : Values(e)' = IF EdgesOf[t] = e THEN Values(e) \cup {v}
                                               ELSE Values(e)
<1>1. ASSUME NEW e
      PROVE  Values(e)' = IF EdgesOf[t] = e THEN Values(e) \cup {v}
                                            ELSE Values(e)
  <2> DEFINE Ended == {u \in Tasks : EdgesOf[u] = e /\ outcome[u] = "returned"}
  <2>1. Ended' = IF EdgesOf[t] = e THEN Ended \cup {t} ELSE Ended
    OBVIOUS
  <2>2. t \notin Ended
    OBVIOUS
  <2>3. \A u \in Ended : computed'[u] = computed[u]
    BY <2>2 DEF ExplorerTypeOK
  <2>4. computed'[t] = v
    BY DEF ExplorerTypeOK
  <2>5. Values(e) = {computed[u] : u \in Ended}
    BY DEF Values
  <2>6. Values(e)' = {computed'[u] : u \in Ended'}
    BY DEF Values
  <2> HIDE DEF Ended
  <2> QED
    BY <2>1, <2>3, <2>4, <2>5, <2>6
<1> QED
  BY <1>1

\* A task that throws adds none.
LEMMA ThrowingAddsNoValue ==
  ASSUME outcome \in [Tasks -> {"none", "returned", "threw"}],
         NEW t \in Tasks, outcome[t] = "none",
         outcome' = [outcome EXCEPT ![t] = "threw"],
         UNCHANGED computed
  PROVE  \A e : Values(e)' = Values(e)
<1>1. ASSUME NEW e PROVE Values(e)' = Values(e)
  <2>1. {u \in Tasks : EdgesOf[u] = e /\ outcome[u] = "returned"}'
           = {u \in Tasks : EdgesOf[u] = e /\ outcome[u] = "returned"}
    OBVIOUS
  <2> QED
    BY <2>1 DEF Values
<1> QED
  BY <1>1

LEMMA ValuesAreNumbers ==
  ASSUME ExplorerTypeOK, NEW e PROVE Values(e) \in SUBSET (0..MaxUnsigned)
BY DEF Values, ExplorerTypeOK

-----------------------------------------------------------------------------
(* The executer's part of the invariant                                    *)

\* Unless main runs the tasks, a step is a step of the executer, whose queue
\* of exceptions nobody asked for.
LEMMA ExecuterStep ==
  ASSUME [ExplorerNext]_allVars, ~inline
  PROVE  [Next]_vars
<1>1. ASSUME NEW w \in Workers, WorkerStep(w) PROVE Next
  BY <1>1 DEF WorkerStep, TaskReturns, Next, Work
<1>2. CASE Main
  <2>1. AddTask => Next
    BY DEF AddTask, Next
  <2>2. StopExecuter \/ DestroyExecuter => Next
    BY DEF StopExecuter, DestroyExecuter, Next
  <2>3. NewCollector \/ PrintRow => UNCHANGED vars
    BY DEF NewCollector, PrintRow
  <2> QED
    BY <1>2, <2>1, <2>2, <2>3 DEF Main, RunInline, Next
<1> QED
  BY <1>1, <1>2 DEF ExplorerNext, allVars

\* The queue stays empty: no worker can take anything, and Stop() has nothing
\* to wait for.
LEMMA NextUnused ==
  ASSUME inline, ExplorerTypeOK, ExecuterIsUnused, [ExplorerNext]_allVars
  PROVE  ExecuterIsUnused'
<1> USE DEF ExecuterIsUnused
<1>1. CASE RunInline
  <2>1. PICK o \in {"returned", "threw"} :
            outcome' = [outcome EXCEPT ![next] = o]
    BY <1>1 DEF RunInline
  <2>2. /\ next \in Tasks /\ next' = next + 1
        /\ UNCHANGED <<sent, received, at, phase>>
    BY <1>1 DEF RunInline, ownerVars
  <2>3. \A t \in Tasks : outcome'[t] # "none" <=> t < next'
    BY <2>1, <2>2
  <2> QED
    BY <2>1, <2>2, <2>3
<1>2. ~\E w \in Workers : WorkerStep(w)
  <2>1. ~Queue!Take
    BY DEF Queue!Take
  <2> QED
    BY <2>1 DEF WorkerStep, TaskReturns, DoReturns, DoThrows, TakeTask,
                TakeStop
<1>3. ~Stop
  BY DEF Stop, PushStop, StopAllReturns, WaitAllReturns
<1>4. CASE StopExecuter \/ DestroyExecuter
  BY <1>4 DEF StopExecuter, DestroyExecuter, ReturnsAtOnce, workerVars,
              explorerVars
<1>5. CASE NewCollector \/ PrintRow
  BY <1>5 DEF NewCollector, PrintRow, vars
<1>6. CASE UNCHANGED allVars
  BY <1>6 DEF allVars, vars, explorerVars
<1> QED
  BY <1>1, <1>2, <1>3, <1>4, <1>5, <1>6 DEF ExplorerNext, Main, AddTask

LEMMA NextTheExecuter ==
  ASSUME ExplorerTypeOK, TheExecuter, [ExplorerNext]_allVars
  PROVE  TheExecuter' /\ inline' = inline
<1>1. inline' = inline
  BY DEF ExplorerNext, Main, WorkerStep, TaskReturns, NewCollector, AddTask,
         RunInline, StopExecuter, PrintRow, DestroyExecuter, allVars,
         explorerVars
<1> QED
  BY <1>1, ExecuterStep, NextInv, NextUnused DEF TheExecuter

-----------------------------------------------------------------------------
(* The collectors                                                          *)

\* A task that a worker runs was added, has not ended and has a collector.
LEMMA HeldTasksHaveCollectors ==
  ASSUME ExplorerTypeOK, TheExecuter, TasksHaveCollectors,
         NEW w \in Workers, at[w] = "do"
  PROVE  /\ ~inline /\ item[w] \in Tasks /\ outcome[item[w]] = "none"
         /\ EdgesOf[item[w]] \in 1..Len(collectors)
<1>1. ~inline /\ Inv
  BY DEF TheExecuter, ExecuterIsUnused
<1>2. item[w] \in Tasks /\ outcome[item[w]] = "none" /\ Taken(item[w])
  BY <1>1 DEF Inv, TypeOK, HeldTasksAreUnfinished
<1>3. item[w] \in Added
  <2>1. PICK i \in 1..Len(received) : sent[i] = item[w]
    BY <1>2 DEF Taken
  <2>2. i \in DOMAIN sent
    BY <1>1 DEF Inv, TakenInOrder, TypeOK
  <2> QED
    BY <1>2, <2>1, <2>2 DEF Added
<1> QED
  BY <1>1, <1>2, <1>3 DEF TasksHaveCollectors, HasCollector, ExplorerTypeOK

\* Types of the executer that hold with and without threads.
LEMMA OutcomeType ==
  ASSUME TheExecuter
  PROVE  outcome \in [Tasks -> {"none", "returned", "threw"}]
BY DEF TheExecuter, ExecuterIsUnused, Inv, TypeOK

\* How a step can change a collector: by the value of a task that returns, or
\* as a new one for a number of edges that no task has had.
LEMMA CollectForIsExact ==
  ASSUME ExplorerTypeOK, TheExecuter, CollectorsAreExact,
         NEW t \in Tasks, EdgesOf[t] \in 1..Len(collectors),
         outcome[t] = "none",
         outcome' = [outcome EXCEPT ![t] = "returned"], CollectFor(t)
  PROVE  /\ CollectorsAreExact' /\ Len(collectors') = Len(collectors)
         /\ collectors' \in Seq(Result) /\ computed' \in [Tasks -> 0..MaxUnsigned]
<1>1. PICK v \in Numbers :
          /\ collectors' = [collectors EXCEPT ![EdgesOf[t]] = Collect(@, v)]
          /\ computed' = [computed EXCEPT ![t] = v]
  BY DEF CollectFor
<1>2. v \in 0..MaxUnsigned
  OBVIOUS
<1>3. \A e : Values(e)' = IF EdgesOf[t] = e THEN Values(e) \cup {v}
                                            ELSE Values(e)
  BY <1>1, OutcomeType, ReturningAddsAValue
<1>4. collectors \in Seq(Result)
  BY DEF ExplorerTypeOK
<1>5. /\ Exact(Collect(collectors[EdgesOf[t]], v), Values(EdgesOf[t]) \cup {v})
      /\ Collect(collectors[EdgesOf[t]], v) \in Result
  <2>1. /\ collectors[EdgesOf[t]] \in Result
        /\ Exact(collectors[EdgesOf[t]], Values(EdgesOf[t]))
    BY <1>4 DEF CollectorsAreExact
  <2>2. Values(EdgesOf[t]) \in SUBSET (0..MaxUnsigned)
    BY ValuesAreNumbers
  <2> QED
    BY <1>2, <2>1, <2>2, CollectIsExact
<1>6. /\ collectors' \in Seq(Result) /\ Len(collectors') = Len(collectors)
      /\ \A e \in 1..Len(collectors) :
            collectors'[e] = IF EdgesOf[t] = e
                               THEN Collect(collectors[EdgesOf[t]], v)
                               ELSE collectors[e]
  BY <1>1, <1>4, <1>5
<1>7. CollectorsAreExact'
  <2>1. \A e \in 1..Len(collectors) : Exact(collectors'[e], Values(e)')
    BY <1>3, <1>5, <1>6 DEF CollectorsAreExact
  <2> QED
    BY <1>6, <2>1 DEF CollectorsAreExact, Exact, Least, Greatest, EmptyResult
<1>8. computed' \in [Tasks -> 0..MaxUnsigned]
  BY <1>1, <1>2 DEF ExplorerTypeOK
<1> QED
  BY <1>6, <1>7, <1>8

\* Before the first task of a number of edges is added, no value counts for it.
LEMMA NewCollectorIsExact ==
  ASSUME ExplorerTypeOK, TheExecuter, TasksHaveCollectors,
         CollectorsAreExact, NewCollector
  PROVE  /\ CollectorsAreExact' /\ Len(collectors') = Len(collectors) + 1
         /\ collectors' \in Seq(Result)
         /\ \A e \in 1..Len(collectors) : collectors'[e] = collectors[e]
<1>1. collectors \in Seq(Result) /\ EmptyResult \in Result
  BY DEF ExplorerTypeOK, Result, EmptyResult
<1>2. collectors' = Append(collectors, EmptyResult)
  BY DEF NewCollector
<1>3. /\ collectors' \in Seq(Result) /\ Len(collectors') = Len(collectors) + 1
      /\ \A e \in 1..Len(collectors) : collectors'[e] = collectors[e]
      /\ collectors'[Len(collectors) + 1] = EmptyResult
      /\ 1..Len(collectors') = (1..Len(collectors)) \cup {Len(collectors) + 1}
  BY <1>1, <1>2
<1>4. \A e : Values(e)' = Values(e)
  BY DEF NewCollector, vars, Values
<1>5. Values(Len(collectors) + 1) = {}
  <2>1. ASSUME NEW u \in Tasks, outcome[u] = "returned"
        PROVE  EdgesOf[u] # Len(collectors) + 1
    <3>1. EdgesOf[u] <= Len(collectors)
      BY <2>1 DEF TasksHaveCollectors, HasCollector
    <3> QED
      BY <1>1, <3>1
  <2> QED
    BY <2>1 DEF Values
<1>6. \A e \in 1..Len(collectors') : Exact(collectors'[e], Values(e)')
  BY <1>3, <1>4, <1>5 DEF CollectorsAreExact, Exact
<1> QED
  BY <1>3, <1>6 DEF CollectorsAreExact, Exact, Least, Greatest, EmptyResult

\* Every step, seen from the collectors.
LEMMA NextCollectors ==
  ASSUME ExplorerTypeOK, TheExecuter, TasksHaveCollectors,
         CollectorsAreExact, [ExplorerNext]_allVars
  PROVE  /\ CollectorsAreExact' /\ Len(collectors) <= Len(collectors')
         /\ collectors' \in Seq(Result)
         /\ computed' \in [Tasks -> 0..MaxUnsigned]
         /\ NewCollector \/ Len(collectors') = Len(collectors)
<1> DEFINE Goal == /\ CollectorsAreExact' /\ Len(collectors) <= Len(collectors')
                   /\ collectors' \in Seq(Result)
                   /\ computed' \in [Tasks -> 0..MaxUnsigned]
                   /\ NewCollector \/ Len(collectors') = Len(collectors)
<1> SUFFICES Goal
  OBVIOUS
<1>0. /\ collectors \in Seq(Result) /\ computed \in [Tasks -> 0..MaxUnsigned]
      /\ Len(collectors) \in Nat
      /\ outcome \in [Tasks -> {"none", "returned", "threw"}]
  BY OutcomeType DEF ExplorerTypeOK
<1>1. ASSUME UNCHANGED collectors, UNCHANGED computed,
             \A e : Values(e)' = Values(e)
      PROVE  Goal
  <2>1. \A e \in 1..Len(collectors') : Exact(collectors'[e], Values(e)')
    BY <1>1 DEF CollectorsAreExact
  <2>2. CollectorsAreExact'
    BY <2>1 DEF CollectorsAreExact, Exact, Least, Greatest, EmptyResult
  <2> QED
    BY <1>0, <1>1, <2>2
<1>2. ASSUME UNCHANGED <<collectors, computed, outcome>>
      PROVE  Goal
  BY <1>1, <1>2 DEF Values
<1>3. ASSUME NEW w \in Workers, TaskReturns(w)
      PROVE  Goal
  <2>1. /\ at[w] = "do" /\ CollectFor(item[w])
        /\ outcome' = [outcome EXCEPT ![item[w]] = "returned"]
    BY <1>3 DEF TaskReturns, DoReturns
  <2>2. /\ item[w] \in Tasks /\ outcome[item[w]] = "none"
        /\ EdgesOf[item[w]] \in 1..Len(collectors)
    BY <2>1, HeldTasksHaveCollectors
  <2>3. /\ CollectorsAreExact' /\ Len(collectors') = Len(collectors)
        /\ collectors' \in Seq(Result) /\ computed' \in [Tasks -> 0..MaxUnsigned]
    BY <2>1, <2>2, CollectForIsExact, Zenon
  <2> QED
    BY <1>0, <2>3
<1>4. ASSUME NEW w \in Workers, DoThrows(w), UNCHANGED explorerVars
      PROVE  Goal
  <2>1. /\ at[w] = "do"
        /\ outcome' = [outcome EXCEPT ![item[w]] = "threw"]
        /\ UNCHANGED <<collectors, computed>>
    BY <1>4 DEF DoThrows, explorerVars
  <2>2. item[w] \in Tasks /\ outcome[item[w]] = "none"
    BY <2>1, HeldTasksHaveCollectors
  <2>3. \A e : Values(e)' = Values(e)
    BY <1>0, <2>1, <2>2, ThrowingAddsNoValue, Zenon
  <2> QED
    BY <1>1, <2>1, <2>3
<1>5. CASE RunInline
  <2>1. /\ next \in Tasks /\ outcome[next] = "none"
        /\ EdgesOf[next] \in 1..Len(collectors)
    BY <1>5 DEF RunInline, TheExecuter, ExecuterIsUnused, HasCollector,
                ExplorerTypeOK
  <2>2. CASE /\ outcome' = [outcome EXCEPT ![next] = "returned"]
             /\ CollectFor(next)
    <3>1. /\ CollectorsAreExact' /\ Len(collectors') = Len(collectors)
          /\ collectors' \in Seq(Result)
          /\ computed' \in [Tasks -> 0..MaxUnsigned]
      BY <2>1, <2>2, CollectForIsExact, Zenon
    <3> QED
      BY <1>0, <3>1
  <2>3. CASE /\ outcome' = [outcome EXCEPT ![next] = "threw"]
             /\ UNCHANGED <<collectors, computed>>
    <3>1. \A e : Values(e)' = Values(e)
      BY <1>0, <2>1, <2>3, ThrowingAddsNoValue, Zenon
    <3> QED
      BY <1>1, <2>3, <3>1
  <2> QED
    BY <1>5, <2>2, <2>3 DEF RunInline
<1>6. CASE NewCollector
  BY <1>0, <1>6, NewCollectorIsExact DEF NewCollector
<1>7. CASE UNCHANGED <<collectors, computed, outcome>>
  BY <1>2, <1>7
<1>8. ASSUME NEW w \in Workers,
             TakeTask(w) \/ TakeStop(w), UNCHANGED explorerVars
      PROVE  UNCHANGED <<collectors, computed, outcome>>
  BY <1>8 DEF TakeTask, TakeStop, explorerVars
<1>9. ASSUME \/ AddTask \/ StopExecuter \/ PrintRow \/ DestroyExecuter
             \/ Stop /\ UNCHANGED explorerVars
             \/ UNCHANGED allVars
      PROVE  UNCHANGED <<collectors, computed, outcome>>
  BY <1>9 DEF AddTask, Add, StopExecuter, BeginStop, ReturnsAtOnce, Stop, PushStop,
         StopAllReturns, WaitAllReturns, PrintRow, DestroyExecuter,
         BeginDestroy, explorerVars, allVars, vars, workerVars
<1> HIDE DEF Goal
<1>10. ASSUME NEW w \in Workers, WorkerStep(w) PROVE Goal
  BY <1>3, <1>4, <1>7, <1>8, <1>10 DEF WorkerStep
<1>11. Main => Goal
  BY <1>5, <1>6, <1>7, <1>9 DEF Main
<1>12. UNCHANGED allVars => Goal
  BY <1>7, <1>9
<1> QED
  BY <1>10, <1>11, <1>12 DEF ExplorerNext

-----------------------------------------------------------------------------
(* Types, the order of the tasks, and the rows                             *)

LEMMA NextExplorerTypeOK ==
  ASSUME IInv, [ExplorerNext]_allVars
  PROVE  ExplorerTypeOK'
<1>0. /\ collectors' \in Seq(Result) /\ computed' \in [Tasks -> 0..MaxUnsigned]
      /\ inline' = inline
  BY NextCollectors, NextTheExecuter DEF IInv
<1>1. next' \in 1..(NumberOfTasks + 1)
  <2>1. next' = next \/ (next \in Tasks /\ next' = next + 1)
    BY DEF ExplorerNext, Main, WorkerStep, TaskReturns, NewCollector, AddTask,
           RunInline, StopExecuter, PrintRow, DestroyExecuter, allVars,
           explorerVars
  <2> QED
    BY <2>1 DEF IInv, ExplorerTypeOK
<1>2. rows' \in Seq(Result)
  <2>1. rows \in Seq(Result) /\ collectors \in Seq(Result)
    BY DEF IInv, ExplorerTypeOK
  <2>2. CASE PrintRow
    <3>1. /\ Len(rows) < MaxNumberOfEdges /\ phase # "running"
          /\ rows' = Append(rows, collectors[Len(rows) + 1])
      BY <2>2 DEF PrintRow, MayPrint
    <3>2. Len(rows) + 1 \in 1..Len(collectors)
      BY <2>1, <3>1 DEF IInv, RowsComeLast
    <3> QED
      BY <2>1, <3>1, <3>2
  <2>3. CASE rows' = rows
    BY <2>1, <2>3
  <2> QED
    BY <2>2, <2>3
       DEF ExplorerNext, Main, WorkerStep, TaskReturns, NewCollector, AddTask,
           RunInline, StopExecuter, DestroyExecuter, allVars, explorerVars
<1> QED
  BY <1>0, <1>1, <1>2 DEF IInv, ExplorerTypeOK

\* What a step does to the tasks that were added and to those that ended.
LEMMA AddedOrEnded ==
  ASSUME IInv, [ExplorerNext]_allVars,
         NEW t \in Tasks, t \in Added' \/ outcome'[t] # "none"
  PROVE  t \in Added \/ outcome[t] # "none" \/ HasCollector(t)
<1>0. /\ ExplorerTypeOK /\ TheExecuter /\ TasksHaveCollectors
      /\ outcome \in [Tasks -> {"none", "returned", "threw"}]
  BY OutcomeType DEF IInv
<1>1. ASSUME UNCHANGED <<sent, outcome>>
      PROVE  t \in Added \/ outcome[t] # "none"
  BY <1>1 DEF Added
<1>2. ASSUME NEW w \in Workers, WorkerStep(w)
      PROVE  t \in Added \/ outcome[t] # "none" \/ HasCollector(t)
  <2>1. CASE TaskReturns(w) \/ DoThrows(w)
    <3>1. /\ at[w] = "do" /\ sent' = sent
          /\ \E o : outcome' = [outcome EXCEPT ![item[w]] = o]
      BY <2>1 DEF TaskReturns, DoReturns, DoThrows
    <3>2. EdgesOf[item[w]] \in 1..Len(collectors) /\ item[w] \in Tasks
      BY <1>0, <3>1, HeldTasksHaveCollectors
    <3>3. t = item[w] => HasCollector(t)
      BY <3>2 DEF HasCollector, ExplorerTypeOK
    <3>4. t # item[w] => outcome'[t] = outcome[t]
      BY <1>0, <3>1
    <3> QED
      BY <3>1, <3>3, <3>4 DEF Added
  <2>2. CASE TakeTask(w) \/ TakeStop(w)
    BY <1>1, <2>2 DEF TakeTask, TakeStop, Queue!Take
  <2> QED
    BY <1>2, <2>1, <2>2 DEF WorkerStep
<1>3. CASE AddTask
  <2>1. /\ HasCollector(next) /\ next \in Tasks /\ outcome' = outcome
        /\ sent' = Append(sent, next) /\ ~inline
    BY <1>3 DEF AddTask, Add, workerVars, Queue!Put
  <2>2. sent \in Seq(Tasks \cup {StopMessage})
    BY <1>0, <2>1 DEF TheExecuter, Inv, TypeOK
  <2>3. t \in Added' => t \in Added \/ t = next
    BY <2>1, <2>2 DEF Added
  <2> QED
    BY <2>1, <2>3
<1>4. CASE RunInline
  <2>1. /\ HasCollector(next) /\ next \in Tasks /\ sent' = sent
        /\ \E o : outcome' = [outcome EXCEPT ![next] = o]
    BY <1>4 DEF RunInline
  <2> QED
    BY <1>0, <2>1 DEF Added
<1>5. CASE Stop /\ UNCHANGED explorerVars
  <2>1. /\ outcome' = outcome /\ ~inline
        /\ sent' = sent \/ sent' = Append(sent, StopMessage)
    BY <1>0, <1>5
       DEF Stop, PushStop, StopAllReturns, WaitAllReturns, workerVars,
           Queue!Put, TheExecuter, ExecuterIsUnused
  <2>2. sent \in Seq(Tasks \cup {StopMessage}) /\ StopMessage \notin Tasks
    BY <1>0, <2>1, ExecuterAssumption DEF TheExecuter, Inv, TypeOK
  <2>3. CASE sent' = sent
    BY <1>1, <2>1, <2>3
  <2>4. CASE sent' = Append(sent, StopMessage)
    <3>1. /\ 1..Len(sent') = (1..Len(sent)) \cup {Len(sent) + 1}
          /\ \A i \in 1..Len(sent) : sent'[i] = sent[i]
          /\ sent'[Len(sent) + 1] = StopMessage
          /\ DOMAIN sent = 1..Len(sent) /\ DOMAIN sent' = 1..Len(sent')
      BY <2>2, <2>4
    <3>2. t \in Added' => t \in Added
      BY <2>2, <3>1 DEF Added
    <3> QED
      BY <2>1, <3>2
  <2> QED
    BY <2>1, <2>3, <2>4
<1>6. CASE NewCollector \/ StopExecuter \/ PrintRow \/ DestroyExecuter
           \/ UNCHANGED allVars
  <2>1. UNCHANGED <<sent, outcome>>
    BY <1>6 DEF NewCollector, StopExecuter, BeginStop, ReturnsAtOnce, PrintRow,
                DestroyExecuter, BeginDestroy, allVars, vars, workerVars
  <2> QED
    BY <1>1, <2>1
<1> QED
  BY <1>2, <1>3, <1>4, <1>5, <1>6 DEF ExplorerNext, Main

LEMMA NextTasksHaveCollectors ==
  ASSUME IInv, [ExplorerNext]_allVars
  PROVE  TasksHaveCollectors'
<1>1. /\ Len(collectors) <= Len(collectors')
      /\ collectors \in Seq(Result) /\ collectors' \in Seq(Result)
  BY NextCollectors DEF IInv, ExplorerTypeOK
<1>2. ASSUME NEW t \in Tasks, t \in Added' \/ outcome'[t] # "none"
      PROVE  EdgesOf[t] <= Len(collectors')
  <2>1. EdgesOf[t] <= Len(collectors)
    BY <1>2, AddedOrEnded DEF IInv, TasksHaveCollectors, HasCollector
  <2> QED
    BY <1>1, <2>1
<1> QED
  BY <1>2 DEF TasksHaveCollectors, HasCollector

\* The owner never runs again, and a worker that has left its loop stays out.
LEMMA OwnerGoesOn ==
  ASSUME TheExecuter, [ExplorerNext]_allVars
  PROVE  /\ phase # "running" => phase' # "running"
         /\ phase = "running" /\ phase' # "running" => StopExecuter
<1>1. ASSUME NEW w \in Workers, WorkerStep(w) PROVE phase' = phase
  BY <1>1 DEF WorkerStep, TaskReturns, DoReturns, TakeTask, TakeStop, DoThrows,
              ownerVars
<1>2. CASE Stop \/ DestroyExecuter
  BY <1>2 DEF DestroyExecuter, ReturnsAtOnce, BeginDestroy, Stop, PushStop,
              StopAllReturns, WaitAllReturns
<1>3. NewCollector \/ AddTask \/ RunInline \/ PrintRow \/ UNCHANGED allVars
          => phase' = phase
  BY DEF NewCollector, AddTask, Add, RunInline, PrintRow, allVars, vars,
         ownerVars
<1>4. StopExecuter => phase = "running"
  BY DEF StopExecuter, ReturnsAtOnce, BeginStop
<1> QED
  BY <1>1, <1>2, <1>3, <1>4 DEF ExplorerNext, Main

LEMMA ExitedStaysExited ==
  ASSUME TheExecuter, ~inline, [ExplorerNext]_allVars, NEW w \in Workers
  PROVE  /\ at[w] = "exited" => at'[w] = "exited"
         /\ phase = "stopped" => at[w] = "exited"
<1>1. [Next]_vars /\ Inv
  BY ExecuterStep DEF TheExecuter
<1>2. at[w] = "exited" => at'[w] = "exited"
  <2>1. at \in [Workers -> {"pop", "do", "report", "exited"}]
    BY <1>1 DEF Inv, TypeOK
  <2> QED
    BY <1>1, <2>1
       DEF Next, Work, TakeTask, TakeStop, DoReturns, DoThrows, Report, Add,
           BeginStop, BeginDestroy, Stop, PushStop, StopAllReturns,
           WaitAllReturns, Destroyed, workerVars, vars
<1> QED
  BY <1>1, <1>2 DEF Inv, StoppedMeansExited

\* A collector changes only while the owner is running, or a worker runs a
\* task.
LEMMA CollectorsStay ==
  ASSUME TheExecuter, [ExplorerNext]_allVars,
         phase # "running", inline \/ \A w \in Workers : at[w] = "exited"
  PROVE  UNCHANGED collectors
<1>1. ~\E w \in Workers : WorkerStep(w)
  <2>1. inline => ~Queue!Take
    BY DEF TheExecuter, ExecuterIsUnused, Queue!Take
  <2> QED
    BY <2>1 DEF WorkerStep, TaskReturns, DoReturns, DoThrows, TakeTask,
                TakeStop, TheExecuter, ExecuterIsUnused
<1> QED
  BY <1>1
     DEF ExplorerNext, Main, NewCollector, AddTask, RunInline, StopExecuter,
         PrintRow, DestroyExecuter, allVars, explorerVars

LEMMA NextRowsComeLast ==
  ASSUME IInv, [ExplorerNext]_allVars
  PROVE  RowsComeLast'
<1> DEFINE Idle == inline \/ \A w \in Workers : at[w] = "exited"
<1>0. /\ rows \in Seq(Result) /\ collectors \in Seq(Result)
      /\ collectors' \in Seq(Result) /\ Len(collectors) <= Len(collectors')
      /\ TheExecuter /\ inline' = inline
  BY NextCollectors, NextTheExecuter DEF IInv, ExplorerTypeOK
<1>1. Idle => Idle'
  BY <1>0, ExitedStaysExited
<1>2. phase' # "running" => Len(collectors') = MaxNumberOfEdges
  <2>1. CASE phase # "running"
    <3>1. ~NewCollector
      BY <2>1 DEF NewCollector
    <3> QED
      BY <2>1, <3>1, NextCollectors DEF IInv, RowsComeLast
  <2>2. CASE phase = "running" /\ phase' # "running"
    BY <1>0, <2>2, OwnerGoesOn DEF StopExecuter, explorerVars
  <2> QED
    BY <2>1, <2>2
<1> HIDE DEF Idle
<1>3. CASE PrintRow
  <2>1. /\ phase = "stopped" /\ phase' = "stopped" /\ collectors' = collectors
        /\ Len(rows) < MaxNumberOfEdges
        /\ rows' = Append(rows, collectors[Len(rows) + 1])
    BY <1>3 DEF PrintRow, MayPrint, vars
  <2>2. Idle
    BY <1>0, <2>1, ExitedStaysExited DEF Idle
  <2>3. /\ Len(collectors) = MaxNumberOfEdges
        /\ \A e \in 1..Len(rows) : rows[e] = collectors[e]
    BY <2>1 DEF IInv, RowsComeLast
  <2>4. /\ 1..Len(rows') = (1..Len(rows)) \cup {Len(rows) + 1}
        /\ Len(rows') = Len(rows) + 1
        /\ \A e \in 1..Len(rows) : rows'[e] = rows[e]
        /\ rows'[Len(rows) + 1] = collectors[Len(rows) + 1]
    BY <1>0, <2>1
  <2>5. /\ Len(rows') <= Len(collectors')
        /\ \A e \in 1..Len(rows') : rows'[e] = collectors'[e]
    BY <1>0, <2>1, <2>3, <2>4
  <2> QED
    BY <1>1, <2>1, <2>2, <2>3, <2>5 DEF RowsComeLast, Idle
<1>4. CASE UNCHANGED rows
  <2>1. RowsComeLast
    BY DEF IInv
  <2>2. Len(rows') <= Len(collectors')
    BY <1>0, <1>4, <2>1 DEF RowsComeLast
  <2>3. CASE rows = <<>>
    BY <1>2, <1>4, <2>2, <2>3 DEF RowsComeLast
  <2>4. CASE rows # <<>>
    <3>1. phase # "running" /\ Idle
      BY <2>1, <2>4 DEF RowsComeLast, Idle
    <3>2. UNCHANGED collectors
      BY <1>0, <3>1, CollectorsStay DEF Idle
    <3>3. phase' # "running" /\ Idle'
      BY <1>0, <1>1, <3>1, OwnerGoesOn
    <3> QED
      BY <1>2, <1>4, <2>1, <2>2, <3>2, <3>3 DEF RowsComeLast, Idle
  <2> QED
    BY <2>3, <2>4
<1> QED
  BY <1>3, <1>4
     DEF ExplorerNext, Main, WorkerStep, TaskReturns, NewCollector, AddTask,
         RunInline, StopExecuter, DestroyExecuter, allVars, explorerVars

-----------------------------------------------------------------------------
(* The theorem                                                             *)

LEMMA InitIInv == ASSUME ExplorerInit PROVE IInv
<1> USE DEF ExplorerInit
<1>1. Inv
  BY InitInv
<1>2. /\ sent = <<>> /\ received = <<>> /\ phase = "running"
      /\ at = [w \in Workers |-> "pop"]
      /\ outcome = [t \in Tasks |-> "none"]
  BY DEF Init, Queue!Init
<1>3. ExplorerTypeOK
  <2>1. computed \in [Tasks -> 0..MaxUnsigned] /\ next \in 1..(NumberOfTasks + 1)
    OBVIOUS
  <2> QED
    BY <2>1 DEF ExplorerTypeOK
<1>4. ExecuterIsUnused
  BY <1>2 DEF ExecuterIsUnused
<1>5. TasksHaveCollectors
  BY <1>2 DEF TasksHaveCollectors, Added
<1>6. CollectorsAreExact /\ RowsComeLast
  BY <1>2 DEF CollectorsAreExact, RowsComeLast
<1> QED
  BY <1>1, <1>3, <1>4, <1>5, <1>6 DEF IInv, TheExecuter

LEMMA NextIInv == ASSUME IInv, [ExplorerNext]_allVars PROVE IInv'
<1>1. TheExecuter' /\ CollectorsAreExact'
  BY NextTheExecuter, NextCollectors DEF IInv
<1> QED
  BY <1>1, NextExplorerTypeOK, NextTasksHaveCollectors, NextRowsComeLast
     DEF IInv

LEMMA RowsAreExact == ASSUME IInv PROVE RowsAreFinal
<1>1. /\ rows \in Seq(Result) /\ collectors \in Seq(Result)
      /\ Len(rows) <= Len(collectors)
      /\ \A e \in 1..Len(rows) : rows[e] = collectors[e]
      /\ CollectorsAreExact
  BY DEF IInv, ExplorerTypeOK, RowsComeLast
<1>2. SUFFICES ASSUME NEW e \in DOMAIN rows
               PROVE  rows[e] = IF Values(e) = {} THEN EmptyResult
                                ELSE [min |-> Min(Values(e)),
                                      max |-> Max(Values(e))]
  BY DEF RowsAreFinal
<1>3. /\ e \in 1..Len(collectors) /\ rows[e] = collectors[e]
      /\ collectors[e] \in Result /\ Exact(collectors[e], Values(e))
  <2>1. e \in 1..Len(rows)
    BY <1>1
  <2>2. Len(rows) \in Nat /\ Len(collectors) \in Nat
    BY <1>1
  <2>3. e \in 1..Len(collectors)
    BY <1>1, <2>1, <2>2
  <2> QED
    BY <1>1, <2>1, <2>3 DEF CollectorsAreExact
<1>4. CASE Values(e) = {}
  BY <1>3, <1>4 DEF Exact
<1>5. CASE Values(e) # {}
  <2>1. Values(e) \in SUBSET (0..MaxUnsigned)
    BY ValuesAreNumbers DEF IInv
  <2>2. Values(e) \in SUBSET Int
    BY <2>1
  <2>3. /\ collectors[e].min = Min(Values(e))
        /\ collectors[e].max = Max(Values(e))
    BY <1>3, <1>5, <2>2, LeastIsMin, GreatestIsMax DEF Exact
  <2>4. collectors[e] = [min |-> collectors[e].min, max |-> collectors[e].max]
    BY <1>3 DEF Result
  <2> QED
    BY <1>3, <1>5, <2>3, <2>4
<1> QED
  BY <1>4, <1>5

\* Every row that invariant_explorer prints has the minimum and the maximum
\* over all the tasks of its number of edges that returned, for any number of
\* threads, one included: nothing is still computing when main() reads the
\* collectors without their mutex.
THEOREM TheRowsAreFinal == ExplorerSpec => []RowsAreFinal
<1>1. ExplorerSpec => []IInv
  BY InitIInv, NextIInv, PTL DEF ExplorerSpec
<1>2. IInv => RowsAreFinal
  BY RowsAreExact
<1> QED
  BY <1>1, <1>2, PTL

=============================================================================
