# A specification of Chromaticity

Chromaticity is a set of C++ programs for questions about the chromatic
uniqueness of complete multipartite graphs: they delete edges from such a graph
in all possible ways, compute invariants of what is left, and compare. The
computation is spread over threads. Two things have to be right: the threads
(nothing lost, nothing run twice, everything ends) and the combinatorics (the
formulas count what they claim to count). This directory has TLA+ modules for
both, TLC configurations that check them on small instances, and TLAPS proofs
for the queue, the executer, the two programs with threads, the caches that
threads share, the generators, the option parser, the calculator, and the
invariants of graphs.

Paths are relative to `src/graph_cases/`.

## Inventory

| part | source | state | operations | hard because |
|---|---|---|---|---|
| queue | `lib/queue/queue.h` | deque, mutex, three condition variables | Push, Pop, timed Pop, WaitEmpty, Size, IsEmpty | blocking on both ends, `notify_one`, timeouts |
| multi-thread executer | `lib/executer/multithread_executer.*` | queue, threads, pointer to a queue of exceptions | Add, Stop, destructor; the worker's loop | stop messages share the queue of the tasks; tasks throw; Stop is called twice |
| single-thread executer | `lib/executer/singlethread_exectuer.*` | none | Add runs the task | exceptions reach the caller |
| writer | `lib/multithread_writer/*` | an executer with one thread, an output stream | Push, destructor | fed by the workers of another executer |
| graph_cases | `bin/graph_cases.cpp` | executer, writer, generator | compare_two_graphs | order of the destructors, two queues in a row |
| invariant_explorer | `invariant_explorer/main.cpp` | executer, a deque of collectors | CheckAllEdges, the print loop | results read without the lock they were written under |
| factorial cache | `lib/factorial/factorial.cpp` | deque, mutex | Factorial | a look at the deque without the mutex |
| binomial cache | `lib/binomial_coefficients/*` | deque of rows, mutex | BinomialCoefficient | the same; 32-bit product |
| orientation counter | `lib/multipartite_graphs/acyclic_orintations.*` | map, mutex | count for a complete graph | a recursion that inserts while others look without the mutex |
| shared graph | `lib/multipartite_graphs/multipartite_graphs.*` (TCompleteGraph) | mutable fields, zero for "not computed" | I3Invariant, I4Invariant, PtInvariant, CountAcyclicOrientations | tasks fill the fields without a mutex |
| graphs | `lib/multipartite_graphs/multipartite_graphs.*` | parts, deleted edges, cached invariants | I2, I3, I4, Pt, ContractEdge, SwapVertices, CountAcyclicOrientations | inclusion-exclusion; renumbering of vertices and parts |
| generators | `lib/math_utils/{combinatorics,subsets}.h` | an iterator's combination or bit mask | begin, end, ++, * | boundaries: 0, n, k > n |
| sigma | `lib/math_utils/sigma.h` | none | elementary symmetric sums | recursion |
| autoindexer | `lib/autoindexer/autoindexer.h` | two maps | GetIndex, GetKey | two maps that must agree, a bound |
| option parser | `lib/optparser/*` | options, which were used | Parse | an argument that may belong to the option before it; required options |
| calculator | `acyclic_orientations_calculator/main.cpp` | a stream, the query | a prompt loop | getline and >> in turns, a stream that fails, end of input |
| singleton, test system, printing | `lib/singleton`, `lib/test_system`, `lib/utils` | | | |

How they interact: `main` of graph_cases and of invariant_explorer calls
`executer->Add` for each combination that a generator yields; workers pop the
tasks from the executer's queue. A task of graph_cases computes invariants of a
dense graph and pushes a line to the writer, which is a second executer with its
own queue. A task of invariant_explorer adds a number to a collector under the
collector's mutex. The invariants call the binomial cache and the orientation
counter, singletons that all threads share.

What makes each part correct:

* queue: nothing is lost, duplicated or overtaken; the bound holds; no thread
  sleeps while what it waits for is there;
* executer: every added task runs exactly once; when Stop returns all of them
  are over and every exception is reported; Stop returns;
* graph_cases: one line per comparison that returned, in the order of the
  pushes; the writer outlives the tasks; the program ends;
* invariant_explorer: a printed row is final; the program ends;
* factorial, binomial, orientation counter: a call returns the number for its
  argument, whatever other threads do; the cache is right for later calls;
* shared graph: each task gets the invariant, whoever computed it;
* option parser: each option gets the arguments that belong to it, a wrong
  command line is refused;
* calculator: one answer per query, in order, for that query;
* generators: a loop sees every combination once, and ends;
* graphs: the invariants count edges, triangles, induced cycles, partitions
  into stable sets, acyclic orientations; ContractEdge is contraction.

`PROJECT.json` lists every hazard with the line where it bites and the
properties that cover it, or the reason why none does.

## Modules

| module | models | extends or instantiates |
|---|---|---|
| `BoundedFifo` | abstract: a channel with a bound, first in first out | |
| `MultiThreadQueue` | `TMultiThreadQueue` | implements `BoundedFifo` |
| `TaskPool` | abstract: submit, run once, report, close | |
| `Executer` | `TMultiThreadExecuter` | its queue is `BoundedFifo`; implements `TaskPool` |
| `ComparePipeline` | compare_two_graphs and `TWriter` | two instances of `Executer` |
| `Explorer` | invariant_explorer | extends `Executer` |
| `FactorialCache` | `TFactorialCalcer` | |
| `BinomialCache` | `TBinomialCoefficientCalculator` | |
| `OrientationCache` | `TCompleteGraphAcyclicOrientationsCounter`, the map and the mutex | |
| `OrientationCalls` | the same class, its recursion as data | |
| `SharedGraph` | the complete graph that all tasks share | extends `OrientationCache` |
| `SharedCaches` | everything that threads share without a queue | extends `SharedGraph`, instances of `FactorialCache` and `BinomialCache` |
| `CommandLines` | the options of the three programs | |
| `OptParser` | `TParser` | extends `CommandLines` |
| `OrientationsCalculator` | acyclic_orientations_calculator | extends `OptParser` |
| `Generators` | `TChoiceGenerator`, `TPairGenerator`, `TSubsetGenerator` in the loops that use them | |
| `GraphEdges` | vertices and edges, and how the code renames and contracts them | |
| `GraphMoves` | the graphs that programs reach, as states | extends `GraphEdges` |
| `GraphInvariants` | I2, I3, I4 and Pt as the code computes them | extends `GraphEdges` |
| `MultipartiteGraphs` | what the code computes by recursion: acyclic orientations; and what graph_cases answers | extends `GraphInvariants` |
| `GraphReference` | textbook definitions to compare with, not translated from anything | |
| `GraphCounts` | the properties that compare the invariants with them | extends `GraphInvariants`, `GraphMoves` and `GraphReference` |
| `DenseGraphs` | the properties that compare the rest | extends `MultipartiteGraphs` and `GraphCounts` |
| `MultiThreadQueueProofs`, `ExecuterProofs`, `GeneratorsProofs`, `OrientationsCalculatorProofs` | theorems and proofs | the module of the component |
| `GraphMovesProofs` | theorems about the graphs and their invariants | `DenseGraphs` |
| `ExplorerProofs` | theorems about invariant_explorer | `Explorer`, `ExecuterProofs` |
| `ComparePipelineProofs` | theorems about the composition of two executers | `ComparePipeline`, two instances of `ExecuterProofs` |
| `SharedCachesProofs` | theorems about each cache alone, then about their composition | `SharedCaches` |
| `MC*` | symmetry sets and constants for TLC | |

The layering is the argument: `MultiThreadQueue` is shown to implement
`BoundedFifo`, so `Executer` may use the channel instead of the mutex and the
condition variables; `ComparePipeline` and `Explorer` use the steps of
`Executer` and add what the program does in them. `SharedCaches` puts the
singletons side by side, as the tasks of the programs meet them.

### MultiThreadQueue

Every operation of the queue holds the mutex from its first to its last line
and gives it up only in `wait`. One action is one stretch between two releases:
`PushBlocks` and `PushReturns`, `PopBlocks` and `PopReturns`, and so on. `pc[t]`
says whether a thread sleeps on the condition variable of its role ("waiting"),
has been notified and has to get the mutex back ("woken"), or is free ("idle").
A thread that is idle may take the mutex before one that was woken, which is
how a wakeup is wasted in practice. Spurious wakeups are steps, and so is the
timeout of `wait_for`, which may win against a notification that has already
arrived: the code then returns false without another look at the deque.

`pushed` and `popped` are history variables; they are what the abstract channel
sees. Each thread has one role, as in the code: workers pop, the owner pushes.

### Executer

`at[w]` is the place of a worker in its loop: in `Pop`, in `Do`, in
`Exceptions->Push`, or out of the loop. `phase` is the place of the owner:
running, in `StopAll`, in `WaitAll`, after `Stop`, after the destructor.
`BeginStop` is a call of `Stop`, `BeginDestroy` the call of `Stop` in the
destructor, which happens whether or not there was one before. A task that
throws is reported if the executer was given a queue of exceptions. Tasks are
told apart only by their name and by how `Do` ends.

### ComparePipeline, Explorer

`ComparePipeline` has the variables of two executers with the prefixes `pool`
and `writer`. A task of graph_cases compares (`Compare`) or throws
(`CompareThrows`), and then pushes its line (`PushLine`): `Writer.Push` is the
last call in `Do`, and a task that waits for room there has no other way on.
`compared` are the tasks whose comparison has returned. `TSingleThreadExecuter`,
which `CreateExecuter` returns for a thread count of 1, is the case `inline`,
chosen in the initial state: main runs each task in `Add`, in the same steps
(`CompareInline`, `ThrowInline`, `PushInline`), the workers get nothing to do,
and an exception leaves main. A task that throws with several threads loses its
line, because both programs pass `nullptr` for the queue of exceptions.

`Explorer` adds the collectors. They are created one per number of edges, right
before the tasks for that number; a task updates its collector in the step that
ends it, main reads them after Stop without their mutex. A task finds its
collector by its number of edges; that the code has pointers into a deque, which
grows and is returned while tasks run, is not modelled.

### FactorialCache

One action is what happens between two points where another thread can be seen:
the look at the size, the unlocked read, the lock, each round of the loop, the
unlock. The unlocked reads are data races in C++. Up to 64 elements the deque
keeps its elements in one block and a reader sees the size before or after a
`push_back`; the model has these outcomes, and its bounds stay below 64.

### BinomialCache

The same, with rows of Pascal's triangle for elements. Elements are vectors of
24 bytes, so the deque stays in its first block up to 21 rows: `push_back` makes
the row and then moves the end. The three outermost coefficients of a row at
each side are computed at once; the product n (n - 1) has the width of
`unsigned`, which is the constant `Modulus`.

### OrientationCache, OrientationCalls

A call sorts the sizes of the parts, looks into the map without the mutex, and
otherwise takes it and runs the recursion. `frames` is the stack of that
recursion; what a frame calls, in which order and with which factors, is the
constant `Calls`, which `OrientationCalls` computes from the code's two mutually
recursive functions, with the binomial coefficients that are asked for after each
call (`asks`). `MCSharedCaches` has the numbers written out and an
assumption that compares them with that recursion and with the textbook count.

`Cache[components] = result` is two steps, since a thread that looks without the
mutex can see the element between them: `Insert` and `Assign`. When the
table is full the insertion moves all elements to another one; a lookup that
meets the move walks through memory that is gone. The behaviour is then
undefined: `broken` is set and the threads stop there, so that no property says
anything of what comes after.

### SharedGraph, SharedCaches

A `TCompleteGraph` computes an invariant when it is first asked for, and keeps
it in a mutable field. One look at the field, the computation, the store and the
second look are separate steps, so that two threads may compute the same field.
A store is of one word. `warm` is how the program starts: graph_cases asks both
graphs for everything before it makes threads; invariant_explorer does not, and
its tasks ask the shared graph for `Pt` only. Graphs that a task has for itself
only matter for the calls of the counter (`AskPrivate`).

In `SharedCaches` all threads of a behaviour call the same: the graph with the
counter, or the factorials, or the coefficients. While the counter holds its
mutex it calls the binomial cache, which has a mutex of its own: `owed` are the
coefficients it asks for before it goes on (`AskCoefficient`), as calls of
`BinomialCache`. What the sum makes of them is in `Calls`, where they are the
numbers that `AnswersAreBinomials` says they are. No other code asks the
binomial cache for more than a shortcut, so that behaviours in which some threads
ask the counter and others the binomial cache are left out.

### CommandLines, OptParser

An option is a record with the arguments that name it, its handler, the type of
its target and its default, as the three programs register them; the option
tables are data. A step is one round of the loop of `Parse`: find the option of
`argv[i]`, or the next free argument, and let its handler take what follows.
`Check` then fills in defaults and refuses what is missing. An argument is a
word of the option tables or one of a few values: a number, a word that is none,
a dash. A short option is found by its letter alone, and "-t4" stands for the
arguments that have more behind it.

### OrientationsCalculator

A line of the input is the sequence of its words. `getline` takes a line, or the
rest of one; `operator>>` takes a word and leaves the rest; `failed` is the
failbit. Which lines there are is decided as they are read, so that all inputs of
up to `MaxLines` lines are tried. At the end of the input `GetNonEmptyLine` loops
for ever on a stream that has failed: `Spin` is that loop, as one step into the
state "spinning". A number read at the end of the input is left uninitialised,
which is a choice. The answer is the graph that the number is for; that the
number is right is the business of `DenseGraphs`.

### Generators

The state is an iterator in a range-based `for`: `Body` compares it with end(),
uses what it points to and increments it. The variables `seen` and `twice`
remember what the body has seen. `Expected` says what a generator stands for,
without any order. The initial states are the generators the programs make, but
for one: at least one edge is chosen, and pairs are made of the vertices of a
part that has any. Left out is the choice of more edges than there are, which
invariant_explorer makes when its option `-e` is larger than that number: for
K > N the code subtracts below zero. For K = 0, which no program asks for, it
writes to the first element of an empty vector.

### The graphs

A graph is a sequence of part sizes and a set of deleted edges. `GraphEdges` has
the steps of ContractEdge: swap both ends to the end of their parts, rewrite the
edges, remove the last vertices, drop empty parts. `GraphMoves` starts from
complete graphs with any few edges deleted and applies the three operations that
make a dense graph from another: the two branches of CountAcyclicOrientations,
and a swap. The operators of `GraphInvariants` follow the functions that compute
I2, I3, I4 and Pt: the formula with `Xi1`, `Xi2AndXi3`, the two cases of I4, the
garlands of Pt. What the code computes by recursion is in a module of its own:
`MultipartiteGraphs` has deletion and contraction, the counter of complete
graphs, and the comparison of a dense graph with the source that graph_cases
makes in `CompareSourceAndDense`. Both recursions are recursive functions, of all
sequences of sizes and of all graphs, and not RECURSIVE operators: nothing can be
proved about those. That the counter sorts the sizes is a choice among their
rearrangements. `GraphCounts` and `DenseGraphs` compare all of
this with `GraphReference`, also on graphs that come out of a chain of
contractions. The code's 32-bit overflow is out of sight: the graphs are small.

## Runs

| run | question | bounds |
|---|---|---|
| QueueSafety | does a thread sleep on something it should not? | 3 producers, 3 consumers, 2 empty-waiters, a bound of 2, with symmetry |
| QueueLive | is the queue a bounded channel, is everything delivered, does WaitEmpty return? | 2 producers, a plain and a timed consumer, 1 empty-waiter, a bound of 2 |
| Executer | does each task run exactly once, is Stop a barrier, does it return? | 3 workers, 3 tasks, a queue of 3, room for 2 exceptions: every Push can block |
| ExecuterSecondStop | does the destructor return after Stop? *violated* | 2 workers, a queue of 1 |
| Pipeline | is the output complete, in order, does the program end? | 2 workers or main alone, one writer, queues of 2, smaller than the number of lines |
| SharedCaches | are the caches and the shared fields right, what can a call return, does it return? | 2 threads of 2 calls each; arguments up to 3, 13 pairs, a modulus of 40; graphs with at most 3 parts and 7 vertices, four of them for tasks of their own |
| FactorialRace | is a result the factorial of its argument? *violated* | 2 threads up to 3 |
| OrientationRace | is an answer of the counter the count? *violated* | as SharedCaches |
| Explorer | are printed rows final, does the program end? | 2 workers or main alone, a queue of 2, 4 tasks, 2 rows, 3 values |
| Generators | does a loop see everything once, does it end? | all generators over at most 6 elements |
| DenseGraphsSmall | do the formulas count, is an equivalent graph ever rejected? | seven complete graphs of 4 to 6 vertices, at most 3 deleted edges |
| OrientationsCalculator | do options get their arguments, do queries get their answers, does the program settle? | all command lines of up to 3 arguments, inputs of up to 6 of 9 lines |

Why these bounds suffice: the queue's steps look only at whether the deque is
empty, full, or about to become so, and at who sleeps; two threads per role have
all the races of overtaking and of wasted wakeups. The executer is proved for
every number of workers and tasks, TLC serves to find mistakes early. In the
pipeline the queues are smaller than the number of lines, so that every queue
fills up and runs empty. `PipelineEnds` and `ExplorerEnds` hold because each queue
has room for one stop message per worker: with less the destructor waits for ever
(`ExecuterSecondStop`). In the caches two threads have all the races of a look
without the mutex with one extension, and a second call of the same thread finds
what the first has left; more threads are in the proofs. `GrowsAt` = {0, 2}
stands for the numbers of elements at which the library's table grows (0, 13,
29, ...), so that a table of a few elements moves; with the modulus 40 the
product wraps around at n = 7 as it does at 65537 in the code. The pairs have
each shortcut, a wrapped one, k > n, and two rows that need the cache; the graph
with parts of 1 and 6 vertices makes the counter wait for the binomial cache's
mutex. Queries of the calculator need a line each for the graph and the number,
and one for each edge: six lines are two queries with an edge each, one with two
edges and one without, or three without. Larger queries are left to
`EachQueryGetsItsAnswer`. The starting graphs have parts of one vertex
(contraction removes the part), of several, up to four parts, and both kinds of
pairs of deleted edges; `PtCounts` has a hypothesis on the deleted edges which
most of the reached graphs satisfy.

Deadlock checking is off where the system may really stop: in `QueueSafety` and
`QueueLive`, because everybody sleeps when nobody pushes any more; in `Executer`,
because a worker may wait for ever for room for an exception
(`MoreExceptionsThanRoom`; no caller empties that queue before Stop), and in
`ExecuterSecondStop`, because the owner's Push may wait for ever (below); in
`SharedCaches` and `OrientationRace`, because threads end after their calls; in
`OrientationsCalculator`, because the program ends; and in `DenseGraphsSmall`,
because a graph without deleted edges and with parts of one vertex has no step.

### Fairness

Threads that can take a step eventually take one (weak fairness per thread):
the operating system schedules them and the mutex is handed on. For the queue
this is per operation of a thread; a notified thread stays enabled until it has
the mutex. Spurious wakeups are never owed. Tasks end: `Do` is a computation
without waiting, apart from the push to the writer, which is modelled. The owner
of an executer is only obliged to go on inside Stop; in the two programs main is
one thread with weak fairness. Threads in a call of a cache go on; nobody is
obliged to call. Each thread makes finitely many calls, and with these weak
fairness is enough for a thread to get the mutex in the end. The calculator is
one thread that runs; `ProgramSettles` counts its endless loop as an end.

### What the violated runs show

`ExecuterSecondStop`: the destructor of the executer calls Stop again. The
threads are gone, the new stop messages stay in the queue, and if the queue is
bounded by less than the number of threads, `Push` waits for a pop that never
comes. `tests/test_singleton.cpp` stops an executer and lets it go out of scope,
with a queue that is large enough; `invariant_explorer -t 4 --max-queue-size 2`
prints its rows and hangs. graph_cases is safe up to 1000 threads.

`FactorialRace`: a call for n that finds the cache too short takes the lock and
returns the last element. If another thread has extended the cache further in
between, this is the factorial of a larger number. `FactorialsAreRight` in
`SharedCaches` says that nothing worse happens: the cache itself is right. The
binomial cache returns the element of its row, and is not affected.

`OrientationRace`: a thread that looks for a count without the mutex may find the
zero that `operator[]` has just inserted for the thread that holds it, and returns
it. `CountsAreRight` says that nothing else is ever wrong in the map, and
`LockedAnswersAreCounts` that a thread which took the mutex is answered right.
The shared graph is safe from this, because graph_cases has computed its count
before there are threads (`SharedAnswersAreRight`); the graphs that contraction
makes in the tasks are not.

Some limits found on the way are not findings, since nothing in the repository
says otherwise. A timed Pop that was notified may give up nevertheless, so that
an item may wait while another consumer sleeps: `NoItemSleptOn` is checked and
proved without timed consumers. And I4 counts induced 4-cycles that meet two or
three parts; two deleted edges in four different parts make one that meets four,
which it does not count (`I4Counts`). At the end of its input the calculator
loops for ever, unless it was told "exit" before (`Spin`), and where a
number of edges is no number it answers for the graph without deleted edges
first (`AnswersAreQueries`).

## Proofs

The `*Proofs` modules prove, for all values of the constants that satisfy the
named assumptions:

| theorem | statement |
|---|---|
| `TypeCorrect` | types, and the bound of the deque |
| `NoEmptinessIsSleptOn`, `NoItemIsSleptOn`, `NoRoomIsSleptOn` | no wakeup is lost (the second without timed consumers) |
| `QueueImplementsFifo` | the queue implements the bounded channel |
| `Invariance` (`ExecuterProofs`) | the invariant `Inv` of the executer |
| `WorkersHaveTheirStops` | there is a stop message for each worker |
| `StopIsABarrier` | after Stop everything is done and reported (at least one worker) |
| `ExecuterImplementsTaskPool` | the executer implements the pool (at least one worker) |
| `TheWriterOutlivesTheTasks` | no task runs when the writer's destructor starts |
| `TheOutputIsComplete` | at the end there is one line for each comparison that returned (the writer has a worker) |
| `TheLinesKeepTheirOrder` | lines are written in the order of the pushes (the writer has one worker) |
| `TheRowsAreFinal` | a printed row of invariant_explorer has the extremes of all its tasks that returned |
| `FactorialInvariance`, `FactorialsStayRight` | the cache holds factorials, a call returns one; alone and in `SharedCaches` |
| `OneThreadGetsTheFactorial` | with one thread it is the factorial of the argument (with two it need not be: `FactorialRace`) |
| `BinomialInvariance`, `BinomialsStayRight` | the cache is Pascal's triangle, a call returns the element of its row |
| `AnswersStayBinomials` | that element is n! / (k! (n - k)!), and so is each shortcut whose product does not wrap |
| `OrientationInvariance`, `CountsStayRight` | the map holds counts, but for a zero about to be assigned |
| `LockedCallsAreRight` | a call that took the counter's mutex returns the count |
| `SharedGraphIsRight` | the shared graph answers with its invariants |
| `LoopsSeeNothingElse` | the loops over choices, pairs and subsets see only what their generator stands for, and nothing twice |
| `LoopsSeeEverything` | when they end they have seen all of it |
| `GraphsStayGraphs` | deletion, contraction and swaps make graphs: no part is empty, what is deleted is an edge |
| `EdgesAndTrianglesAreCounted` | I2 and I3 count edges and triangles |
| `FourCyclesAreCounted` | I4 counts the induced 4-cycles that meet two or three parts |
| `PartitionsAreCounted` | Pt counts partitions into one more stable set than there are parts, unless a garland destroys as many parts as it replaces |
| `CompleteGraphsAreCounted` | the counter of complete graphs counts acyclic orientations, whatever the parts |
| `OrientationsAreCounted` | CountAcyclicOrientations counts acyclic orientations |
| `SwapsChangeNothing` | the exchange of two vertices of a part leaves I3, I4 and Pt as they are |
| `ContractEdgeIsContraction` | what ContractEdge returns is isomorphic to the graph with the edge contracted |
| `ParserInvariance` | between two rounds of the loop the parser stands at an argument that is no value, and all before it are handled |
| `ExactlyTheWrongLinesAreRejected` | Parse throws if, and only if, the command line is wrong |
| `EachOptionGetsItsArguments` | if it is not, each option has what belongs to it, in order, or its default |
| `EachQueryGetsItsAnswer` | the calculator answers each query of its input, in order, with its own edges |

The queue. `NoItemSleptOn` is inductive together with the types: while somebody
sleeps in Pop, the items number at most the woken consumers. A push adds an item
and a woken thread; a consumer that takes an item was either itself the woken
one, and both numbers fall by one, or it was not, and only the items fall. The
only other way out of "woken" is to find the deque empty. The same argument,
with free slots for items, gives `NoRoomSleptOn`. Refinement needs that the
deque is the part of `pushed` behind `popped`, which is proved first
(`DequeIsTheRestInvariant`).

The executer. "After Stop every task is done" is not inductive. What makes it
true: tasks are sent before stop messages and taken in the order of sending, so
a worker that has taken a stop message proves that all tasks are taken
(`NoTaskBehindAStop`, `TakenInOrder`, `ExitedMeansAStopWasTaken`); a task that
is taken is done or in the hands of a worker (`TakenTasksAreHandled`); and when
WaitAll has returned no worker holds anything (`StoppedMeansExited`). That each
worker finds a stop message is a counting argument: the workers still in their
loop number at most the stop messages in the queue plus those still to be pushed
(`EnoughStops`).

With no workers at all (`threadCount` 0, which CreateExecuter does not refuse)
tasks are never run and Stop returns at once; this is what the assumption of the
two theorems about at least one worker excludes.

The pipeline. A step of `ComparePipeline` is a step of the pool's executer or
leaves it alone, and the same for the writer's (`PoolStep`, `WriterStep`); so both
have the invariant of `ExecuterProofs`, with its theorems instantiated twice. When
main runs the tasks itself the pool is not used, and the tasks that have ended are
the first n. A task whose comparison has returned has pushed its line or is about
to (`ComparedTasks`). Between the two executers the invariant says that the lines
pushed to the writer are those of the tasks that returned (`LinesAreReturned`),
and that the output has exactly the lines of the writer's tasks that are done,
each once (`OutputIsWritten`). `StoppedMeansDone` of the writer turns this into
`OutputIsComplete`: at the end everything pushed is done. It needs a worker in the
writer; the order of the lines needs that there is only one, who has written what
it has taken but for the line in its hands (`WrittenInOrder`). For the writer to
outlive the tasks it is enough that its destructor comes after the pool's
(`DestroyedInOrder`), whose workers have then left their loops, or after the last
task that main has run itself.

The explorer. Its steps are steps of the executer or leave it alone, so `Inv` of
`ExecuterProofs` holds, unless main runs the tasks; then the executer has nothing
sent and no worker that moves (`ExecuterIsUnused`). Each collector has the
extremes of the tasks that have returned (`CollectorsAreExact`), and each task
that was added finds its collector (`TasksHaveCollectors`). That main may read
them without their mutex is `RowsComeLast`: when the first row is printed, Stop
has returned, no worker is in its loop, and there are all the collectors there
will be.

The caches. For the two deques: a thread that reads without the mutex has seen a
deque that is long enough, and deques only grow. For the map: each frame of the
recursion has added up the calls it is done with; frames are for shorter and
shorter vectors, so that no two are for the same; and none of these is in the map,
so that an insertion makes the element it assigns to. The theorem holds for every
recursion that only calls itself with fewer parts, which `Sums` and `Calls`
describe: what the recursion adds up is data there, and
`MCRowsAreRight` compares it with the textbook. For the shared graph: no thread
computes the number of orientations (main has, or nobody asks), and the other
fields only ever change from zero to the value that all threads compute. What
threads do in `SharedCaches` is for each cache a behaviour that its own module
admits (`EachCacheByItself`), and the rest follows; for the binomial cache this
needs the frames of the counter, which only ask for coefficients that its
recursion needs (`OwedOK`). That the triangle has the
binomial coefficients is an induction over its rows. The library's induction
theorems cannot be used with this prover, but the argument about the least number
that is an exception can (`LeastNumber`, from a well-founded order). Factorials
are a function, and k! (n - k)! times the element is n! by Pascal's rule; the
shortcuts are the same identity with up to two factors taken out.

The generators. The loops visit combinations in the lexicographic order
`Before`. The inductive invariant `Position` says that the body has seen exactly
what comes before the iterator; nothing comes before the first combination
(`ChoiceBeginIsFirst`), everything comes before the end (`ChoiceEndIsLast`), and
an increment adds exactly the combination it leaves (`ChoiceNextIsNext`, where
`GrowIsNext` is the case of a combination that is not the last). For pairs the
same facts are arithmetic. The iterator over subsets is a number, and what has
been seen are the selections of the smaller numbers. `operator*` and the shift in
end() are recursive functions; `SelectedFacts` and `ShiftedFacts` turn their
definitions into equations. From these, by the least number that is an exception:
a selection is increasing (`SelectedRises`), two states never select the same
(`SelectedOnce`), a state below `1 << n` selects from n elements
(`SelectedBelow`), and every increasing sequence of such elements is selected by
one (`SelectedAll`).

The graphs. ContractEdge is three renamings of vertices. The ends of the edge
change places with the last vertices of their parts (an exchange is its own
inverse); the last vertex of one part takes the place of both ends; the parts
behind one that has become empty move forward. Each is injective where it has to
be, and an injective renaming leaves adjacency alone; what remains is that the
new vertex is adjacent to what one of the two ends was adjacent to. The
composition is the witness for the isomorphism that `ContractEdgeContracts`
asks for. `GraphsStayGraphs` needs the same facts: what is renamed is still an
edge between two parts, and the part that loses a vertex had one.

The invariants of graphs. Each theorem compares a sum of the code with the size
of a set. The sum of a library function over a set takes its elements one by
one; that the order does not matter (`SumWithout`) is the base, from which follow
linearity, the sum of a constant, and two ways to count: a set whose elements
have a key has the sum of what there is for each key (`CountByKey`), and the sum
of the sizes of some sets is the size of the set of tagged elements
(`CountTagged`). Each comparison is then a map that is one to one and onto.

* I2 and I3: the elementary symmetric sums of the code are the numbers of edges
  and triangles of the complete graph (`SumsOfProducts`, `EdgesAreCounted`,
  `AllTrianglesAreCounted`). `Xi1` counts a triangle once for each edge it lacks,
  `Xi2` once for each pair of those, and with `Xi3` this adds up to one for each
  triangle that lacks an edge, however many. A triangle that lacks all three is
  met once for each pair of its edges (`ClosedCountGaps`), which is why the code
  divides by three.
* I4: an induced 4-cycle is two pairs of vertices that are not adjacent. In two
  parts both pairs lie in parts; in three, one of them is a deleted edge. The
  code adds up exactly these.
* Pt: a partition into one stable set more than there are parts may use no
  deleted edge; then all its sets lie in parts, one part is halved, and there are
  2^(n-1) - 1 ways to halve n vertices (`HalvedArePartitions`). Otherwise the
  deleted edges within its sets are a garland, whose components are the sets
  that meet several parts. Each part that is not destroyed has a set of its own,
  so the components number at most one more than the destroyed parts. They
  number more than those by the hypothesis of `PtCounts`, "relatively small" in
  `multipartite_graphs.h`; so it is one more, the garland is interesting, and
  the other sets are what is left of the parts (`GarlandsArePartitions`).
* Acyclic orientations: an orientation has no cycle if, and only if, every set of
  vertices has a sink; that is how cycles are spoken of without paths, and it is
  what the textbook definition produces vertex by vertex
  (`AcyclicOrientationsAre`). If u and v are not joined, an orientation of the
  graph goes with an arc from u to v, or one from v to u, or both, for paths in
  both directions would be a cycle (`OneOfTwoArcs`); both, exactly if it is an
  orientation of the graph with u and v identified (`MergedOrientations`).
  Counting gives deletion and contraction (`DeletionContraction`), and
  `ContractEdgeIsContraction` says that the code contracts.
* The counter of complete graphs: the sinks of an orientation are in one part,
  since two in different parts would be joined (`CountBySinkPart`). Any j vertices
  of part c are the sinks of as many orientations as there are of the rest with
  their sinks elsewhere (`CountWithSinks`), and there are `choose` many such sets:
  each element of a set of n is in as many of its subsets of k (`CountSubsets`).
  The rest is a complete graph again, with part c smaller (`PartShrinks`) or gone
  (`PartVanishes`), and the order of the parts does not matter
  (`RearrangedCountsTheSame`), so that they may be sorted.
* Recursive functions are choices of a function that meets their definition. Each
  needs two arguments: one exists (`CountsCompute`, `CountsDelete`), namely the
  number to be counted; and there is no other, since the smallest graph on which
  two differ would be settled by smaller ones (`ComputingCounts` by the vertices,
  `DeletingCounts` by the vertices and then the deleted edges).
* Swaps: the renaming of two vertices of a part is its own inverse, keeps
  parts, and takes edges to edges (`IsTwin`). Then triangles, cycles and garlands
  are renamed as well, and there are as many of them (`RenamedAreAsMany`).

The parser. `IsName` says which arguments of a line are names: one with a dash
that is not the value of the name before it. The definition refers to itself, so
that first a function has to be found which meets it (`NamesExist`), again with
the least number. Parse reads a line from left to right. Between two rounds it
stands at an argument for which no name waits, and if that argument has no dash,
the one before is no free argument either (`Stands`). Everything before it is
handled (`Handled`): the used options are those with an argument before this
place, and the free options used are as many as there were runs of free
arguments. `IsFilled` says what the targets hold. A round extends both to the
next place where Parse stands, or throws, and then the line has the fault that
the code throws for; at the end of the line these are the two theorems. That a
line is a sequence of strings is `OptParserAssumption`, that a complete graph
has no empty part `StartAssumption`.

The calculator. While the stream is good, the lines that were read are those of
the answered queries and the beginning of one more (`InQuery`): empty lines, or
these and a graph, or a number with some of its edges; the lines with four
numbers so far and the number of those still wanted then add up to it
(`EdgesBehind`). What `operator>>` leaves of a line can never be taken for a
line of the input: it is the empty line, which is skipped, or no line of numbers
(`RestIsHarmless`, `RestOfCount`); this is why an answer never has edges that
somebody else's line began. When the stream has failed nothing is read any more,
and at most one answer is written, without edges.

Only model-checked:

* liveness, for which the prover has no rules of fairness: `EverythingDelivered`,
  `WaitEmptyIsAnswered`, `StopReturns`, `PipelineEnds`, `CallsReturn`,
  `ExplorerEnds`, `LoopEnds`, `ProgramSettles`;
* `EquivalentGraphsAreNotRejected`: that the chromatic polynomial determines
  these invariants is a theorem of graph theory whose proof needs polynomials.

## Not modelled

* Printing, the test registry, the build: no state that a program depends on. The
  singleton: the language initialises a local static once.
* `TAutoIndexer` numbers the vertices of a garland, where the models use the
  vertices themselves; nothing calls it with a bound.
* `WriteEdgeStat` of graph_cases, which formats a table. It has the size of the
  source's parts and is indexed with the target's: a target with more parts is
  written outside of it.
* `MakeInvariant` of invariant_explorer, a lookup that may throw before there are
  threads.
* The lazily computed fields of a dense graph, which one thread has for itself,
  and its move assignment, which keeps the fields of the old graph and which
  nothing calls.
* What the operating system may refuse: the failure to create a thread.
* Undefined behaviour behind bad arguments: combinations with K > N or K = 0,
  subsets of 64 or more elements, vertices that a graph does not have. A lookup in
  a table that is being moved ends the model (`broken`).
* Overflow in the invariants of graphs; only the product in the binomial cache
  has its width.
* `IsEmpty` of the queue, which nothing calls while threads use it.

## Plan

Done, in this order: the queue and its abstract channel; the executer and its
pool; both programs; the factorial cache; the graphs; the generators; the
binomial cache, the orientation counter and the shared graph, and their
composition; the option parser and the calculator; the proofs of the caches and
of the pipeline; those of the explorer, of the binomial coefficients, of the
graphs, of the parser and of the calculator; those of the generators, of the
invariants of graphs and of the acyclic orientations. What would come next:

1. `AutoIndexer` and the early answers of invariant_explorer.
2. Larger graphs, with numbers of the code's width.
