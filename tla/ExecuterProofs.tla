--------------------------- MODULE ExecuterProofs ---------------------------
(***************************************************************************)
(* Proofs about Executer, for any finite sets of workers and tasks, any    *)
(* size of the two queues, with and without a queue of exceptions.         *)
(*                                                                         *)
(* The conjuncts of Inv are proved to be preserved one by one, from the    *)
(* facts about the channel below; the properties then follow from Inv.     *)
(***************************************************************************)
EXTENDS Executer, FiniteSetTheorems, TLAPS

USE ExecuterAssumption

-----------------------------------------------------------------------------
(* The channel.                                                            *)

Messages == Tasks \cup {StopMessage}

\* Pop() takes the oldest message and disturbs no other.
LEMMA TakeFacts ==
  ASSUME TypeOK, TakenInOrder, Queue!Take
  PROVE  /\ sent' = sent
         /\ Len(received') = Len(received) + 1
         /\ Len(received') \in 1..Len(sent)
         /\ Oldest \in Messages
         /\ received' \in Seq(Messages)
         /\ TakenInOrder'
         /\ \A x : Taken(x)' <=> Taken(x) \/ x = Oldest
<1> USE DEF TypeOK, Messages
<1>1. /\ sent' = sent
      /\ received' = Append(received, Oldest)
      /\ Len(received) < Len(sent)
  BY DEF Queue!Take, Oldest
<1>2. Len(received) + 1 \in 1..Len(sent) /\ Oldest \in Messages
  BY <1>1 DEF Oldest
<1>3. /\ received' \in Seq(Messages)
      /\ Len(received') = Len(received) + 1
      /\ \A i \in 1..Len(received) : received'[i] = received[i]
      /\ received'[Len(received) + 1] = Oldest
  BY <1>1, <1>2
<1>4. TakenInOrder'
  BY <1>1, <1>2, <1>3 DEF TakenInOrder, Oldest
<1>5. ASSUME NEW x PROVE Taken(x)' <=> Taken(x) \/ x = Oldest
  <2>1. 1..Len(received') = (1..Len(received)) \cup {Len(received) + 1}
    BY <1>2, <1>3
  <2> QED
    BY <1>1, <2>1 DEF Taken, Oldest
<1> QED
  BY <1>1, <1>2, <1>3, <1>4, <1>5

\* Push() puts the message behind all the others.
LEMMA PutFacts ==
  ASSUME TypeOK, TakenInOrder, NEW x \in Messages, Queue!Put(x)
  PROVE  /\ sent' \in Seq(Messages)
         /\ received' = received
         /\ Len(sent') = Len(sent) + 1
         /\ \A i \in 1..Len(sent) : sent'[i] = sent[i]
         /\ sent'[Len(sent) + 1] = x
         /\ 1..Len(sent') = (1..Len(sent)) \cup {Len(sent) + 1}
         /\ TakenInOrder'
         /\ \A y : Taken(y)' <=> Taken(y)
<1> USE DEF TypeOK, Messages
<1>1. sent' = Append(sent, x) /\ received' = received
  BY DEF Queue!Put
<1>2. /\ sent' \in Seq(Messages)
      /\ Len(sent') = Len(sent) + 1
      /\ \A i \in 1..Len(sent) : sent'[i] = sent[i]
      /\ sent'[Len(sent) + 1] = x
  BY <1>1
<1>3. Len(sent) \in Nat /\ Len(received) \in Nat /\ Len(received) <= Len(sent)
  BY DEF TakenInOrder
<1>4. /\ 1..Len(sent') = (1..Len(sent)) \cup {Len(sent) + 1}
      /\ 1..Len(received) \subseteq 1..Len(sent)
  BY <1>2, <1>3
<1>5. TakenInOrder'
  BY <1>1, <1>2, <1>3, <1>4 DEF TakenInOrder
<1>6. \A y : Taken(y)' <=> Taken(y)
  BY <1>1, <1>2, <1>4 DEF Taken
<1> QED
  BY <1>1, <1>2, <1>4, <1>5, <1>6

-----------------------------------------------------------------------------
(* Types.                                                                  *)

LEMMA StopsToPushType == StopsToPush \in Nat
  BY FS_CardinalityType DEF StopsToPush

\* The items of the workers and the outcomes of the tasks keep their types,
\* and a worker holds a task exactly while it runs or reports one.
LEMMA NextTypeOK ==
  ASSUME TypeOK, TakenInOrder, [Next]_vars
  PROVE  TypeOK' /\ TakenInOrder'
<1> USE DEF TypeOK
<1>1. ASSUME NEW w \in Workers, TakeTask(w) PROVE TypeOK' /\ TakenInOrder'
  <2>1. Queue!Take /\ Oldest \in Messages \ {StopMessage}
    BY <1>1, TakeFacts DEF TakeTask
  <2>2. sent' = sent /\ received' \in Seq(Messages) /\ TakenInOrder'
    BY <2>1, TakeFacts
  <2>3. at' = [at EXCEPT ![w] = "do"] /\ item' = [item EXCEPT ![w] = Oldest]
    BY <1>1 DEF TakeTask
  <2>4. Oldest \in Tasks /\ Oldest # NoTask
    BY <2>1 DEF Messages
  <2>5. UNCHANGED <<outcome, Exceptions, phase, stopsPushed, destroying>>
    BY <1>1 DEF TakeTask, ownerVars
  <2> QED
    BY <2>2, <2>3, <2>4, <2>5 DEF Messages
<1>2. ASSUME NEW w \in Workers, TakeStop(w) PROVE TypeOK' /\ TakenInOrder'
  <2>1. sent' = sent /\ received' \in Seq(Messages) /\ TakenInOrder'
    BY <1>2, TakeFacts DEF TakeStop
  <2> QED
    BY <1>2, <2>1 DEF TakeStop, ownerVars, Messages
<1>3. ASSUME NEW w \in Workers, DoReturns(w) \/ DoThrows(w) \/ Report(w)
      PROVE  TypeOK' /\ TakenInOrder'
  <2>1. sent' = sent /\ received' = received /\ item[w] \in Tasks
    BY <1>3 DEF DoReturns, DoThrows, Report
  <2>2. TakenInOrder'
    BY <2>1 DEF TakenInOrder
  <2> QED
    BY <1>3, <2>1, <2>2 DEF DoReturns, DoThrows, Report, ownerVars
<1>4. ASSUME NEW t \in Tasks, Add(t) PROVE TypeOK' /\ TakenInOrder'
  <2>1. received' = received /\ sent' \in Seq(Messages) /\ TakenInOrder'
    BY <1>4, PutFacts DEF Add, Messages
  <2> QED
    BY <1>4, <2>1 DEF Add, workerVars, ownerVars, Messages
<1>5. ASSUME PushStop PROVE TypeOK' /\ TakenInOrder'
  <2>1. received' = received /\ sent' \in Seq(Messages) /\ TakenInOrder'
    BY <1>5, PutFacts DEF PushStop, Messages
  <2>2. stopsPushed' \in 0..StopsToPush
    BY <1>5, StopsToPushType DEF PushStop
  <2> QED
    BY <1>5, <2>1, <2>2 DEF PushStop, workerVars, Messages
<1>6. ASSUME BeginStop \/ BeginDestroy \/ StopAllReturns \/ WaitAllReturns
      PROVE  TypeOK' /\ TakenInOrder'
  <2> USE DEF BeginStop, BeginDestroy, StopAllReturns, WaitAllReturns
  <2>1. UNCHANGED <<sent, received, at, item, outcome, Exceptions>>
    BY <1>6 DEF workerVars
  <2>2. stopsPushed' \in 0..StopsToPush
    <3>1. stopsPushed' = stopsPushed \/ stopsPushed' = 0
      BY <1>6
    <3> QED
      BY <3>1, StopsToPushType
  <2>5. destroying' \in BOOLEAN
    BY <1>6
  <2>3. phase' \in {"running", "stopAll", "waitAll", "stopped", "destroyed"}
    BY <1>6
  <2>4. TakenInOrder'
    BY <2>1 DEF TakenInOrder
  <2> QED
    BY <2>1, <2>2, <2>3, <2>4, <2>5
<1>7. ASSUME UNCHANGED vars PROVE TypeOK' /\ TakenInOrder'
  BY <1>7 DEF vars, TakenInOrder
<1> QED
  BY <1>1, <1>2, <1>3, <1>4, <1>5, <1>6, <1>7
     DEF Next, Work, Stop, Destroyed

-----------------------------------------------------------------------------
(* The order of the messages.                                              *)

\* Only Add and PushStop change what was sent.
LEMMA SentSteps ==
  ASSUME [Next]_vars
  PROVE  \/ sent' = sent
         \/ \E t \in Tasks : Add(t)
         \/ PushStop
  BY DEF Next, vars, Work, Stop, Destroyed, TakeTask, TakeStop, DoReturns,
         DoThrows, Report, BeginStop, BeginDestroy, StopAllReturns,
         WaitAllReturns, Queue!Take

LEMMA NextTasksAreSentOnce ==
  ASSUME Inv, [Next]_vars
  PROVE  TasksAreSentOnce'
<1> USE DEF Inv, TasksAreSentOnce
<1>1. CASE sent' = sent
  BY <1>1
<1>2. ASSUME NEW t \in Tasks, Add(t) PROVE TasksAreSentOnce'
  <2>1. Queue!Put(t) /\ t \in Messages
    BY <1>2 DEF Add, Messages
  <2>2. \A i \in 1..Len(sent) : sent[i] # t
    BY <1>2 DEF Add, Added, TypeOK
  <2> QED
    BY <2>1, <2>2, PutFacts
<1>3. ASSUME PushStop PROVE TasksAreSentOnce'
  <2>1. Queue!Put(StopMessage) /\ StopMessage \in Messages
    BY <1>3 DEF PushStop, Messages
  <2> QED
    BY <2>1, PutFacts
<1> QED
  BY <1>1, <1>2, <1>3, SentSteps

\* Stop() closes the queue of tasks: Add is not called after it.
LEMMA NextStopsComeLast ==
  ASSUME Inv, [Next]_vars
  PROVE  NoTaskBehindAStop' /\ NoStopWhileRunning'
<1> USE DEF Inv, NoTaskBehindAStop, NoStopWhileRunning
<1>1. CASE sent' = sent
  <2>1. phase' = "running" => phase = "running"
    BY DEF Next, vars, Work, Stop, Destroyed, TakeTask, TakeStop, DoReturns,
           DoThrows, Report, Add, BeginStop, BeginDestroy, PushStop,
           StopAllReturns, WaitAllReturns, ownerVars
  <2> QED
    BY <1>1, <2>1
<1>2. ASSUME NEW t \in Tasks, Add(t)
      PROVE  NoTaskBehindAStop' /\ NoStopWhileRunning'
  <2>1. Queue!Put(t) /\ t \in Messages /\ phase = "running"
    BY <1>2 DEF Add, Messages
  <2>2. \A i \in 1..Len(sent') : sent'[i] # StopMessage
    BY <2>1, PutFacts
  <2> QED
    BY <2>2
<1>3. ASSUME PushStop PROVE NoTaskBehindAStop' /\ NoStopWhileRunning'
  <2>1. /\ Queue!Put(StopMessage) /\ StopMessage \in Messages
        /\ phase' # "running"
    BY <1>3 DEF PushStop, Messages
  <2>2. Len(sent) \in Nat
    BY DEF TypeOK
  <2>3. ASSUME NEW i \in 1..Len(sent'), NEW j \in 1..Len(sent'),
               sent'[i] = StopMessage, i < j
        PROVE  sent'[j] = StopMessage
    <3>1. i \in 1..Len(sent)
      BY <2>1, <2>2, <2>3, PutFacts
    <3> QED
      BY <2>1, <2>3, <3>1, PutFacts
  <2> QED
    BY <2>1, <2>3
<1> QED
  BY <1>1, <1>2, <1>3, SentSteps

-----------------------------------------------------------------------------
(* The workers and their tasks.                                            *)

\* Steps that are neither TakeTask nor the end of a task change nothing that
\* belongs to a task, and take at most a stop message.
LEMMA OtherStepsKeepTasks ==
  ASSUME Inv, [Next]_vars,
         \A w \in Workers : ~(\/ TakeTask(w) \/ DoReturns(w)
                              \/ DoThrows(w) \/ Report(w))
  PROVE  /\ UNCHANGED <<item, outcome, Exceptions>>
         /\ \A t \in Tasks : Taken(t)' <=> Taken(t)
         /\ \/ at' = at
            \/ \E w \in Workers : /\ at[w] = "pop"
                                  /\ at' = [at EXCEPT ![w] = "exited"]
                                  /\ Taken(StopMessage)'
<1> USE DEF Inv
<1>1. ASSUME NEW w \in Workers, TakeStop(w)
      PROVE  /\ UNCHANGED <<item, outcome, Exceptions>>
             /\ \A t \in Tasks : Taken(t)' <=> Taken(t)
             /\ at[w] = "pop"
             /\ at' = [at EXCEPT ![w] = "exited"]
             /\ Taken(StopMessage)'
  BY <1>1, TakeFacts DEF TakeStop
<1>2. ASSUME NEW t \in Tasks, Add(t)
      PROVE  /\ UNCHANGED <<item, outcome, Exceptions, at>>
             /\ \A u \in Tasks : Taken(u)' <=> Taken(u)
  BY <1>2, PutFacts DEF Add, Messages, workerVars
<1>3. ASSUME PushStop
      PROVE  /\ UNCHANGED <<item, outcome, Exceptions, at>>
             /\ \A u \in Tasks : Taken(u)' <=> Taken(u)
  BY <1>3, PutFacts DEF PushStop, Messages, workerVars
<1>4. ASSUME \/ BeginStop \/ BeginDestroy \/ StopAllReturns
             \/ WaitAllReturns \/ UNCHANGED vars
      PROVE  /\ UNCHANGED <<item, outcome, Exceptions, at>>
             /\ \A u \in Tasks : Taken(u)' <=> Taken(u)
  BY <1>4 DEF BeginStop, BeginDestroy, StopAllReturns, WaitAllReturns,
              workerVars, vars, Taken
<1> QED
  BY <1>1, <1>2, <1>3, <1>4 DEF Next, Work, Stop, Destroyed

\* The next message, if it is a task, was not popped before.
LEMMA OldestIsFresh ==
  ASSUME Inv, Queue!Take, Oldest \in Tasks
  PROVE  ~Taken(Oldest) /\ outcome[Oldest] = "none"
<1>1. Len(received) \in Nat /\ Len(received) < Len(sent) /\ Len(sent) \in Nat
  BY DEF Inv, TypeOK, Queue!Take
<1>2. ~Taken(Oldest)
  BY <1>1 DEF Inv, TasksAreSentOnce, Taken, Oldest
<1> QED
  BY <1>2 DEF Inv, TypeOK, TakenTasksAreHandled

\* Nobody else holds the next task either.
LEMMA NobodyHoldsOldest ==
  ASSUME Inv, Queue!Take, Oldest \in Tasks
  PROVE  \A v \in Workers : item[v] # Oldest
<1> SUFFICES ASSUME NEW v \in Workers, item[v] = Oldest PROVE FALSE
  OBVIOUS
<1>1. at[v] \in {"do", "report"}
  BY DEF Inv, TypeOK
<1> QED
  BY <1>1, OldestIsFresh DEF Inv, HeldTasksAreUnfinished

LEMMA NextNoTaskIsHeldTwice ==
  ASSUME Inv, [Next]_vars
  PROVE  NoTaskIsHeldTwice'
<1> USE DEF Inv, TypeOK, NoTaskIsHeldTwice
<1>1. ASSUME NEW w \in Workers, TakeTask(w) PROVE NoTaskIsHeldTwice'
  <2>1. Queue!Take /\ Oldest \in Tasks
    BY <1>1, TakeFacts DEF TakeTask, Messages
  <2>2. item' = [item EXCEPT ![w] = Oldest]
    BY <1>1 DEF TakeTask
  <2> QED
    BY <2>1, <2>2, NobodyHoldsOldest
<1>2. ASSUME NEW w \in Workers, DoReturns(w) \/ DoThrows(w) \/ Report(w)
      PROVE  NoTaskIsHeldTwice'
  <2>1. item' = item \/ item' = [item EXCEPT ![w] = NoTask]
    BY <1>2 DEF DoReturns, DoThrows, Report
  <2> QED
    BY <2>1
<1> QED
  BY <1>1, <1>2, OtherStepsKeepTasks

LEMMA NextHeldTasksAreUnfinished ==
  ASSUME Inv, [Next]_vars
  PROVE  HeldTasksAreUnfinished'
<1> USE DEF Inv, TypeOK, HeldTasksAreUnfinished
<1>1. ASSUME NEW w \in Workers, TakeTask(w) PROVE HeldTasksAreUnfinished'
  <2>1. Queue!Take /\ Oldest \in Tasks
    BY <1>1, TakeFacts DEF TakeTask, Messages
  <2>2. /\ at' = [at EXCEPT ![w] = "do"]
        /\ item' = [item EXCEPT ![w] = Oldest]
        /\ UNCHANGED <<outcome, Exceptions>>
    BY <1>1 DEF TakeTask
  <2>3. \A x : Taken(x)' <=> Taken(x) \/ x = Oldest
    BY <2>1, TakeFacts
  <2> QED
    BY <2>1, <2>2, <2>3, OldestIsFresh
<1>2. ASSUME NEW w \in Workers, DoReturns(w) \/ DoThrows(w) \/ Report(w)
      PROVE  HeldTasksAreUnfinished'
  <2>1. item[w] \in Tasks
    BY <1>2 DEF DoReturns, DoThrows, Report
  <2>2. ASSUME NEW v \in Workers \ {w}, item[v] # NoTask
        PROVE  /\ at'[v] = at[v] /\ item'[v] = item[v]
               /\ outcome'[item[v]] = outcome[item[v]]
               /\ item[v] \in Exceptions' => item[v] \in Exceptions
    <3>1. item[v] # item[w] /\ item[v] \in Tasks
      BY <2>1, <2>2 DEF NoTaskIsHeldTwice
    <3>2. at'[v] = at[v] /\ item'[v] = item[v]
      BY <1>2 DEF DoReturns, DoThrows, Report
    <3>3. \/ outcome' = outcome
          \/ \E r : outcome' = [outcome EXCEPT ![item[w]] = r]
      BY <1>2 DEF DoReturns, DoThrows, Report
    <3>4. Exceptions' \subseteq Exceptions \cup {item[w]}
      BY <1>2 DEF DoReturns, DoThrows, Report
    <3> QED
      BY <3>1, <3>2, <3>3, <3>4
  <2>3. /\ at'[w] # "do"
        /\ at'[w] = "report" => /\ HasExceptions
                                /\ item'[w] = item[w]
                                /\ outcome'[item[w]] = "threw"
                                /\ item[w] \notin Exceptions'
    <3>1. HasExceptions /\ at[w] = "do" => item[w] \notin Exceptions
      BY DEF ExceptionsAreReported, Threw
    <3> QED
      BY <1>2, <2>1, <3>1 DEF DoReturns, DoThrows, Report
  <2>4. \A x : Taken(x)' <=> Taken(x)
    BY <1>2 DEF DoReturns, DoThrows, Report, Taken
  <2>5. ASSUME NEW v \in Workers \ {w}, at'[v] \in {"do", "report"}
        PROVE  at[v] = at'[v] /\ item[v] # NoTask
    BY <1>2, <2>5 DEF DoReturns, DoThrows, Report
  <2> QED
    BY <2>2, <2>3, <2>4, <2>5
<1> QED
  BY <1>1, <1>2, OtherStepsKeepTasks

LEMMA NextTakenTasksAreHandled ==
  ASSUME Inv, [Next]_vars
  PROVE  TakenTasksAreHandled'
<1> USE DEF Inv, TypeOK, TakenTasksAreHandled
<1>1. ASSUME NEW w \in Workers, TakeTask(w) PROVE TakenTasksAreHandled'
  <2>1. Queue!Take /\ Oldest \in Tasks
    BY <1>1, TakeFacts DEF TakeTask, Messages
  <2>2. /\ at[w] = "pop"
        /\ at' = [at EXCEPT ![w] = "do"]
        /\ item' = [item EXCEPT ![w] = Oldest]
        /\ outcome' = outcome
    BY <1>1 DEF TakeTask
  <2>3. \A x : Taken(x)' <=> Taken(x) \/ x = Oldest
    BY <2>1, TakeFacts
  <2> QED
    BY <2>1, <2>2, <2>3
<1>2. ASSUME NEW w \in Workers, DoReturns(w) \/ DoThrows(w) \/ Report(w)
      PROVE  TakenTasksAreHandled'
  <2>1. item[w] \in Tasks
    BY <1>2 DEF DoReturns, DoThrows, Report
  <2>2. \A x : Taken(x)' <=> Taken(x)
    BY <1>2 DEF DoReturns, DoThrows, Report, Taken
  <2>3. Taken(item[w])
    BY <1>2, <2>1
       DEF DoReturns, DoThrows, Report, HeldTasksAreUnfinished
  <2>4. outcome'[item[w]] # "none"
    BY <1>2, <2>1
       DEF DoReturns, DoThrows, Report, HeldTasksAreUnfinished
  <2>5. ASSUME NEW t \in Tasks, t # item[w] PROVE outcome'[t] = outcome[t]
    BY <1>2, <2>1, <2>5 DEF DoReturns, DoThrows, Report
  <2>6. \A v \in Workers \ {w} : at'[v] = at[v] /\ item'[v] = item[v]
    BY <1>2 DEF DoReturns, DoThrows, Report
  <2> QED
    BY <2>1, <2>2, <2>3, <2>4, <2>5, <2>6
<1>3. ASSUME NEW w \in Workers, at[w] = "pop",
             at' = [at EXCEPT ![w] = "exited"],
             UNCHANGED <<item, outcome>>,
             \A t \in Tasks : Taken(t)' <=> Taken(t)
      PROVE  TakenTasksAreHandled'
  BY <1>3
<1> QED
  BY <1>1, <1>2, <1>3, OtherStepsKeepTasks

LEMMA NextExceptionsAreReported ==
  ASSUME Inv, [Next]_vars
  PROVE  ExceptionsAreReported'
<1> SUFFICES ASSUME HasExceptions PROVE ExceptionsAreReported'
  BY DEF ExceptionsAreReported
<1> USE DEF Inv, TypeOK, ExceptionsAreReported, Threw
<1>1. ASSUME NEW w \in Workers, TakeTask(w) PROVE ExceptionsAreReported'
  BY <1>1 DEF TakeTask
<1>2. ASSUME NEW w \in Workers, DoReturns(w) PROVE ExceptionsAreReported'
  <2>1. item[w] \in Tasks /\ item[w] \notin Threw
    BY <1>2 DEF DoReturns, HeldTasksAreUnfinished
  <2>2. Threw' = Threw
    BY <1>2, <2>1 DEF DoReturns
  <2>3. Exceptions' = Exceptions
    BY <1>2 DEF DoReturns
  <2>4. \A v \in Workers :
          at[v] = "report" => at'[v] = "report" /\ item'[v] = item[v]
    BY <1>2 DEF DoReturns
  <2> HIDE DEF Threw
  <2> QED
    BY <2>2, <2>3, <2>4
<1>3. ASSUME NEW w \in Workers, DoThrows(w) PROVE ExceptionsAreReported'
  <2>1. item[w] \in Tasks
    BY <1>3 DEF DoThrows
  <2>2. Threw' = Threw \cup {item[w]}
    BY <1>3, <2>1 DEF DoThrows
  <2>3. Exceptions' = Exceptions /\ at'[w] = "report" /\ item' = item
    BY <1>3 DEF DoThrows
  <2>4. \A v \in Workers :
          at[v] = "report" => at'[v] = "report" /\ item'[v] = item[v]
    BY <1>3 DEF DoThrows
  <2> HIDE DEF Threw
  <2> QED
    BY <2>2, <2>3, <2>4
<1>4. ASSUME NEW w \in Workers, Report(w) PROVE ExceptionsAreReported'
  <2>1. item[w] \in Threw
    BY <1>4 DEF Report, HeldTasksAreUnfinished
  <2>2. Threw' = Threw
    BY <1>4 DEF Report
  <2>3. Exceptions' = Exceptions \cup {item[w]}
    BY <1>4 DEF Report
  <2>4. \A v \in Workers : at[v] = "report" /\ item[v] # item[w] =>
                             at'[v] = "report" /\ item'[v] = item[v]
    BY <1>4 DEF Report
  <2> HIDE DEF Threw
  <2> QED
    BY <2>1, <2>2, <2>3, <2>4
<1>5. ASSUME UNCHANGED <<item, outcome, Exceptions>>,
             \/ at' = at
             \/ \E w \in Workers : /\ at[w] = "pop"
                                  /\ at' = [at EXCEPT ![w] = "exited"]
      PROVE  ExceptionsAreReported'
  BY <1>5
<1> QED
  BY <1>1, <1>2, <1>3, <1>4, <1>5, OtherStepsKeepTasks

-----------------------------------------------------------------------------
(* Stopping.                                                               *)

\* What was popped stays popped.
LEMMA TakenIsStable ==
  ASSUME Inv, [Next]_vars, NEW x, Taken(x)
  PROVE  Taken(x)'
<1> USE DEF Inv
<1>1. CASE Queue!Take
  BY <1>1, TakeFacts
<1>2. ASSUME NEW y \in Messages, Queue!Put(y) PROVE Taken(x)'
  BY <1>2, PutFacts
<1>3. CASE UNCHANGED <<sent, received>>
  BY <1>3 DEF Taken
<1> QED
  BY <1>1, <1>2, <1>3
     DEF Next, vars, Work, Stop, Destroyed, TakeTask, TakeStop, DoReturns,
         DoThrows, Report, Add, BeginStop, BeginDestroy, PushStop,
         StopAllReturns, WaitAllReturns, Messages

LEMMA NextExitedMeansAStopWasTaken ==
  ASSUME Inv, [Next]_vars
  PROVE  ExitedMeansAStopWasTaken'
<1> USE DEF Inv, TypeOK, ExitedMeansAStopWasTaken
<1>1. ASSUME NEW w \in Workers,
             TakeTask(w) \/ DoReturns(w) \/ DoThrows(w) \/ Report(w)
      PROVE  \A v \in Workers : at'[v] = "exited" => at[v] = "exited"
  BY <1>1 DEF TakeTask, DoReturns, DoThrows, Report
<1> QED
  BY <1>1, OtherStepsKeepTasks, TakenIsStable

LEMMA NextStoppedMeansExited ==
  ASSUME Inv, [Next]_vars
  PROVE  StoppedMeansExited'
<1> USE DEF Inv, TypeOK, StoppedMeansExited
<1>1. \A w \in Workers : at[w] = "exited" => at'[w] = "exited"
  BY DEF Next, vars, Work, Stop, Destroyed, TakeTask, TakeStop, DoReturns,
         DoThrows, Report, Add, BeginStop, BeginDestroy, PushStop,
         StopAllReturns, WaitAllReturns, workerVars
<1>2. CASE WaitAllReturns
  BY <1>1, <1>2 DEF WaitAllReturns, Joined
<1>3. CASE ~WaitAllReturns
  <2>1. phase' \in {"stopped", "destroyed"} => phase' = phase
    BY <1>3
       DEF Next, vars, Work, Stop, Destroyed, TakeTask, TakeStop, DoReturns,
           DoThrows, Report, Add, BeginStop, BeginDestroy, PushStop,
           StopAllReturns, ownerVars
  <2> QED
    BY <1>1, <2>1
<1> QED
  BY <1>2, <1>3

-----------------------------------------------------------------------------
(* Counting the stop messages.                                             *)

LEMMA AliveCounts ==
  /\ IsFiniteSet(Alive)
  /\ Cardinality(Alive) \in Nat
  /\ Cardinality(Alive) <= StopsToPush
<1>1. Alive \subseteq Workers
  BY DEF Alive
<1> QED
  BY <1>1, FS_Subset, FS_CardinalityType DEF StopsToPush

LEMMA QueuedStopsCount ==
  ASSUME TypeOK
  PROVE  IsFiniteSet(QueuedStops) /\ Cardinality(QueuedStops) \in Nat
<1>1. Len(received) + 1 \in Int /\ Len(sent) \in Int
  BY DEF TypeOK
<1>2. IsFiniteSet(Len(received) + 1..Len(sent))
  BY <1>1, FS_Interval
<1>3. QueuedStops \subseteq Len(received) + 1..Len(sent)
  BY DEF QueuedStops
<1> QED
  BY <1>2, <1>3, FS_Subset, FS_CardinalityType

\* Popping a stop message costs the queue one message and the pool one
\* worker; popping a task costs neither.
LEMMA TakeStopCounts ==
  ASSUME Inv, NEW w \in Workers, TakeStop(w)
  PROVE  /\ Cardinality(Alive') = Cardinality(Alive) - 1
         /\ Cardinality(QueuedStops') = Cardinality(QueuedStops) - 1
<1>1. Alive' = Alive \ {w} /\ w \in Alive
  BY DEF Inv, TypeOK, TakeStop, Alive
<1>2. QueuedStops' = QueuedStops \ {Len(received) + 1}
  <2>1. sent' = sent /\ Len(received') = Len(received) + 1
    BY TakeFacts DEF Inv, TakeStop
  <2>2. Len(received) \in Nat /\ Len(sent) \in Nat
    BY DEF Inv, TypeOK
  <2>3. Len(received') + 1..Len(sent')
          = (Len(received) + 1..Len(sent)) \ {Len(received) + 1}
    BY <2>1, <2>2
  <2> QED
    BY <2>1, <2>3 DEF QueuedStops
<1>3. Len(received) + 1 \in QueuedStops
  <2>1. Len(received) \in Nat /\ Len(sent) \in Nat
    BY DEF Inv, TypeOK
  <2>2. Len(received) < Len(sent) /\ sent[Len(received) + 1] = StopMessage
    BY DEF TakeStop, Queue!Take, Oldest
  <2> QED
    BY <2>1, <2>2 DEF QueuedStops
<1> QED
  BY <1>1, <1>2, <1>3, AliveCounts, QueuedStopsCount, FS_RemoveElement DEF Inv

LEMMA TakeTaskCounts ==
  ASSUME Inv, NEW w \in Workers, TakeTask(w)
  PROVE  Alive' = Alive /\ QueuedStops' = QueuedStops
<1>1. Alive' = Alive
  BY DEF Inv, TypeOK, TakeTask, Alive
<1>2. QueuedStops' = QueuedStops
  <2>1. sent' = sent /\ Len(received') = Len(received) + 1
    BY TakeFacts DEF Inv, TakeTask
  <2>2. Len(received) \in Nat /\ Len(sent) \in Nat
    BY DEF Inv, TypeOK
  <2>3. Len(received') + 1..Len(sent')
          = (Len(received) + 1..Len(sent)) \ {Len(received) + 1}
    BY <2>1, <2>2
  <2>4. sent[Len(received) + 1] # StopMessage
    BY DEF TakeTask, Oldest
  <2> QED
    BY <2>1, <2>3, <2>4 DEF QueuedStops
<1> QED
  BY <1>1, <1>2

\* Pushing a stop message adds one to the queue.
LEMMA PushStopCounts ==
  ASSUME Inv, PushStop
  PROVE  /\ Alive' = Alive
         /\ Cardinality(QueuedStops') = Cardinality(QueuedStops) + 1
<1>1. Alive' = Alive
  BY DEF PushStop, workerVars, Alive
<1>2. /\ received' = received
      /\ Len(sent') = Len(sent) + 1
      /\ \A i \in 1..Len(sent) : sent'[i] = sent[i]
      /\ sent'[Len(sent) + 1] = StopMessage
  BY PutFacts DEF Inv, PushStop, Messages
<1>3. Len(received) \in Nat /\ Len(sent) \in Nat /\ Len(received) <= Len(sent)
  BY DEF Inv, TypeOK, TakenInOrder
<1>4. /\ Len(received') + 1..Len(sent')
           = (Len(received) + 1..Len(sent)) \cup {Len(sent) + 1}
      /\ Len(received) + 1..Len(sent) \subseteq 1..Len(sent)
      /\ Len(sent) + 1 \notin Len(received) + 1..Len(sent)
  BY <1>2, <1>3
<1>5. /\ QueuedStops' = QueuedStops \cup {Len(sent) + 1}
      /\ Len(sent) + 1 \notin QueuedStops
  BY <1>2, <1>4 DEF QueuedStops
<1> QED
  BY <1>1, <1>5, QueuedStopsCount, FS_AddElement DEF Inv

LEMMA NextEnoughStops ==
  ASSUME Inv, [Next]_vars
  PROVE  EnoughStops'
<1> DEFINE alive == Cardinality(Alive)
           queued == Cardinality(QueuedStops)
<1>0. /\ alive \in Nat /\ queued \in Nat /\ StopsToPush \in Nat
      /\ stopsPushed \in 0..StopsToPush
      /\ alive <= StopsToPush
  BY AliveCounts, QueuedStopsCount, StopsToPushType DEF Inv, TypeOK
<1>a. /\ phase # "stopAll" => stopsPushed = 0
      /\ phase = "stopAll" => alive <= queued + (StopsToPush - stopsPushed)
      /\ phase = "waitAll" => alive <= queued
  BY DEF Inv, EnoughStops, EveryWorkerHasAStop
<1> HIDE DEF alive, queued
<1> SUFFICES
      /\ phase' # "stopAll" => stopsPushed' = 0
      /\ phase' = "stopAll" => alive' <= queued' + (StopsToPush - stopsPushed')
      /\ phase' = "waitAll" => alive' <= queued'
  BY DEF EnoughStops, EveryWorkerHasAStop, alive, queued, StopsToPush
<1>1. ASSUME NEW w \in Workers, TakeStop(w)
      PROVE  /\ alive' = alive - 1 /\ queued' = queued - 1
             /\ UNCHANGED <<phase, stopsPushed>>
  BY <1>1, TakeStopCounts DEF TakeStop, ownerVars, alive, queued
<1>2. ASSUME NEW w \in Workers, TakeTask(w)
      PROVE  alive' = alive /\ queued' = queued
             /\ UNCHANGED <<phase, stopsPushed>>
  BY <1>2, TakeTaskCounts DEF TakeTask, ownerVars, alive, queued
<1>3. ASSUME NEW w \in Workers, DoReturns(w) \/ DoThrows(w) \/ Report(w)
      PROVE  alive' = alive /\ queued' = queued
             /\ UNCHANGED <<phase, stopsPushed>>
  <2>1. Alive' = Alive
    BY <1>3 DEF DoReturns, DoThrows, Report, Alive, Inv, TypeOK
  <2>2. UNCHANGED <<sent, received, phase, stopsPushed>>
    BY <1>3 DEF DoReturns, DoThrows, Report, ownerVars
  <2> QED
    BY <2>1, <2>2 DEF alive, queued, QueuedStops
<1>4. ASSUME NEW t \in Tasks, Add(t)
      PROVE  phase' = "running" /\ stopsPushed' = 0
  BY <1>4, <1>a DEF Add, ownerVars
<1>5. ASSUME PushStop
      PROVE  /\ alive' = alive /\ queued' = queued + 1
             /\ phase' = "stopAll" /\ phase = "stopAll"
             /\ stopsPushed' = stopsPushed + 1
  BY <1>5, PushStopCounts DEF PushStop, alive, queued
<1>6. ASSUME \/ BeginStop \/ BeginDestroy \/ StopAllReturns
             \/ WaitAllReturns \/ UNCHANGED vars
      PROVE  alive' = alive /\ queued' = queued
  BY <1>6 DEF BeginStop, BeginDestroy, StopAllReturns, WaitAllReturns, vars,
              workerVars, alive, queued, Alive, QueuedStops
<1>7. CASE BeginStop \/ BeginDestroy
  <2>1. phase # "stopAll" /\ phase' = "stopAll" /\ stopsPushed' = stopsPushed
    BY <1>7 DEF BeginStop, BeginDestroy
  <2> QED
    BY <1>0, <1>a, <1>6, <1>7, <2>1
<1>8. CASE StopAllReturns
  <2>1. /\ phase = "stopAll" /\ phase' = "waitAll"
        /\ stopsPushed = StopsToPush /\ stopsPushed' = 0
    BY <1>8 DEF StopAllReturns
  <2> QED
    BY <1>0, <1>a, <1>6, <1>8, <2>1
<1>9. CASE WaitAllReturns
  <2>1. /\ phase = "waitAll" /\ phase' \in {"stopped", "destroyed"}
        /\ stopsPushed' = stopsPushed
    BY <1>9 DEF WaitAllReturns
  <2> QED
    BY <1>a, <2>1
<1>10. CASE UNCHANGED vars
  BY <1>6, <1>10, <1>a DEF vars
<1>11. CASE \E w \in Workers : Work(w)
  BY <1>0, <1>1, <1>2, <1>3, <1>11, <1>a DEF Work
<1>12. CASE PushStop
  BY <1>0, <1>5, <1>12, <1>a
<1> QED
  BY <1>4, <1>7, <1>8, <1>9, <1>10, <1>11, <1>12 DEF Next, Stop, Destroyed

-----------------------------------------------------------------------------
(* The theorems.                                                           *)

LEMMA InitInv == Init => Inv
<1> SUFFICES ASSUME Init PROVE Inv
  OBVIOUS
<1> USE DEF Init, Queue!Init
<1>1. TypeOK
  <2>1. stopsPushed \in 0..StopsToPush
    BY StopsToPushType
  <2>2. destroying \in BOOLEAN
    OBVIOUS
  <2> QED
    BY <2>1, <2>2 DEF TypeOK
<1>2. TakenInOrder /\ TasksAreSentOnce /\ NoTaskBehindAStop
      /\ NoStopWhileRunning
  BY DEF TakenInOrder, TasksAreSentOnce, NoTaskBehindAStop, NoStopWhileRunning
<1>3. HeldTasksAreUnfinished /\ NoTaskIsHeldTwice /\ TakenTasksAreHandled
      /\ ExceptionsAreReported
  BY DEF HeldTasksAreUnfinished, NoTaskIsHeldTwice, TakenTasksAreHandled,
         ExceptionsAreReported, Threw, Taken
<1>4. ExitedMeansAStopWasTaken /\ StoppedMeansExited /\ EnoughStops
  BY DEF ExitedMeansAStopWasTaken, StoppedMeansExited, EnoughStops,
         EveryWorkerHasAStop
<1> QED
  BY <1>1, <1>2, <1>3, <1>4 DEF Inv

LEMMA NextInv == ASSUME Inv, [Next]_vars PROVE Inv'
<1>1. TypeOK' /\ TakenInOrder'
  BY NextTypeOK DEF Inv
<1> QED
  BY <1>1, NextTasksAreSentOnce, NextStopsComeLast,
     NextHeldTasksAreUnfinished, NextNoTaskIsHeldTwice,
     NextTakenTasksAreHandled, NextExceptionsAreReported,
     NextExitedMeansAStopWasTaken, NextStoppedMeansExited, NextEnoughStops
     DEF Inv

\* Types, the order of the messages, who holds which task, and the number of
\* stop messages: Inv is an invariant of the executer.
THEOREM Invariance == Spec => []Inv
<1>1. Inv /\ [Next]_vars => Inv'
  BY NextInv
<1> QED
  BY InitInv, <1>1, PTL DEF Spec

\* While the owner waits in WaitAll(), there is a stop message in the queue
\* for every worker that still runs.
THEOREM WorkersHaveTheirStops == Spec => []EveryWorkerHasAStop
<1>1. Inv => EveryWorkerHasAStop
  BY DEF Inv, EnoughStops
<1> QED
  BY <1>1, Invariance, PTL

\* When no worker is busy and the next message, or one before it, is a stop
\* message, every task that was added has ended, and its exception, if it
\* threw one, is in the caller's queue.
LEMMA NobodyBusyMeansDone ==
  ASSUME Inv, NEW i \in 1..Len(sent), sent[i] = StopMessage,
         i <= Len(received) + 1,
         \A w \in Workers : at[w] \in {"pop", "exited"}
  PROVE  /\ \A t \in Added : outcome[t] # "none"
         /\ HasExceptions => Exceptions = Threw
<1> USE DEF Inv, TypeOK
<1>1. ASSUME NEW t \in Added PROVE outcome[t] # "none"
  <2>1. PICK j \in 1..Len(sent) : sent[j] = t
    BY DEF Added
  <2>2. ~(i < j) /\ i # j
    BY <2>1 DEF NoTaskBehindAStop, Added
  <2>3. Len(received) \in Nat /\ Len(sent) \in Nat
    OBVIOUS
  <2>4. j \in 1..Len(received)
    BY <2>2, <2>3
  <2>5. Taken(t) /\ t \in Tasks
    BY <2>1, <2>4 DEF Taken, Added
  <2> QED
    BY <2>5 DEF TakenTasksAreHandled
<1>2. HasExceptions => Exceptions = Threw
  BY DEF ExceptionsAreReported
<1> QED
  BY <1>1, <1>2

LEMMA StoppedMeansDone == ASSUME Workers # {}, Inv PROVE StopMeansDone
<1> SUFFICES ASSUME phase \in {"stopped", "destroyed"}
             PROVE  /\ \A t \in Added : outcome[t] # "none"
                    /\ HasExceptions => Exceptions = Threw
  BY DEF StopMeansDone
<1>1. \A w \in Workers : at[w] = "exited"
  BY DEF Inv, StoppedMeansExited
<1>2. PICK i \in 1..Len(received) : sent[i] = StopMessage
  BY <1>1 DEF Inv, ExitedMeansAStopWasTaken, Taken
<1>3. Len(received) \in Nat /\ Len(sent) \in Nat /\ Len(received) <= Len(sent)
  BY DEF Inv, TypeOK, TakenInOrder
<1>4. i \in 1..Len(sent) /\ i <= Len(received) + 1
  BY <1>3
<1> QED
  BY <1>1, <1>2, <1>4, NobodyBusyMeansDone

\* What the programs rely on when they read the results after Stop(): nothing
\* that was added is still to be done, and no exception is still to come.
THEOREM StopIsABarrier ==
  ASSUME Workers # {}
  PROVE  Spec => []StopMeansDone
<1>1. Inv => StopMeansDone
  BY StoppedMeansDone
<1> QED
  BY <1>1, Invariance, PTL

-----------------------------------------------------------------------------
(* The executer implements the pool of TaskPool.                           *)

AllExited == \A w \in Workers : at[w] = "exited"

\* Only Add makes the pool larger.
LEMMA AddedSteps ==
  ASSUME Inv, [Next]_vars, \A t \in Tasks : ~Add(t)
  PROVE  Added' = Added
<1> USE DEF Inv, TypeOK
<1>1. CASE sent' = sent
  BY <1>1 DEF Added
<1>2. CASE PushStop
  <2>1. Queue!Put(StopMessage) /\ StopMessage \in Messages
    BY <1>2 DEF PushStop, Messages
  <2>2. ASSUME NEW t \in Tasks
        PROVE  (\E j \in DOMAIN sent' : sent'[j] = t)
                  <=> (\E j \in DOMAIN sent : sent[j] = t)
    <3>1. DOMAIN sent = 1..Len(sent) /\ DOMAIN sent' = 1..Len(sent')
      BY <2>1, PutFacts
    <3> QED
      BY <2>1, <3>1, PutFacts
  <2> QED
    BY <2>2 DEF Added
<1> QED
  BY <1>1, <1>2, SentSteps

LEMMA AddExtends ==
  ASSUME Inv, NEW t \in Tasks, Add(t)
  PROVE  Added' = Added \cup {t}
<1> USE DEF Inv, TypeOK
<1>1. Queue!Put(t) /\ t \in Messages
  BY DEF Add, Messages
<1>2. DOMAIN sent = 1..Len(sent) /\ DOMAIN sent' = 1..Len(sent')
  BY <1>1, PutFacts
<1>3. /\ 1..Len(sent') = (1..Len(sent)) \cup {Len(sent) + 1}
      /\ \A j \in 1..Len(sent) : sent'[j] = sent[j]
      /\ sent'[Len(sent) + 1] = t
  BY <1>1, PutFacts
<1>4. ASSUME NEW u \in Tasks
      PROVE  (\E j \in DOMAIN sent' : sent'[j] = u)
                <=> (\E j \in DOMAIN sent : sent[j] = u) \/ u = t
  BY <1>2, <1>3
<1> QED
  BY <1>4 DEF Added

\* Every task that is added is run once and by one worker, nothing is run that
\* was not added, and the pool closes on no unfinished task and no unreported
\* exception: every step of the owner and the workers is a step of TaskPool,
\* or none.
THEOREM ExecuterImplementsTaskPool ==
  ASSUME Workers # {}
  PROVE  Spec => ImplementsTaskPool
<1>1. Init => Pool!Init
  BY DEF Init, Queue!Init, Pool!Init, Added
<1>2. Inv /\ [Next]_vars => [Pool!Next]_(Pool!vars)
  <2> SUFFICES ASSUME Inv, [Next]_vars PROVE [Pool!Next]_(Pool!vars)
    OBVIOUS
  <2> USE DEF Inv, TypeOK
  <2>0. /\ Pool!Threw = Threw
        /\ Pool!vars = <<Added, outcome, Exceptions, AllExited>>
    BY DEF Pool!Threw, Threw, Pool!vars, AllExited
  <2>1. ASSUME NEW w \in Workers, TakeTask(w)
        PROVE  UNCHANGED <<Added, outcome, Exceptions>>
               /\ (AllExited' <=> AllExited)
    <3>1. Added' = Added
      BY <2>1, TakeFacts DEF TakeTask, Added
    <3> QED
      BY <2>1, <3>1 DEF TakeTask, AllExited
  <2>2. ASSUME NEW w \in Workers, TakeStop(w)
        PROVE  \/ Pool!Next
               \/ UNCHANGED <<Added, outcome, Exceptions>>
                  /\ (AllExited' <=> AllExited)
    <3>1. UNCHANGED <<Added, outcome, Exceptions>> /\ ~AllExited
      BY <2>2, TakeFacts DEF TakeStop, Added, AllExited
    <3>2. CASE AllExited'
      <4>1. \A v \in Workers : at[v] \in {"pop", "exited"}
        BY <2>2, <3>2 DEF TakeStop, AllExited
      <4>2. /\ Len(received) + 1 \in 1..Len(sent)
            /\ sent[Len(received) + 1] = StopMessage
        BY <2>2 DEF TakeStop, Queue!Take, Oldest
      <4>3. /\ \A t \in Added : outcome[t] # "none"
            /\ HasExceptions => Exceptions = Threw
        BY <4>1, <4>2, NobodyBusyMeansDone
      <4> QED
        BY <2>0, <3>1, <3>2, <4>3 DEF Pool!Next, Pool!Close, AllExited
    <3> QED
      BY <3>1, <3>2
  <2>3. ASSUME NEW w \in Workers, DoReturns(w) \/ DoThrows(w)
        PROVE  Pool!Next
    <3>1. item[w] \in Tasks
      BY <2>3 DEF DoReturns, DoThrows
    <3>2. item[w] \in Added /\ outcome[item[w]] = "none"
      <4>1. Taken(item[w]) /\ outcome[item[w]] = "none"
        BY <2>3 DEF DoReturns, DoThrows, HeldTasksAreUnfinished
      <4> QED
        BY <3>1, <4>1 DEF Taken, Added, TakenInOrder
    <3>3. ~AllExited /\ ~AllExited'
      BY <2>3 DEF DoReturns, DoThrows, AllExited
    <3>4. UNCHANGED <<Added, Exceptions>>
      BY <2>3 DEF DoReturns, DoThrows, Added
    <3>5. \E result \in {"returned", "threw"} :
            outcome' = [outcome EXCEPT ![item[w]] = result]
      BY <2>3 DEF DoReturns, DoThrows
    <3> QED
      BY <3>1, <3>2, <3>3, <3>4, <3>5 DEF Pool!Next, Pool!Run, AllExited
  <2>4. ASSUME NEW w \in Workers, Report(w) PROVE Pool!Next
    <3>1. item[w] \in Threw \ Exceptions /\ HasExceptions
      BY <2>4 DEF Report, HeldTasksAreUnfinished, Threw
    <3>2. ~AllExited /\ ~AllExited'
      BY <2>4 DEF Report, AllExited
    <3>3. UNCHANGED <<Added, outcome>> /\ Exceptions' = Exceptions \cup {item[w]}
      BY <2>4 DEF Report, Added
    <3>4. item[w] \in Tasks
      BY <3>1 DEF Threw
    <3> QED
      BY <2>0, <3>1, <3>2, <3>3, <3>4 DEF Pool!Next, Pool!Report, AllExited
  <2>5. ASSUME NEW t \in Tasks, Add(t) PROVE Pool!Next
    <3>1. Added' = Added \cup {t} /\ t \notin Added
      BY <2>5, AddExtends DEF Add
    <3>2. UNCHANGED <<outcome, Exceptions, at>>
      BY <2>5 DEF Add, workerVars
    <3>3. ~AllExited
      <4>1. ~Taken(StopMessage)
        BY <2>5 DEF Add, NoStopWhileRunning, Taken, TakenInOrder
      <4> QED
        BY <4>1 DEF ExitedMeansAStopWasTaken, AllExited
    <3> QED
      BY <3>1, <3>2, <3>3 DEF Pool!Next, Pool!Submit, AllExited
  <2>6. ASSUME \/ BeginStop \/ BeginDestroy \/ PushStop \/ StopAllReturns
               \/ WaitAllReturns \/ UNCHANGED vars
        PROVE  UNCHANGED <<Added, outcome, Exceptions>>
               /\ (AllExited' <=> AllExited)
    <3>1. UNCHANGED <<at, outcome, Exceptions>>
      BY <2>6 DEF BeginStop, BeginDestroy, PushStop, StopAllReturns,
                  WaitAllReturns, vars, workerVars
    <3>2. \A t \in Tasks : ~Add(t)
      BY <2>6 DEF BeginStop, BeginDestroy, PushStop, StopAllReturns,
                  WaitAllReturns, vars, Add, Queue!Put
    <3> QED
      BY <3>1, <3>2, AddedSteps DEF AllExited
  <2>7. ASSUME UNCHANGED <<Added, outcome, Exceptions>>,
               AllExited' <=> AllExited
        PROVE  UNCHANGED Pool!vars
    <3>1. AllExited' = AllExited
      BY <2>7 DEF AllExited
    <3> QED
      BY <2>0, <2>7, <3>1 DEF Pool!vars, AllExited
  <2>8. ASSUME NEW w \in Workers, Work(w) PROVE [Pool!Next]_(Pool!vars)
    BY <2>1, <2>2, <2>3, <2>4, <2>7, <2>8 DEF Work
  <2> QED
    BY <2>5, <2>6, <2>7, <2>8 DEF Next, Stop, Destroyed
<1> QED
  BY <1>1, <1>2, Invariance, PTL DEF Spec, ImplementsTaskPool, Pool!Spec

=============================================================================
