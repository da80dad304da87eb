----------------------- MODULE MultiThreadQueueProofs -----------------------
(***************************************************************************)
(* Proofs about MultiThreadQueue, for any finite sets of threads, any      *)
(* bound of the queue and any number of calls of Push.                     *)
(***************************************************************************)
EXTENDS MultiThreadQueue, FiniteSetTheorems, TLAPS

USE QueueAssumption

-----------------------------------------------------------------------------
(* Types.  TypeOK is inductive.                                            *)

LEMMA InitTypeOK == Init => TypeOK
  BY DEF Init, TypeOK, Items

LEMMA NextTypeOK == TypeOK /\ [Next]_vars => TypeOK'
<1> SUFFICES ASSUME TypeOK, [Next]_vars PROVE TypeOK'
  OBVIOUS
<1> USE DEF TypeOK
<1>1. ASSUME NEW t \in Threads, Wait(t) PROVE TypeOK'
  BY <1>1 DEF Wait
<1>2. ASSUME NEW t \in Threads, NEW W, Return(t, W)
      PROVE pc' \in [Threads -> {"idle", "waiting", "woken"}]
  BY <1>2 DEF Return
<1>3. ASSUME NEW p \in Producers, PushReturns(p) PROVE TypeOK'
  <2>1. p \in Threads
    BY DEF Threads
  <2>2. <<p, calls[p] + 1>> \in Items
    BY <1>3 DEF PushReturns, Items
  <2>3. /\ Storage' = Append(Storage, <<p, calls[p] + 1>>)
        /\ pushed' = Append(pushed, <<p, calls[p] + 1>>)
        /\ popped' = popped
    BY <1>3 DEF PushReturns
  <2>4. MaxSize # 0 => Len(Storage') <= MaxSize
    BY <1>3, <2>2, <2>3 DEF PushReturns, Full
  <2>5. calls' \in [Producers -> 0..MaxPushes]
    BY <1>3 DEF PushReturns
  <2>6. pc' \in [Threads -> {"idle", "waiting", "woken"}]
    BY <1>2, <1>3, <2>1 DEF PushReturns
  <2> QED
    BY <2>2, <2>3, <2>4, <2>5, <2>6 DEF Items
<1>4. ASSUME NEW t \in Consumers, PopReturns(t) PROVE TypeOK'
  <2>1. t \in Threads
    BY DEF Threads
  <2>2. /\ Storage # <<>>
        /\ Storage' = Tail(Storage)
        /\ popped' = Append(popped, Head(Storage))
        /\ UNCHANGED <<calls, pushed>>
    BY <1>4 DEF PopReturns, DoPop
  <2>3. /\ Tail(Storage) \in Seq(Items)
        /\ Len(Tail(Storage)) = Len(Storage) - 1
        /\ Head(Storage) \in Items
    BY <2>2
  <2>4. pc' \in [Threads -> {"idle", "waiting", "woken"}]
    BY <1>2, <1>4, <2>1 DEF PopReturns, DoPop
  <2> QED
    BY <2>2, <2>3, <2>4 DEF Items
<1>5. ASSUME NEW t \in Threads, Return(t, {}),
             UNCHANGED <<Storage, calls, pushed, popped>>
      PROVE TypeOK'
  BY <1>2, <1>5
<1>6. ASSUME NEW t \in Threads, SpuriousWakeup(t) PROVE TypeOK'
  BY <1>6 DEF SpuriousWakeup
<1>7. UNCHANGED vars => TypeOK'
  BY DEF vars
<1> QED
  BY <1>1, <1>3, <1>4, <1>5, <1>6, <1>7
     DEF Next, Push, Pop, WaitEmpty, PushBlocks, PopBlocks, WaitEmptyBlocks,
         PopTimesOut, WaitEmptyReturns, Threads, Consumers

\* The deque never holds more than MaxSize items, and every variable keeps its
\* type, however the threads that call Push, Pop and WaitEmpty interleave.
THEOREM TypeCorrect == Spec => []TypeOK
<1>1. TypeOK /\ [Next]_vars => TypeOK'
  BY NextTypeOK
<1> QED
  BY InitTypeOK, <1>1, PTL DEF Spec

-----------------------------------------------------------------------------
(* Sleeping and woken threads.                                             *)

\* The set of the woken threads of a role is finite and can be counted.
LEMMA WokenFinite ==
  ASSUME TypeOK, NEW S \in SUBSET Threads
  PROVE  IsFiniteSet(Woken(S)) /\ Cardinality(Woken(S)) \in Nat
<1>1. Woken(S) \subseteq Threads
  BY DEF Woken
<1> QED
  BY <1>1, FS_Subset, FS_CardinalityType

\* One more thread of a role is awake after notify_one on a variable that a
\* thread sleeps on.
LEMMA NotifiedOneIsWoken ==
  ASSUME TypeOK, NEW S \in SUBSET Threads, NEW t \in Threads \ S,
         Waiting(S) # {}, NEW W \in NotifyOne(Waiting(S)),
         NEW R, R \cap S = W, Return(t, R)
  PROVE  Cardinality(Woken(S)') = Cardinality(Woken(S)) + 1
<1> USE DEF TypeOK
<1>1. PICK w \in Waiting(S) : W = {w}
  BY DEF NotifyOne
<1>2. w \in S /\ w \notin Woken(S)
  BY <1>1 DEF Waiting, Woken
<1>3. Woken(S)' = Woken(S) \cup {w}
  BY <1>1, <1>2 DEF Woken, Return
<1> QED
  BY <1>2, <1>3, WokenFinite, FS_AddElement

\* A thread of a role that goes back to work leaves the other woken threads
\* of its role alone, when it notifies only other roles.
LEMMA ReturningTakesOneAway ==
  ASSUME TypeOK, NEW S \in SUBSET Threads, NEW t \in S,
         NEW W \in SUBSET (Threads \ S), Return(t, W)
  PROVE  /\ Cardinality(Woken(S)') \in Nat
         /\ Cardinality(Woken(S)') >= Cardinality(Woken(S)) - 1
<1> USE DEF TypeOK
<1>1. Woken(S)' = Woken(S) \ {t}
  BY DEF Woken, Return
<1>2. IsFiniteSet(Woken(S)) /\ Cardinality(Woken(S)) \in Nat
  BY WokenFinite
<1>3. Cardinality(Woken(S) \ {t}) =
        IF t \in Woken(S) THEN Cardinality(Woken(S)) - 1
                         ELSE Cardinality(Woken(S))
  BY <1>2, FS_RemoveElement
<1>4. Cardinality(Woken(S) \ {t}) \in Nat
  BY <1>2, FS_RemoveElement, FS_CardinalityType
<1> QED
  BY <1>1, <1>2, <1>3, <1>4

\* Nobody of a role is notified: those asleep and those awake stay so.
LEMMA OtherRolesReturn ==
  ASSUME TypeOK, NEW S \in SUBSET Threads, NEW t \in Threads \ S,
         NEW W \in SUBSET (Threads \ S), Return(t, W)
  PROVE  Waiting(S)' = Waiting(S) /\ Woken(S)' = Woken(S)
  BY DEF TypeOK, Waiting, Woken, Return

\* Falling asleep disturbs no other role.
LEMMA OtherRolesWait ==
  ASSUME TypeOK, NEW S \in SUBSET Threads, NEW t \in Threads \ S, Wait(t)
  PROVE  Waiting(S)' = Waiting(S) /\ Woken(S)' = Woken(S)
  BY DEF TypeOK, Waiting, Woken, Wait

\* A wakeup, spurious or not, makes no thread fall asleep and no woken thread
\* forget its wakeup.
LEMMA SpuriousIsHarmless ==
  ASSUME TypeOK, NEW S \in SUBSET Threads, NEW t \in Threads,
         SpuriousWakeup(t)
  PROVE  /\ Waiting(S)' \subseteq Waiting(S)
         /\ Cardinality(Woken(S)') \in Nat
         /\ Cardinality(Woken(S)') >= Cardinality(Woken(S))
<1> USE DEF TypeOK
<1>1. Waiting(S)' \subseteq Waiting(S) /\ Woken(S) \subseteq Woken(S)'
  BY DEF Waiting, Woken, SpuriousWakeup
<1>2. Woken(S)' \subseteq Threads
  BY DEF Woken
<1> QED
  BY <1>1, <1>2, FS_Subset, FS_CardinalityType

-----------------------------------------------------------------------------
(* WaitEmpty                                                               *)

\* The threads of one role are threads, and have no other role.
LEMMA Roles ==
  /\ Producers \subseteq Threads \ (Consumers \cup EmptyWaiters)
  /\ Consumers \subseteq Threads \ (Producers \cup EmptyWaiters)
  /\ EmptyWaiters \subseteq Threads \ (Producers \cup Consumers)
  BY DEF Threads

\* The producers that a Pop wakes, and the consumers that a Push wakes.
LEMMA WokenByPushAreConsumers ==
  \A W \in WokenByPush : W \subseteq Consumers
  BY DEF WokenByPush, NotifyOne, Waiting

LEMMA WokenByRoomAreProducers ==
  \A W \in WokenByRoom : W \subseteq Producers
  BY DEF WokenByRoom, NotifyOne, Waiting

LEMMA WokenByEmptyingAreWaiters == WokenByEmptying \subseteq EmptyWaiters
  BY DEF WokenByEmptying, Waiting

\* Nobody stays asleep in WaitEmpty() on an empty queue: the Pop that takes
\* the last item notifies all of them, before another thread gets the mutex.
THEOREM NoEmptinessIsSleptOn == Spec => []NoEmptinessSleptOn
<1>1. Init => NoEmptinessSleptOn
  BY DEF Init, NoEmptinessSleptOn, Waiting, Threads
<1>2. TypeOK /\ NoEmptinessSleptOn /\ [Next]_vars => NoEmptinessSleptOn'
  <2> SUFFICES ASSUME TypeOK, NoEmptinessSleptOn, [Next]_vars,
                      Waiting(EmptyWaiters)' # {}
               PROVE  Storage' # <<>>
    BY DEF NoEmptinessSleptOn
  <2> USE DEF TypeOK
  <2>1. ASSUME NEW p \in Producers, PushBlocks(p) PROVE Storage' # <<>>
    BY <2>1, Roles, OtherRolesWait DEF PushBlocks, Wait, NoEmptinessSleptOn
  <2>2. ASSUME NEW p \in Producers, PushReturns(p) PROVE Storage' # <<>>
    <3>1. <<p, calls[p] + 1>> \in Items
      BY <2>2 DEF PushReturns, Items
    <3> QED
      BY <2>2, <3>1 DEF PushReturns
  <2>3. ASSUME NEW t \in Consumers, PopBlocks(t) PROVE Storage' # <<>>
    BY <2>3, Roles, OtherRolesWait DEF PopBlocks, Wait, NoEmptinessSleptOn
  <2>4. ASSUME NEW t \in Consumers, PopReturns(t) PROVE Storage' # <<>>
    <3>1. Storage # <<>> /\ Storage' = Tail(Storage)
      BY <2>4 DEF PopReturns, DoPop
    <3>2. PICK W \in WokenByRoom : Return(t, WokenByEmptying \cup W)
      BY <2>4 DEF PopReturns, DoPop
    <3>3. CASE Len(Storage) = 1
      <4>1. WokenByEmptying = Waiting(EmptyWaiters)
        BY <3>3 DEF WokenByEmptying
      <4>2. Waiting(EmptyWaiters)' = {}
        BY <3>2, <4>1, Roles DEF Waiting, Return
      <4> QED
        BY <4>2
    <3>4. CASE Len(Storage) # 1
      <4>1. Len(Storage) \in Nat \ {0} /\ Len(Storage') = Len(Storage) - 1
        BY <3>1
      <4>2. Len(Storage') # 0
        BY <3>4, <4>1
      <4> QED
        BY <4>2
    <3> QED
      BY <3>3, <3>4
  <2>5. ASSUME NEW t \in TimedPoppers, PopTimesOut(t) PROVE Storage' # <<>>
    <3>1. t \in Consumers
      BY DEF Consumers
    <3> QED
      BY <2>5, <3>1, Roles, OtherRolesReturn
         DEF PopTimesOut, NoEmptinessSleptOn
  <2>6. ASSUME NEW t \in EmptyWaiters, WaitEmptyBlocks(t)
        PROVE Storage' # <<>>
    BY <2>6 DEF WaitEmptyBlocks, Wait
  <2>7. ASSUME NEW t \in EmptyWaiters, WaitEmptyReturns(t)
        PROVE Storage' # <<>>
    <3>1. Waiting(EmptyWaiters)' \subseteq Waiting(EmptyWaiters)
      BY <2>7, Roles DEF WaitEmptyReturns, Return, Waiting
    <3> QED
      BY <2>7, <3>1 DEF WaitEmptyReturns, NoEmptinessSleptOn
  <2>8. ASSUME NEW t \in Threads, SpuriousWakeup(t) PROVE Storage' # <<>>
    BY <2>8, Roles, SpuriousIsHarmless DEF SpuriousWakeup, NoEmptinessSleptOn
  <2>9. UNCHANGED vars => Storage' # <<>>
    BY DEF vars, Waiting, NoEmptinessSleptOn
  <2> QED
    BY <2>1, <2>2, <2>3, <2>4, <2>5, <2>6, <2>7, <2>8, <2>9
       DEF Next, Push, Pop, WaitEmpty
<1> QED
  BY <1>1, <1>2, TypeCorrect, PTL DEF Spec

-----------------------------------------------------------------------------
(* Pop                                                                     *)

\* No wakeup of a Pop() is lost when no thread uses the Pop with a timeout:
\* while a thread sleeps in Pop(), every item of the deque has a woken thread
\* on its way to it.
THEOREM NoItemIsSleptOn ==
  ASSUME TimedPoppers = {}
  PROVE  Spec => []NoItemSleptOn
<1>1. Init => NoItemSleptOn
  BY DEF Init, NoItemSleptOn, Waiting, Threads
<1>2. TypeOK /\ NoItemSleptOn /\ [Next]_vars => NoItemSleptOn'
  <2> DEFINE awake == Cardinality(Woken(Consumers))
  <2> SUFFICES ASSUME TypeOK, NoItemSleptOn, [Next]_vars,
                      Waiting(Consumers)' # {}
               PROVE  Len(Storage') <= awake'
    BY DEF NoItemSleptOn
  <2> USE DEF TypeOK
  <2>0. Len(Storage) \in Nat /\ awake \in Nat
    BY Roles, WokenFinite
  <2> HIDE DEF awake
  <2>a. ASSUME Storage' = Storage,
               Waiting(Consumers)' \subseteq Waiting(Consumers),
               awake' \in Nat, awake' >= awake
        PROVE  Len(Storage') <= awake'
    BY <2>0, <2>a DEF NoItemSleptOn, awake
  <2>1. ASSUME NEW p \in Producers, PushBlocks(p)
        PROVE  Len(Storage') <= awake'
    <3>1. Storage' = Storage /\ Wait(p)
      BY <2>1 DEF PushBlocks, Wait
    <3>2. p \in Threads \ Consumers /\ Consumers \in SUBSET Threads
      BY Roles
    <3>3. /\ Waiting(Consumers)' = Waiting(Consumers)
          /\ Woken(Consumers)' = Woken(Consumers)
      BY <3>1, <3>2, OtherRolesWait
    <3> QED
      BY <2>0, <2>a, <3>1, <3>3 DEF awake
  <2>2. ASSUME NEW p \in Producers, PushReturns(p)
        PROVE  Len(Storage') <= awake'
    <3>1. <<p, calls[p] + 1>> \in Items
      BY <2>2 DEF PushReturns, Items
    <3>2. Len(Storage') = Len(Storage) + 1
      BY <2>2, <3>1 DEF PushReturns
    <3>3. PICK W \in WokenByPush : Return(p, W)
      BY <2>2 DEF PushReturns
    <3>4. Waiting(Consumers) # {}
      BY <3>3, Roles, WokenByPushAreConsumers DEF Waiting, Return
    <3>5. awake' = awake + 1
      <4>1. p \in Threads \ Consumers /\ Consumers \in SUBSET Threads
        BY Roles
      <4>2. W \in NotifyOne(Waiting(Consumers)) /\ W \cap Consumers = W
        BY WokenByPushAreConsumers DEF WokenByPush
      <4> QED
        BY <3>3, <3>4, <4>1, <4>2, NotifiedOneIsWoken DEF awake
    <3> QED
      BY <2>0, <3>2, <3>4, <3>5 DEF NoItemSleptOn, awake
  <2>3. ASSUME NEW t \in Consumers, PopBlocks(t)
        PROVE  Len(Storage') <= awake'
    <3>1. Len(Storage') = 0
      BY <2>3 DEF PopBlocks, Wait
    <3>2. TypeOK'
      BY NextTypeOK
    <3>3. awake' \in Nat
      <4>1. IsFiniteSet(Threads) /\ Woken(Consumers)' \subseteq Threads
        BY Roles DEF Woken
      <4> QED
        BY <4>1, FS_Subset, FS_CardinalityType DEF awake
    <3> QED
      BY <3>1, <3>3
  <2>4. ASSUME NEW t \in Consumers, PopReturns(t)
        PROVE  Len(Storage') <= awake'
    <3>1. Storage # <<>> /\ Storage' = Tail(Storage)
      BY <2>4 DEF PopReturns, DoPop
    <3>2. Len(Storage) # 0 /\ Len(Storage') = Len(Storage) - 1
      BY <3>1
    <3>3. PICK W \in WokenByRoom : Return(t, WokenByEmptying \cup W)
      BY <2>4 DEF PopReturns, DoPop
    <3>4. WokenByEmptying \cup W \in SUBSET (Threads \ Consumers)
      BY Roles, WokenByRoomAreProducers, WokenByEmptyingAreWaiters
    <3>5. Waiting(Consumers) # {}
      BY <3>3, <3>4, Roles DEF Waiting, Return
    <3>6. awake' >= awake - 1 /\ awake' \in Nat
      BY <3>3, <3>4, Roles, ReturningTakesOneAway DEF awake
    <3> QED
      BY <2>0, <3>2, <3>5, <3>6 DEF NoItemSleptOn, awake
  <2>5. ASSUME NEW t \in EmptyWaiters, WaitEmptyBlocks(t)
        PROVE  Len(Storage') <= awake'
    <3>1. Storage' = Storage /\ Wait(t)
      BY <2>5 DEF WaitEmptyBlocks, Wait
    <3>2. t \in Threads \ Consumers /\ Consumers \in SUBSET Threads
      BY Roles
    <3>3. /\ Waiting(Consumers)' = Waiting(Consumers)
          /\ Woken(Consumers)' = Woken(Consumers)
      BY <3>1, <3>2, OtherRolesWait
    <3> QED
      BY <2>0, <2>a, <3>1, <3>3 DEF awake
  <2>6. ASSUME NEW t \in EmptyWaiters, WaitEmptyReturns(t)
        PROVE  Len(Storage') <= awake'
    BY <2>0, <2>6, <2>a, Roles, OtherRolesReturn DEF WaitEmptyReturns, awake
  <2>7. ASSUME NEW t \in Threads, SpuriousWakeup(t)
        PROVE  Len(Storage') <= awake'
    BY <2>0, <2>7, <2>a, Roles, SpuriousIsHarmless DEF SpuriousWakeup, awake
  <2>8. UNCHANGED vars => Len(Storage') <= awake'
    BY <2>0, <2>a DEF vars, Waiting, Woken, awake
  <2> QED
    BY <2>1, <2>2, <2>3, <2>4, <2>5, <2>6, <2>7, <2>8
       DEF Next, Push, Pop, WaitEmpty
<1> QED
  BY <1>1, <1>2, TypeCorrect, PTL DEF Spec

-----------------------------------------------------------------------------
(* Push                                                                    *)

\* No wakeup of a Push() on a bounded queue is lost: while a producer sleeps,
\* every free slot has a woken producer on its way to it, however many
\* producers push out of turn.
THEOREM NoRoomIsSleptOn == Spec => []NoRoomSleptOn
<1>1. Init => NoRoomSleptOn
  BY DEF Init, NoRoomSleptOn, Waiting, Threads
<1>2. TypeOK /\ NoRoomSleptOn /\ [Next]_vars => NoRoomSleptOn'
  <2> DEFINE awake == Cardinality(Woken(Producers))
  <2> SUFFICES ASSUME TypeOK, NoRoomSleptOn, [Next]_vars,
                      Waiting(Producers)' # {}
               PROVE  MaxSize <= Len(Storage') + awake'
    BY DEF NoRoomSleptOn
  <2> USE DEF TypeOK
  <2>0. Len(Storage) \in Nat /\ awake \in Nat
    BY Roles, WokenFinite
  <2> HIDE DEF awake
  <2>a. ASSUME Storage' = Storage,
               Waiting(Producers)' \subseteq Waiting(Producers),
               awake' \in Nat, awake' >= awake
        PROVE  MaxSize <= Len(Storage') + awake'
    BY <2>0, <2>a DEF NoRoomSleptOn, awake
  <2>b. ASSUME NEW t \in Consumers \cup EmptyWaiters, Wait(t)
        PROVE  MaxSize <= Len(Storage') + awake'
    <3>1. t \in Threads \ Producers /\ Producers \in SUBSET Threads
      BY Roles
    <3>2. /\ Waiting(Producers)' = Waiting(Producers)
          /\ Woken(Producers)' = Woken(Producers)
      BY <2>b, <3>1, OtherRolesWait
    <3> QED
      BY <2>0, <2>a, <2>b, <3>2 DEF awake, Wait
  <2>c. ASSUME NEW t \in Consumers \cup EmptyWaiters, Return(t, {}),
               Storage' = Storage
        PROVE  MaxSize <= Len(Storage') + awake'
    <3>1. t \in Threads \ Producers /\ Producers \in SUBSET Threads
      BY Roles
    <3>2. /\ Waiting(Producers)' = Waiting(Producers)
          /\ Woken(Producers)' = Woken(Producers)
      BY <2>c, <3>1, OtherRolesReturn
    <3> QED
      BY <2>0, <2>a, <2>c, <3>2 DEF awake
  <2>1. ASSUME NEW p \in Producers, PushBlocks(p)
        PROVE  MaxSize <= Len(Storage') + awake'
    <3>1. MaxSize <= Len(Storage')
      BY <2>1 DEF PushBlocks, Full, Wait
    <3>2. IsFiniteSet(Threads) /\ Woken(Producers)' \subseteq Threads
      BY Roles DEF Woken
    <3>3. awake' \in Nat
      BY <3>2, FS_Subset, FS_CardinalityType DEF awake
    <3>4. Len(Storage') \in Nat
      BY <2>1 DEF PushBlocks, Wait
    <3> QED
      BY <3>1, <3>3, <3>4
  <2>2. ASSUME NEW p \in Producers, PushReturns(p)
        PROVE  MaxSize <= Len(Storage') + awake'
    <3>1. <<p, calls[p] + 1>> \in Items
      BY <2>2 DEF PushReturns, Items
    <3>2. Len(Storage') = Len(Storage) + 1
      BY <2>2, <3>1 DEF PushReturns
    <3>3. PICK W \in WokenByPush : Return(p, W)
      BY <2>2 DEF PushReturns
    <3>4. W \in SUBSET (Threads \ Producers)
      BY Roles, WokenByPushAreConsumers
    <3>5. Waiting(Producers) # {}
      BY <3>3, <3>4, Roles DEF Waiting, Return
    <3>6. awake' >= awake - 1 /\ awake' \in Nat
      BY <3>3, <3>4, Roles, ReturningTakesOneAway DEF awake
    <3> QED
      BY <2>0, <3>2, <3>5, <3>6 DEF NoRoomSleptOn, awake
  <2>3. ASSUME NEW t \in Consumers, PopReturns(t)
        PROVE  MaxSize <= Len(Storage') + awake'
    <3>1. Storage # <<>> /\ Storage' = Tail(Storage)
      BY <2>3 DEF PopReturns, DoPop
    <3>2. Len(Storage) \in Nat \ {0} /\ Len(Storage') = Len(Storage) - 1
      BY <3>1
    <3>3. PICK W \in WokenByRoom : Return(t, WokenByEmptying \cup W)
      BY <2>3 DEF PopReturns, DoPop
    <3>4. t \in Threads \ Producers /\ Producers \in SUBSET Threads
      BY Roles
    <3>5. (WokenByEmptying \cup W) \cap Producers = W
      BY Roles, WokenByRoomAreProducers, WokenByEmptyingAreWaiters
    <3>6. Waiting(Producers) # {}
      BY <3>3, <3>4, Roles DEF Waiting, Return
    <3>7. CASE MaxSize = 0
      <4>1. IsFiniteSet(Threads) /\ Woken(Producers)' \subseteq Threads
        BY Roles DEF Woken
      <4>2. awake' \in Nat
        BY <4>1, FS_Subset, FS_CardinalityType DEF awake
      <4> QED
        BY <3>2, <3>7, <4>2
    <3>8. CASE MaxSize # 0
      <4>1. W \in NotifyOne(Waiting(Producers))
        BY <3>2, <3>8 DEF WokenByRoom
      <4>2. awake' = awake + 1
        BY <3>3, <3>4, <3>5, <3>6, <4>1, NotifiedOneIsWoken DEF awake
      <4> QED
        BY <2>0, <3>2, <3>6, <4>2 DEF NoRoomSleptOn, awake
    <3> QED
      BY <3>7, <3>8
  <2>4. ASSUME NEW t \in Threads, SpuriousWakeup(t)
        PROVE  MaxSize <= Len(Storage') + awake'
    BY <2>0, <2>4, <2>a, Roles, SpuriousIsHarmless DEF SpuriousWakeup, awake
  <2>5. UNCHANGED vars => MaxSize <= Len(Storage') + awake'
    BY <2>0, <2>a DEF vars, Waiting, Woken, awake
  <2> QED
    BY <2>1, <2>2, <2>3, <2>4, <2>5, <2>b, <2>c
       DEF Next, Push, Pop, WaitEmpty, PopBlocks, PopTimesOut,
           WaitEmptyBlocks, WaitEmptyReturns, Consumers
<1> QED
  BY <1>1, <1>2, TypeCorrect, PTL DEF Spec

-----------------------------------------------------------------------------
(* The queue implements the channel of BoundedFifo.                        *)

\* What was pushed is what was popped followed by what is in the deque.
DequeIsTheRest ==
    /\ Len(pushed) = Len(popped) + Len(Storage)
    /\ \A i \in 1..Len(Storage) : Storage[i] = pushed[Len(popped) + i]

LEMMA DequeIsTheRestInvariant == Spec => []DequeIsTheRest
<1>1. Init => DequeIsTheRest
  BY DEF Init, DequeIsTheRest
<1>2. TypeOK /\ DequeIsTheRest /\ [Next]_vars => DequeIsTheRest'
  <2> SUFFICES ASSUME TypeOK, DequeIsTheRest, [Next]_vars
               PROVE  DequeIsTheRest'
    OBVIOUS
  <2> USE DEF TypeOK
  <2>1. UNCHANGED <<Storage, pushed, popped>> => DequeIsTheRest'
    BY DEF DequeIsTheRest
  <2>2. ASSUME NEW p \in Producers, PushReturns(p) PROVE DequeIsTheRest'
    <3> DEFINE item == <<p, calls[p] + 1>>
    <3>1. item \in Items
      BY <2>2 DEF PushReturns, Items
    <3>2. /\ Storage' = Append(Storage, item)
          /\ pushed' = Append(pushed, item)
          /\ popped' = popped
      BY <2>2 DEF PushReturns
    <3> HIDE DEF item
    <3>3. /\ Len(Storage') = Len(Storage) + 1
          /\ Len(pushed') = Len(pushed) + 1
          /\ Len(pushed') = Len(popped') + Len(Storage')
      <4>1. /\ Len(pushed) = Len(popped) + Len(Storage)
            /\ Len(Storage) \in Nat /\ Len(popped) \in Nat
        BY DEF DequeIsTheRest
      <4>2. /\ Len(Storage') = Len(Storage) + 1
            /\ Len(pushed') = Len(pushed) + 1
        BY <3>1, <3>2
      <4> QED
        BY <3>2, <4>1, <4>2
    <3>4. ASSUME NEW i \in 1..Len(Storage')
          PROVE  Storage'[i] = pushed'[Len(popped') + i]
      <4>1. CASE i = Len(Storage')
        BY <3>1, <3>2, <3>3, <4>1 DEF DequeIsTheRest
      <4>2. CASE i \in 1..Len(Storage)
        <5>1. /\ Len(popped) + i \in 1..Len(pushed)
              /\ Storage[i] = pushed[Len(popped) + i]
          BY <4>2 DEF DequeIsTheRest
        <5>2. /\ Storage'[i] = Storage[i]
              /\ pushed'[Len(popped) + i] = pushed[Len(popped) + i]
          BY <3>1, <3>2, <4>2, <5>1
        <5> QED
          BY <3>2, <5>1, <5>2
      <4> QED
        BY <3>3, <4>1, <4>2
    <3> QED
      BY <3>3, <3>4 DEF DequeIsTheRest
  <2>3. ASSUME NEW t \in Consumers, PopReturns(t) PROVE DequeIsTheRest'
    <3>1. /\ Storage # <<>>
          /\ Storage' = Tail(Storage)
          /\ popped' = Append(popped, Head(Storage))
          /\ pushed' = pushed
      BY <2>3 DEF PopReturns, DoPop
    <3>2. /\ Len(Storage') = Len(Storage) - 1
          /\ \A i \in 1..Len(Storage') : Storage'[i] = Storage[i + 1]
          /\ Len(popped') = Len(popped) + 1
      BY <3>1
    <3>3. ASSUME NEW i \in 1..Len(Storage')
          PROVE  Storage'[i] = pushed'[Len(popped') + i]
      <4>1. i + 1 \in 1..Len(Storage)
        BY <3>1, <3>2
      <4>2. Storage[i + 1] = pushed[Len(popped) + (i + 1)]
        BY <4>1 DEF DequeIsTheRest
      <4>3. Len(popped) + (i + 1) = Len(popped') + i
        BY <3>2
      <4> QED
        BY <3>1, <3>2, <4>2, <4>3
    <3>4. Len(pushed') = Len(popped') + Len(Storage')
      <4>1. Len(pushed) = Len(popped) + Len(Storage)
        BY DEF DequeIsTheRest
      <4>2. Len(Storage) \in Nat /\ Len(popped) \in Nat
        OBVIOUS
      <4> QED
        BY <3>1, <3>2, <4>1, <4>2
    <3> QED
      BY <3>3, <3>4 DEF DequeIsTheRest
  <2> QED
    BY <2>1, <2>2, <2>3
       DEF vars, Next, Push, Pop, WaitEmpty, PushBlocks, PopBlocks, Wait,
           PopTimesOut, WaitEmptyBlocks, WaitEmptyReturns, SpuriousWakeup
<1> QED
  BY <1>1, <1>2, TypeCorrect, PTL DEF Spec

\* Pushed items come out once, in the order of the Push calls, and at most
\* MaxSize of them are in the queue: every step of every thread is a step of
\* the channel of BoundedFifo, or none.
THEOREM QueueImplementsFifo == Spec => ImplementsFifo
<1>1. Init => Fifo!Init
  BY DEF Init, Fifo!Init
<1>2. TypeOK /\ DequeIsTheRest /\ [Next]_vars => [Fifo!Next]_(Fifo!vars)
  <2> SUFFICES ASSUME TypeOK, DequeIsTheRest, [Next]_vars
               PROVE  [Fifo!Next]_(Fifo!vars)
    OBVIOUS
  <2> USE DEF TypeOK
  <2>1. UNCHANGED <<pushed, popped>> => UNCHANGED Fifo!vars
    BY DEF Fifo!vars
  <2>2. ASSUME NEW p \in Producers, PushReturns(p) PROVE Fifo!Next
    <3>1. <<p, calls[p] + 1>> \in Items
      BY <2>2 DEF PushReturns, Items
    <3>2. MaxSize = 0 \/ Len(pushed) - Len(popped) < MaxSize
      BY <2>2 DEF PushReturns, Full, DequeIsTheRest
    <3>3. Fifo!Put(<<p, calls[p] + 1>>)
      BY <2>2, <3>2 DEF PushReturns, Fifo!Put, Fifo!InTransit
    <3> QED
      BY <3>1, <3>3 DEF Fifo!Next
  <2>3. ASSUME NEW t \in Consumers, PopReturns(t) PROVE Fifo!Next
    <3>1. /\ Storage # <<>>
          /\ popped' = Append(popped, Head(Storage))
          /\ pushed' = pushed
      BY <2>3 DEF PopReturns, DoPop
    <3>2. Len(popped) < Len(pushed) /\ Head(Storage) = pushed[Len(popped) + 1]
      BY <3>1 DEF DequeIsTheRest
    <3> QED
      BY <3>1, <3>2 DEF Fifo!Next, Fifo!Take
  <2> QED
    BY <2>1, <2>2, <2>3
       DEF vars, Next, Push, Pop, WaitEmpty, PushBlocks, PopBlocks, Wait,
           PopTimesOut, WaitEmptyBlocks, WaitEmptyReturns, SpuriousWakeup
<1> QED
  BY <1>1, <1>2, TypeCorrect, DequeIsTheRestInvariant, PTL
     DEF Spec, ImplementsFifo, Fifo!Spec

=============================================================================
