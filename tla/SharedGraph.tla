---------------------------- MODULE SharedGraph ----------------------------
(***************************************************************************)
(* The complete graph that the tasks of a program share, a TCompleteGraph: *)
(* its invariants are computed when they are first asked for, and kept in  *)
(* mutable fields where zero means "not computed".  No mutex guards the    *)
(* fields.  The number of acyclic orientations comes from the counter of   *)
(* OrientationCache, which the tasks also call for the graphs of their own *)
(* that contractions leave.                                                *)
(*                                                                         *)
(* graph_cases asks for all invariants of both graphs before it makes      *)
(* threads.  invariant_explorer does not; of its tasks the shared graph is *)
(* only asked for Pt, and nobody calls the counter.  Numbers stay below    *)
(* 2^32.                                                                   *)
(***************************************************************************)
EXTENDS OrientationCache

CONSTANTS
    Components,     \* the sizes of the parts of the shared graph, sorted
    Private,        \* bound of the model: the graphs that tasks have alone
    Value           \* its other invariants: I3, I4 and Pt

Acyclic == "Acyclic"
Invariants == DOMAIN Value \cup {Acyclic}
Truth(f) == IF f = Acyclic THEN Count[Components] ELSE Value[f]

ASSUME SharedGraphAssumption ==
    /\ Components \in Vectors
    /\ Private \subseteq Vectors
    /\ Leaves # {}
    /\ "Pt" \in DOMAIN Value
    /\ Acyclic \notin DOMAIN Value
    /\ \A f \in DOMAIN Value : Value[f] \in Nat

VARIABLES
    warm,           \* whether main has asked for everything before
    field,          \* I3Invariant_, I4Invariant_, PtInvariant_ and
                    \* AcyclicOrientations_
    task,           \* where each thread is in a call of the shared graph
    wanted,         \* the invariant it asked for last
    returned        \* what that call returned

graphVars == <<warm, field, task, wanted, returned>>
sharedVars == <<vars, graphVars>>

SharedInit ==
    /\ Init
    /\ warm = (DOMAIN Cache # {})
    /\ field = [f \in Invariants |-> IF warm THEN Truth(f) ELSE 0]
    /\ task = [t \in Threads |-> "none"]
    /\ wanted = [t \in Threads |-> Acyclic]
    /\ returned = [t \in Threads |-> Count[Components]]

\* I3Invariant and so on: the first look at the field.
Ask(t, f) ==
    /\ Free(t) /\ task[t] = "none"
    /\ warm \/ f = "Pt"
    /\ wanted' = [wanted EXCEPT ![t] = f]
    /\ IF field[f] # 0
         THEN task' = [task EXCEPT ![t] = "return"] /\ UNCHANGED vars
         ELSE /\ task' = [task EXCEPT ![t] = "compute"]
              /\ IF f = Acyclic THEN Call(t, Components) ELSE UNCHANGED vars
    /\ UNCHANGED <<warm, field, returned>>

Computed(t) == IF wanted[t] = Acyclic THEN answer[t] ELSE Value[wanted[t]]

AddToField(t) == field[wanted[t]] + Computed(t)             \* for a mutant
NewField(t) == Computed(t)

\* The assignment to the field ...
Store(t) ==
    /\ Free(t) /\ task[t] = "compute"
    /\ field' = [field EXCEPT ![wanted[t]] = NewField(t)]
    /\ task' = [task EXCEPT ![t] = "return"]
    /\ UNCHANGED <<vars, warm, wanted, returned>>

\* ... and the second look: a store of another thread may be in between.
Return(t) ==
    /\ Free(t) /\ task[t] = "return"
    /\ returned' = [returned EXCEPT ![t] = field[wanted[t]]]
    /\ task' = [task EXCEPT ![t] = "none"]
    /\ UNCHANGED <<vars, warm, field, wanted>>

\* A graph that only this thread has.
AskPrivate(t, v) ==
    /\ warm /\ task[t] = "none"
    /\ Call(t, v)
    /\ UNCHANGED graphVars

Work(t) ==
    \/ Proceed(t) /\ UNCHANGED graphVars
    \/ Store(t) \/ Return(t)

SharedNext ==
    \E t \in Threads :
        \/ Work(t)
        \/ \E f \in Invariants : Ask(t, f)
        \/ \E v \in Private : AskPrivate(t, v)

SharedSpec == SharedInit /\ [][SharedNext]_sharedVars

-----------------------------------------------------------------------------
(* Properties                                                              *)

\* What the shared graph answers is right: for I3, I4 and Pt because all threads
\* compute alike, and for the acyclic orientations because main has asked for
\* them before there were threads.
SharedAnswersAreRight ==
    \A t \in Threads :
        task[t] = "none" => returned[t] = Truth(wanted[t])

\* Threads that compute the same field at the same time do not spoil it: it is
\* still not computed, or it is the invariant.
FieldsAreRightOrZero ==
    \A f \in Invariants : field[f] \in {0, Truth(f)}

=============================================================================
