------------------------------ MODULE TaskPool ------------------------------
(***************************************************************************)
(* What IExecuter (lib/executer/executer.h) promises to its callers: every *)
(* task that was added is run exactly once, and when the pool is closed    *)
(* all of them have ended and every exception has been reported.  There is *)
(* no queue and there are no threads here; Executer implements this.       *)
(***************************************************************************)
EXTENDS FiniteSets

CONSTANTS
    Tasks,
    KeepsExceptions     \* whether somebody collects the exceptions

VARIABLES
    submitted,  \* the tasks that were added
    outcome,    \* "none", "returned" or "threw", for each task
    reported,   \* the tasks whose exceptions were collected
    closed      \* no task will ever be run again

vars == <<submitted, outcome, reported, closed>>

Threw == {t \in Tasks : outcome[t] = "threw"}

Init ==
    /\ submitted = {}
    /\ outcome = [t \in Tasks |-> "none"]
    /\ reported = {}
    /\ closed = FALSE

Submit(t) ==
    /\ ~closed
    /\ t \notin submitted
    /\ submitted' = submitted \cup {t}
    /\ UNCHANGED <<outcome, reported, closed>>

\* Only a submitted task is run, and only once.
Run(t) ==
    /\ t \in submitted
    /\ outcome[t] = "none"
    /\ \E result \in {"returned", "threw"} :
          outcome' = [outcome EXCEPT ![t] = result]
    /\ UNCHANGED <<submitted, reported, closed>>

Report(t) ==
    /\ KeepsExceptions
    /\ t \in Threw \ reported
    /\ reported' = reported \cup {t}
    /\ UNCHANGED <<submitted, outcome, closed>>

Close ==
    /\ \A t \in submitted : outcome[t] # "none"
    /\ KeepsExceptions => reported = Threw
    /\ closed' = TRUE
    /\ UNCHANGED <<submitted, outcome, reported>>

Next ==
    \/ \E t \in Tasks : Submit(t) \/ Run(t) \/ Report(t)
    \/ Close

Spec == Init /\ [][Next]_vars

=============================================================================
