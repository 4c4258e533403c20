--------------------------- MODULE MCAiplaneLive ----------------------------
(* The scheduler and the worker supervisor, which share no state,           *)
(* instantiated for TLC side by side: an initial state chooses one of them, *)
(* and it runs alone.                                                       *)
EXTENDS MCAiplaneScheduler, WorkerSupervisor

VARIABLE component

Active(name) == component = name

LiveInit == component \in {"scheduler", "supervisor"} /\ Init /\ SupInit

LiveNext ==
    \/ Active("scheduler") /\ Next /\ UNCHANGED <<component, supVars>>
    \/ Active("supervisor") /\ SupNext /\ UNCHANGED <<component, vars>>

\* Fairness and SupFairness, each for the component that runs.
LiveSpec ==
    /\ LiveInit /\ [][LiveNext]_<<component, vars, supVars>>
    /\ WF_vars(Active("scheduler") /\ Dispatch)
    /\ WF_vars(Active("scheduler") /\ Watchdog)
    /\ \A r \in Requests : /\ WF_vars(Active("scheduler") /\ Unblock(r))
                           /\ WF_vars(Active("scheduler") /\ Elapse(r))
    /\ \A c \in Calls : WF_supVars(Active("supervisor") /\ CallStep(c))
    /\ \A x \in Cancels : WF_supVars(Active("supervisor") /\ CancelStep(x))
    /\ WF_supVars(Active("supervisor") /\ PollerStep)
    /\ WF_supVars(Active("supervisor") /\ BackoffElapses)
    /\ WF_supVars(Active("supervisor") /\ StopStep)
    /\ \A p \in Procs : WF_supVars(Active("supervisor") /\ (Bind(p) \/ Exit(p)))
=============================================================================
