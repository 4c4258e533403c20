-------------------------- MODULE MCAgentSessions --------------------------
(* The sessions with their consent store, and the tails that read a        *)
(* session, instantiated for TLC side by side: an initial state chooses    *)
(* one of them, and it runs alone.                                         *)
EXTENDS MCAgentDaemon, AgentTail

VARIABLE component

Active(name) == component = name

SessionsInit == component \in {"sessions", "tails"} /\ Init /\ TailInit

SessionsNext ==
    \/ Active("sessions") /\ MCNext /\ UNCHANGED <<component, tailVars>>
    \/ Active("tails") /\ TailNext /\ UNCHANGED <<component, vars>>

\* What Fairness and TailFairness speak of is disabled in an initial state, so
\* they ask nothing of the component that does not run.
SessionsSpec ==
    /\ SessionsInit /\ [][SessionsNext]_<<component, vars, tailVars>>
    /\ Fairness /\ TailFairness
=============================================================================
