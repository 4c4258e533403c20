--------------------------- MODULE MCAgentDaemon ---------------------------
(* AgentDaemon on a bounded workload: one session with everything, two     *)
(* whose agents ask and an operator who approves once, or two of which one *)
(* is stopped.  Only the environment's calls are bounded, on which there   *)
(* is no fairness.                                                         *)
EXTENDS AgentDaemon

OneSession == \A s \in Sessions : run[s] # "no" => s = CHOOSE t \in Sessions : TRUE
OneApproval ==
    /\ \A p \in Extra : prompt[p] = "no"
    /\ \A k \in Stops : stop[k] = "no"
    /\ \A a, b \in Approvals : approve[a].at # "no" /\ approve[b].at # "no" => a = b
OneStop ==
    /\ \A p \in Extra : prompt[p] = "no"
    /\ \A c \in Calls : call[c] = "no"

MCNext == Next /\ (OneSession \/ OneApproval \/ OneStop)'
MCSpec == Init /\ [][MCNext]_vars
MCFairSpec == MCSpec /\ Fairness
=============================================================================
