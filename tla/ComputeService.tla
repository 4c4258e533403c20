--------------------------- MODULE ComputeService ---------------------------
(***************************************************************************)
(* What the AI plane promises its callers, with no queue, class or thread: *)
(* one accelerator that serves one request at a time.  A request is        *)
(* submitted once, runs at most once and is answered once; only a run ends *)
(* with a result, and a request answered without a run never runs.         *)
(***************************************************************************)
CONSTANTS Submitted, Results, Refusals

VARIABLES
    stage,   \* stage[r]: "new", "pending", "running", "answered"
    answer   \* answer[r]: what the caller got

serviceVars == <<stage, answer>>

ServiceInit ==
    /\ stage = [r \in Submitted |-> "new"]
    /\ answer = [r \in Submitted |-> "none"]

Submit(r) ==
    /\ stage[r] = "new"
    /\ stage' = [stage EXCEPT ![r] = "pending"]
    /\ UNCHANGED answer

Run(r) ==
    /\ stage[r] = "pending"
    /\ \A q \in Submitted : stage[q] # "running"
    /\ stage' = [stage EXCEPT ![r] = "running"]
    /\ UNCHANGED answer

Complete(r) ==
    /\ stage[r] = "running"
    /\ stage' = [stage EXCEPT ![r] = "answered"]
    /\ \E result \in Results : answer' = [answer EXCEPT ![r] = result]

\* Requests that are not answered yet are given up together, with the same
\* refusal: a panic and a shutdown drop whole channels.
GiveUp(S) ==
    /\ \A r \in S : stage[r] # "answered"
    /\ stage' = [r \in Submitted |-> IF r \in S THEN "answered" ELSE stage[r]]
    /\ \E refusal \in Refusals :
          answer' = [r \in Submitted |-> IF r \in S THEN refusal ELSE answer[r]]

ServiceNext ==
    \/ \E r \in Submitted : Submit(r) \/ Run(r) \/ Complete(r)
    \/ \E S \in SUBSET Submitted : GiveUp(S)

ServiceSpec == ServiceInit /\ [][ServiceNext]_serviceVars
=============================================================================
