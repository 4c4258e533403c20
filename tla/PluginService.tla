---------------------------- MODULE PluginService ---------------------------
(***************************************************************************)
(* What the supervisor of a plugin promises its callers, with no channel,  *)
(* table, ping or ladder: calls that are executed at most once, by one     *)
(* process after another.  A request is given to at most one process, once *)
(* and only to one that runs; when it is over, whoever still waits for it  *)
(* is told; and no more processes than Limit are ever started, each after  *)
(* the one before it has stopped.                                          *)
(***************************************************************************)
EXTENDS Naturals

CONSTANTS Requested, Limit

VARIABLES
    caller,    \* caller[r]: "idle", "waiting", "answered", "abandoned"
    phase,     \* phase[r]: "new", "queued", "given", "over"
    process,   \* processes started so far
    up         \* whether the last one runs

rpcVars == <<caller, phase, process, up>>

RpcInit ==
    /\ caller = [r \in Requested |-> "idle"]
    /\ phase = [r \in Requested |-> "new"]
    /\ process = 1
    /\ up = TRUE

\* The call is queued, or turned away since there is no process any more.
Call(r) ==
    /\ caller[r] = "idle" /\ phase[r] = "new"
    /\ \/ /\ caller' = [caller EXCEPT ![r] = "waiting"]
          /\ phase' = [phase EXCEPT ![r] = "queued"]
       \/ /\ caller' = [caller EXCEPT ![r] = "answered"]
          /\ phase' = [phase EXCEPT ![r] = "over"]
    /\ UNCHANGED <<process, up>>

\* The caller goes, the request stays.
Forsake(r) ==
    /\ caller[r] = "waiting"
    /\ caller' = [caller EXCEPT ![r] = "abandoned"]
    /\ UNCHANGED <<phase, process, up>>

Hand(r) ==
    /\ phase[r] = "queued" /\ up
    /\ phase' = [phase EXCEPT ![r] = "given"]
    /\ UNCHANGED <<caller, process, up>>

\* Requests are answered or given up, and the process may stop with them.
Finish(S) ==
    /\ \A r \in S : phase[r] \in {"queued", "given"}
    /\ phase' = [r \in Requested |-> IF r \in S THEN "over" ELSE phase[r]]
    /\ caller' = [r \in Requested |-> IF r \in S /\ caller[r] = "waiting" THEN "answered"
                                      ELSE caller[r]]
    /\ up' \in {up, FALSE}
    /\ UNCHANGED process

Start ==
    /\ ~up /\ process < Limit
    /\ process' = process + 1
    /\ up' = TRUE
    /\ UNCHANGED <<caller, phase>>

RpcNext ==
    \/ \E r \in Requested : Call(r) \/ Forsake(r) \/ Hand(r)
    \/ \E S \in SUBSET Requested : Finish(S)
    \/ Start

RpcSpec == RpcInit /\ [][RpcNext]_rpcVars
=============================================================================
