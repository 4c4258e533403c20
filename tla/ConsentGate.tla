---------------------------- MODULE ConsentGate -----------------------------
(***************************************************************************)
(* What the agent daemon promises about permission, with no session, task, *)
(* oneshot or lock: each call gets one verdict.  It is ruled on by policy  *)
(* or by the user who is asked on the spot, or it is opened for approval.  *)
(* An open call is granted by one approval, and only within its time to    *)
(* live; past it the call lapses.  What was granted is allowed, what has   *)
(* lapsed is denied, and neither turns into the other.                     *)
(***************************************************************************)
CONSTANTS Calls, Approvals, None

VARIABLES
    stage,     \* stage[c]: "new", "asking", "open", "granted", "lapsed", "settled"
    late,      \* open calls past their time to live
    verdict,   \* verdict[c]: what the agent is told
    granted    \* granted[a]: the call that an approval has let through

gateVars == <<stage, late, verdict, granted>>

GateInit ==
    /\ stage = [c \in Calls |-> "new"]
    /\ late = {}
    /\ verdict = [c \in Calls |-> None]
    /\ granted = [a \in Approvals |-> None]

Settle(c, v) ==
    /\ stage' = [stage EXCEPT ![c] = "settled"]
    /\ verdict' = [verdict EXCEPT ![c] = v]
    /\ UNCHANGED <<late, granted>>

Rule(c) ==
    /\ stage[c] \in {"new", "asking"}
    /\ \E v \in {"allow", "deny", "refuse"} : Settle(c, v)

Consult(c) ==
    /\ stage[c] = "new"
    /\ stage' = [stage EXCEPT ![c] = "asking"]
    /\ UNCHANGED <<late, verdict, granted>>

\* Late calls may lapse on the occasion.
OpenFor(c) ==
    /\ stage[c] = "new"
    /\ \E S \in SUBSET {d \in late : stage[d] = "open"} :
          stage' = [d \in Calls |-> IF d = c THEN "open"
                                    ELSE IF d \in S THEN "lapsed" ELSE stage[d]]
    /\ UNCHANGED <<late, verdict, granted>>

Age(c) ==
    /\ stage[c] = "open" /\ c \notin late
    /\ late' = late \union {c}
    /\ UNCHANGED <<stage, verdict, granted>>

Grant(a, c) ==
    /\ stage[c] = "open" /\ c \notin late /\ granted[a] = None
    /\ stage' = [stage EXCEPT ![c] = "granted"]
    /\ granted' = [granted EXCEPT ![a] = c]
    /\ UNCHANGED <<late, verdict>>

Lapse(c) ==
    /\ stage[c] = "open" /\ c \in late
    /\ stage' = [stage EXCEPT ![c] = "lapsed"]
    /\ UNCHANGED <<late, verdict, granted>>

Conclude(c) ==
    \/ stage[c] = "granted" /\ Settle(c, "allow")
    \/ stage[c] = "lapsed" /\ Settle(c, "deny")

GateNext ==
    \E c \in Calls :
        \/ Rule(c) \/ Consult(c) \/ OpenFor(c) \/ Age(c) \/ Lapse(c) \/ Conclude(c)
        \/ \E a \in Approvals : Grant(a, c)

GateSpec == GateInit /\ [][GateNext]_gateVars
=============================================================================
