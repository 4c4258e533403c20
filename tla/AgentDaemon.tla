---------------------------- MODULE AgentDaemon ----------------------------
(***************************************************************************)
(* sy-agentd: sessions, their child agents, and the consent store.         *)
(*                                                                         *)
(* A session owns a child process that speaks JSON-RPC on its pipes.  The  *)
(* child's handle sits in one fair mutex.  A prompt task keeps that mutex  *)
(* while it waits for the answer to session/prompt; the inbound loop and   *)
(* agt.stop need it to write a line.  Permission requests of all sessions  *)
(* share the consent store, whose tokens `sy approve` resolves.            *)
(*                                                                         *)
(* A step is what a task does without awaiting.  The agent, the operator   *)
(* and time are the environment.  Texts, transcripts, notifications and    *)
(* the status that clients are shown are left out: nothing depends on them. *)
(***************************************************************************)
EXTENDS Naturals, Sequences, FiniteSets

CONSTANTS
    Sessions,     \* sessions that agt.run may start
    Extra,        \* later prompts, agt.prompt
    Stops,        \* calls of agt.stop
    Calls,        \* requests that agents send: permissions and others
    Approvals,    \* calls of agt.approve
    None

ASSUME NamesAreNew ==
    /\ None \notin Sessions \union Extra \union Stops \union Calls
    /\ None \notin {"allow", "deny", "refuse", "dropped", "exited", "ok", "err"}
    /\ {"closed", "exited"} \intersect Calls = {}

ASSUME KindsAreDisjoint ==
    /\ Sessions \intersect Extra = {}
    /\ (Sessions \union Extra) \intersect (Stops \union Calls) = {}
    /\ Stops \intersect Calls = {}

(* The first prompt of a session goes by the session's name. *)
Prompts == Sessions \union Extra
Tasks   == Prompts \union Stops \union Calls

(* What Profile says of a tool: exec_allowlist and require_consent. *)
Profiles == [allowlist: {"empty", "match", "miss"},
             consent: {"never", "once", "every"}]

VARIABLES
    run,        \* where start_session stands
    listed,     \* keys of the sessions map
    index,      \* ids in index.json
    home,       \* session of a prompt, stop or call
    child,      \* the child's mutex: a queue of tasks, the first holds it
    stdin,      \* lines written for the agent and not yet read
    writer,     \* the task that writes stdin
    prompt,     \* where a prompt stands
    reply,      \* what the agent answered to a prompt
    inbound,    \* queue from the reader task to the inbound loop
    loop,       \* the call the inbound loop is busy with
    call,       \* where a call stands
    decision,   \* what the daemon decided on a call
    store,      \* tokens in the ConsentStore, named by their calls
    expired,    \* tokens past their time to live
    waker,      \* what the oneshot of a token delivered
    approve,    \* where an approval stands, and on which token
    audit,      \* records in the audit log
    stop,       \* where a stop stands
    agent,      \* prompt the agent works on, "idle" or "gone"
    waiting     \* call whose answer the agent waits for

sessionVars == <<run, listed, index, home>>
childVars   == <<child, stdin, writer>>
promptVars  == <<prompt, reply>>
callVars    == <<inbound, loop, call, decision>>
consentVars == <<store, expired, waker, approve, audit>>
agentVars   == <<agent, waiting>>
vars == <<sessionVars, childVars, promptVars, callVars, consentVars, stop, agentVars>>

TypeOK ==
    /\ run \in [Sessions -> {"no", "handshake", "inserted", "indexed", "started", "failed"}]
    /\ listed \subseteq Sessions
    /\ index \subseteq Sessions
    /\ home \in [Tasks -> Sessions \union {None}]
    /\ child \in [Sessions -> Seq(Tasks)]
    /\ stdin \in [Sessions -> Seq(Tasks)]
    /\ writer \in [Sessions -> BOOLEAN]
    /\ prompt \in [Prompts -> {"no", "spawned", "queued", "sent", "done"}]
    /\ reply \in [Prompts -> {None, "ok", "err"}]
    /\ inbound \in [Sessions -> Seq(Calls \union {"closed"})]
    /\ loop \in [Sessions -> Calls \union {None, "exited"}]
    /\ call \in [Calls -> {"no", "asked", "notified", "parked", "decided", "queued", "answered"}]
    /\ decision \in [Calls -> {None, "allow", "deny", "refuse"}]
    /\ store \subseteq Calls
    /\ expired \subseteq Calls
    /\ waker \in [Calls -> {None, "allow", "dropped"}]
    /\ approve \in [Approvals -> [at: {"no", "looked", "decided", "done"},
                                  token: Calls \union {None},
                                  seen: BOOLEAN, ok: BOOLEAN]]
    /\ audit \subseteq (Calls \X {"allow", "deny", "consent", "parked", "approved"})
    /\ stop \in [Stops -> {"no", "queued", "cancelled", "removed", "done", "unknown"}]
    /\ agent \in [Sessions -> Prompts \union {"idle", "gone"}]
    /\ waiting \in [Sessions -> Calls \union {None}]

Init ==
    /\ run = [s \in Sessions |-> "no"]
    /\ listed = {} /\ index = {}
    /\ home = [t \in Tasks |-> None]
    /\ child = [s \in Sessions |-> << >>]
    /\ stdin = [s \in Sessions |-> << >>]
    /\ writer = [s \in Sessions |-> TRUE]
    /\ prompt = [p \in Prompts |-> "no"]
    /\ reply = [p \in Prompts |-> None]
    /\ inbound = [s \in Sessions |-> << >>]
    /\ loop = [s \in Sessions |-> "exited"]
    /\ call = [c \in Calls |-> "no"]
    /\ decision = [c \in Calls |-> None]
    /\ store = {} /\ expired = {}
    /\ waker = [c \in Calls |-> None]
    /\ approve = [a \in Approvals |-> [at |-> "no", token |-> None, seen |-> FALSE, ok |-> FALSE]]
    /\ audit = {}
    /\ stop = [k \in Stops |-> "no"]
    /\ agent = [s \in Sessions |-> "gone"]
    /\ waiting = [s \in Sessions |-> None]

-----------------------------------------------------------------------------
(* The child's mutex and the pipe to its stdin. *)

Enqueue(s, t) == child' = [child EXCEPT ![s] = Append(@, t)]
Holds(s, t)   == child[s] # << >> /\ Head(child[s]) = t
Release(s)    == child' = [child EXCEPT ![s] = Tail(@)]

(* AcpChild::send_line: a line is taken unless the writer task has left. *)
SendLine(s, t) == stdin' = IF writer[s] THEN [stdin EXCEPT ![s] = Append(@, t)] ELSE stdin

(* The writer meets the closed pipe of an agent that is gone, and leaves. *)
WriterFails(s) ==
    /\ agent[s] = "gone" /\ writer[s] /\ stdin[s] # << >>
    /\ writer' = [writer EXCEPT ![s] = FALSE]
    /\ stdin' = [stdin EXCEPT ![s] = << >>]
    /\ UNCHANGED <<sessionVars, child, promptVars, callVars, consentVars, stop, agentVars>>

-----------------------------------------------------------------------------
(* agt.run: spawn, initialize and session/new; then the session is         *)
(* inserted, the index written, and the two tasks of the session spawned.  *)

Spawn(s) ==
    /\ run[s] = "no"
    /\ run' = [run EXCEPT ![s] = "handshake"]
    /\ agent' = [agent EXCEPT ![s] = "idle"]
    /\ UNCHANGED <<listed, index, home, childVars, promptVars, callVars, consentVars,
                   stop, waiting>>

Insert(s) ==
    /\ run[s] = "handshake"
    /\ \/ /\ run' = [run EXCEPT ![s] = "inserted"]
          /\ listed' = listed \union {s}
       \/ /\ run' = [run EXCEPT ![s] = "failed"]
          /\ UNCHANGED listed
    /\ UNCHANGED <<index, home, childVars, promptVars, callVars, consentVars, stop, agentVars>>

(* Mutant: the file keeps what it had. *)
WriteIndexMerged == index' = index \union listed

(* write_index reads the keys and writes the file under the map's lock. *)
WriteIndex == index' = listed

IndexStarted(s) ==
    /\ run[s] = "inserted"
    /\ run' = [run EXCEPT ![s] = "indexed"]
    /\ WriteIndex
    /\ UNCHANGED <<listed, home, childVars, promptVars, callVars, consentVars, stop,
                   agentVars>>

(* Moving the inbound channel out of the child takes the mutex. *)
StartTasks(s) ==
    /\ run[s] = "indexed" /\ child[s] = << >>
    /\ run' = [run EXCEPT ![s] = "started"]
    /\ loop' = [loop EXCEPT ![s] = None]
    /\ home' = [home EXCEPT ![s] = s]
    /\ prompt' = [prompt EXCEPT ![s] = "spawned"]
    /\ UNCHANGED <<listed, index, childVars, reply, inbound, call, decision, consentVars, stop,
                   agentVars>>

-----------------------------------------------------------------------------
(* Prompts. *)

SendPrompt(p, s) ==
    /\ p \in Extra /\ prompt[p] = "no" /\ s \in listed
    /\ prompt' = [prompt EXCEPT ![p] = "spawned"]
    /\ home' = [home EXCEPT ![p] = s]
    /\ UNCHANGED <<run, listed, index, childVars, reply, callVars, consentVars, stop, agentVars>>

LockForPrompt(p) ==
    /\ prompt[p] = "spawned"
    /\ prompt' = [prompt EXCEPT ![p] = "queued"]
    /\ Enqueue(home[p], p)
    /\ UNCHANGED <<sessionVars, stdin, writer, reply, callVars, consentVars, stop, agentVars>>

(* Mutant: the guard outlives the prompt. *)
FinishHolding(p) ==
    /\ prompt' = [prompt EXCEPT ![p] = "done"]
    /\ UNCHANGED child

Finish(p) ==
    /\ prompt' = [prompt EXCEPT ![p] = "done"]
    /\ Release(home[p])

(* AcpChild::request, its first half: the mutex stays held. *)
Request(p) ==
    /\ prompt[p] = "queued" /\ Holds(home[p], p)
    /\ IF writer[home[p]]
       THEN /\ SendLine(home[p], p)
            /\ prompt' = [prompt EXCEPT ![p] = "sent"]
            /\ UNCHANGED child
       ELSE Finish(p) /\ UNCHANGED stdin
    /\ UNCHANGED <<sessionVars, writer, reply, callVars, consentVars, stop, agentVars>>

(* Its second half.  Nobody drops the pending sender of an agent that died. *)
Answered(p) ==
    /\ prompt[p] = "sent" /\ reply[p] # None
    /\ Finish(p)
    /\ UNCHANGED <<sessionVars, stdin, writer, reply, callVars, consentVars, stop, agentVars>>

-----------------------------------------------------------------------------
(* The inbound loop, one message at a time. *)

Takes(s, m) ==
    /\ loop[s] = None /\ inbound[s] # << >> /\ Head(inbound[s]) = m
    /\ inbound' = [inbound EXCEPT ![s] = Tail(@)]

LoopEnds(s) ==
    /\ Takes(s, "closed")
    /\ loop' = [loop EXCEPT ![s] = "exited"]
    /\ UNCHANGED <<sessionVars, childVars, promptVars, call, decision, consentVars, stop, agentVars>>

Decide(c, d) ==
    /\ call' = [call EXCEPT ![c] = "decided"]
    /\ decision' = [decision EXCEPT ![c] = d]

(* Any other request than session/request_permission. *)
Refuse(s, c) ==
    /\ Takes(s, c)
    /\ loop' = [loop EXCEPT ![s] = c]
    /\ Decide(c, "refuse")
    /\ UNCHANGED <<sessionVars, childVars, promptVars, consentVars, stop, agentVars>>

(* Resolver::decide. *)
Verdict(profile) ==
    IF profile.allowlist = "empty" THEN "deny"
    ELSE IF profile.allowlist = "match" /\ profile.consent # "every" THEN "allow"
    ELSE "consent"

(* ConsentStore::issue, which sweeps first: the senders of stale tokens    *)
(* are dropped.                                                            *)
Issue(c) ==
    /\ waker' = [d \in Calls |-> IF d \in store \intersect expired THEN "dropped" ELSE waker[d]]
    /\ store' = (store \ expired) \union {c}

(* ask: notify-send runs. *)
Ask(c) ==
    /\ call' = [call EXCEPT ![c] = "notified"]
    /\ UNCHANGED <<decision, store, waker>>

(* handle_permission up to the await of resolve_permission. *)
ResolvePermission(s, c) ==
    /\ Takes(s, c)
    /\ loop' = [loop EXCEPT ![s] = c]
    /\ \/ Ask(c) /\ UNCHANGED audit                               \* no policy tree
       \/ \E profile \in Profiles :
            LET v == Verdict(profile) IN
            \/ /\ v # "consent"
               /\ Decide(c, v)
               /\ audit' = audit \union {<<c, v>>}
               /\ UNCHANGED <<store, waker>>
            \/ /\ v = "consent" /\ profile.consent # "every"
               /\ Ask(c)
               /\ audit' = audit \union {<<c, v>>}
            \/ /\ v = "consent" /\ profile.consent = "every"
               /\ call' = [call EXCEPT ![c] = "parked"]
               /\ audit' = audit \union {<<c, "parked">>}
               /\ Issue(c)
               /\ UNCHANGED decision
    /\ UNCHANGED <<sessionVars, childVars, promptVars, expired, approve, stop, agentVars>>

(* ask: a button, the timeout, or no notify-send at all. *)
AskReturns(s) ==
    \E c \in Calls, d \in {"allow", "deny"} :
        /\ loop[s] = c /\ call[c] = "notified"
        /\ Decide(c, d)
        /\ UNCHANGED <<sessionVars, childVars, promptVars, inbound, loop, consentVars, stop,
                       agentVars>>

(* The oneshot of the token resolves. *)
ConsentArrives(s) ==
    \E c \in Calls :
        /\ loop[s] = c /\ call[c] = "parked" /\ waker[c] # None
        /\ Decide(c, IF waker[c] = "allow" THEN "allow" ELSE "deny")
        /\ UNCHANGED <<sessionVars, childVars, promptVars, inbound, loop, consentVars, stop,
                       agentVars>>

LockForAnswer(s) ==
    \E c \in Calls :
        /\ loop[s] = c /\ call[c] = "decided"
        /\ call' = [call EXCEPT ![c] = "queued"]
        /\ Enqueue(s, c)
        /\ UNCHANGED <<sessionVars, stdin, writer, promptVars, inbound, loop, decision,
                       consentVars, stop, agentVars>>

(* AcpChild::respond. *)
Respond(s) ==
    \E c \in Calls :
        /\ loop[s] = c /\ call[c] = "queued" /\ Holds(s, c)
        /\ SendLine(s, c)
        /\ Release(s)
        /\ call' = [call EXCEPT ![c] = "answered"]
        /\ loop' = [loop EXCEPT ![s] = None]
        /\ UNCHANGED <<run, listed, index, home, writer, promptVars, inbound, decision,
                       consentVars, stop, agentVars>>

-----------------------------------------------------------------------------
(* The consent store: agt.approve looks at the token, decides it, and      *)
(* writes the audit record.  Each of the three takes the lock by itself.   *)

Expire(c) ==
    /\ c \in store \ expired
    /\ expired' = expired \union {c}
    /\ UNCHANGED <<sessionVars, childVars, promptVars, callVars, store, waker, approve, audit,
                   stop, agentVars>>

(* ConsentStore::snapshot. *)
Snapshot(a, c) ==
    /\ approve[a].at = "no" /\ call[c] \notin {"no", "asked"}
    /\ approve' = [approve EXCEPT ![a] = [at |-> "looked", token |-> c, ok |-> FALSE,
                                          seen |-> c \in store \ expired]]
    /\ UNCHANGED <<sessionVars, childVars, promptVars, callVars, store, expired, waker, audit,
                   stop, agentVars>>

(* Mutant: the token's age is not looked at again. *)
DecideTokenUnchecked(a) ==
    /\ approve[a].at = "looked"
    /\ LET c == approve[a].token
           live == c \in store /\ approve[a].seen IN
       /\ approve' = [approve EXCEPT ![a].at = "decided", ![a].ok = live]
       /\ store' = store \ {c}
       /\ waker' = [waker EXCEPT ![c] = IF live THEN "allow" ELSE IF c \in store THEN "dropped" ELSE @]
    /\ UNCHANGED <<sessionVars, childVars, promptVars, callVars, expired, audit, stop, agentVars>>

(* Mutant: the token is looked up and stays in the store. *)
DecideTokenKept(a) ==
    /\ approve[a].at = "looked"
    /\ LET c == approve[a].token
           live == c \in store \ expired IN
       /\ approve' = [approve EXCEPT ![a].at = "decided", ![a].ok = live]
       /\ waker' = [waker EXCEPT ![c] = IF live THEN "allow" ELSE @]
    /\ UNCHANGED <<sessionVars, childVars, promptVars, callVars, store, expired, audit, stop, agentVars>>

(* ConsentStore::decide.  An expired entry is removed, and its sender with it. *)
DecideToken(a) ==
    /\ approve[a].at = "looked"
    /\ LET c == approve[a].token
           live == c \in store \ expired IN
       /\ approve' = [approve EXCEPT ![a] = [at |-> "decided", token |-> c, ok |-> live,
                                             seen |-> approve[a].seen]]
       /\ store' = store \ {c}
       /\ waker' = [waker EXCEPT ![c] = IF live THEN "allow" ELSE IF c \in store THEN "dropped" ELSE @]
    /\ UNCHANGED <<sessionVars, childVars, promptVars, callVars, expired, audit, stop, agentVars>>

(* Mutant: what was decided is looked at after the decision, and is gone. *)
AuditApprovalLate(a) ==
    /\ approve[a].at = "decided"
    /\ approve' = [approve EXCEPT ![a].at = "done"]
    /\ audit' = IF approve[a].ok /\ approve[a].token \in store
                THEN audit \union {<<approve[a].token, "approved">>} ELSE audit
    /\ UNCHANGED <<sessionVars, childVars, promptVars, callVars, store, expired, waker, stop,
                   agentVars>>

AuditApproval(a) ==
    /\ approve[a].at = "decided"
    /\ approve' = [approve EXCEPT ![a] = [at |-> "done", token |-> approve[a].token,
                                          ok |-> approve[a].ok, seen |-> approve[a].seen]]
    /\ audit' = IF approve[a].ok /\ approve[a].seen
                THEN audit \union {<<approve[a].token, "approved">>} ELSE audit
    /\ UNCHANGED <<sessionVars, childVars, promptVars, callVars, store, expired, waker, stop,
                   agentVars>>

-----------------------------------------------------------------------------
(* agt.stop: ask the agent to cancel, wait a little, close the session.    *)

StopCall(k, s) ==
    /\ stop[k] = "no" /\ run[s] # "no"
    /\ IF s \in listed
       THEN /\ stop' = [stop EXCEPT ![k] = "queued"]
            /\ home' = [home EXCEPT ![k] = s]
            /\ Enqueue(s, k)
       ELSE /\ stop' = [stop EXCEPT ![k] = "unknown"]
            /\ UNCHANGED <<home, child>>
    /\ UNCHANGED <<run, listed, index, stdin, writer, promptVars, callVars, consentVars,
                   agentVars>>

NotifyCancel(k) ==
    /\ stop[k] = "queued" /\ Holds(home[k], k)
    /\ SendLine(home[k], k)
    /\ Release(home[k])
    /\ stop' = [stop EXCEPT ![k] = "cancelled"]
    /\ UNCHANGED <<sessionVars, writer, promptVars, callVars, consentVars, agentVars>>

Unlist(k) ==
    /\ stop[k] = "cancelled"
    /\ stop' = [stop EXCEPT ![k] = "removed"]
    /\ listed' = listed \ {home[k]}
    /\ UNCHANGED <<run, index, home, childVars, promptVars, callVars, consentVars, agentVars>>

IndexStopped(k) ==
    /\ stop[k] = "removed"
    /\ stop' = [stop EXCEPT ![k] = "done"]
    /\ WriteIndex
    /\ UNCHANGED <<run, listed, home, childVars, promptVars, callVars, consentVars,
                   agentVars>>

-----------------------------------------------------------------------------
(* The agent, as the daemon's code uses it: one turn at a time, in which   *)
(* it may ask; a cancel ends the turn; it may die.                         *)

AgentReads(s) ==
    /\ agent[s] # "gone" /\ stdin[s] # << >>
    /\ stdin' = [stdin EXCEPT ![s] = Tail(@)]
    /\ LET t == Head(stdin[s]) IN
       \/ /\ t \in Prompts
          /\ agent' = [agent EXCEPT ![s] = t]
          /\ UNCHANGED <<reply, waiting>>
       \/ /\ t \in Calls
          /\ waiting' = [waiting EXCEPT ![s] = IF @ = t THEN None ELSE @]
          /\ UNCHANGED <<agent, reply>>
       \/ /\ t \in Stops
          /\ reply' = IF agent[s] \in Prompts
                      THEN [reply EXCEPT ![agent[s]] = "ok"] ELSE reply
          /\ agent' = [agent EXCEPT ![s] = "idle"]
          /\ waiting' = [waiting EXCEPT ![s] = None]
    /\ UNCHANGED <<sessionVars, child, writer, prompt, callVars, consentVars, stop>>

AgentAsks(s, c) ==
    /\ agent[s] \in Prompts /\ waiting[s] = None /\ call[c] = "no"
    /\ call' = [call EXCEPT ![c] = "asked"]
    /\ home' = [home EXCEPT ![c] = s]
    /\ inbound' = [inbound EXCEPT ![s] = Append(@, c)]
    /\ waiting' = [waiting EXCEPT ![s] = c]
    /\ UNCHANGED <<run, listed, index, childVars, promptVars, loop, decision, consentVars,
                   stop, agent>>

AgentFinishes(s, r) ==
    /\ agent[s] \in Prompts /\ waiting[s] = None
    /\ reply' = [reply EXCEPT ![agent[s]] = r]
    /\ agent' = [agent EXCEPT ![s] = "idle"]
    /\ UNCHANGED <<sessionVars, childVars, prompt, callVars, consentVars, stop, waiting>>

AgentDies(s) ==
    /\ run[s] = "started" /\ agent[s] # "gone"
    /\ agent' = [agent EXCEPT ![s] = "gone"]
    /\ waiting' = [waiting EXCEPT ![s] = None]
    /\ inbound' = [inbound EXCEPT ![s] = Append(@, "closed")]
    /\ UNCHANGED <<sessionVars, childVars, promptVars, loop, call, decision, consentVars, stop>>

-----------------------------------------------------------------------------
RunStep(s)     == Insert(s) \/ IndexStarted(s) \/ StartTasks(s)
PromptStep(p)  == LockForPrompt(p) \/ Request(p) \/ Answered(p)
LoopStep(s)    == LoopEnds(s) \/ (\E c \in Calls : Refuse(s, c) \/ ResolvePermission(s, c))
                  \/ AskReturns(s) \/ ConsentArrives(s)
                  \/ LockForAnswer(s) \/ Respond(s)
ApproveStep(a) == DecideToken(a) \/ AuditApproval(a)
StopStep(k)    == NotifyCancel(k) \/ Unlist(k) \/ IndexStopped(k)

Next ==
    \/ \E s \in Sessions :
        \/ Spawn(s) \/ RunStep(s) \/ LoopStep(s) \/ WriterFails(s)
        \/ AgentReads(s) \/ AgentDies(s)
        \/ \E p \in Extra : SendPrompt(p, s)
        \/ \E k \in Stops : StopCall(k, s)
        \/ \E c \in Calls : AgentAsks(s, c)
        \/ \E r \in {"ok", "err"} : AgentFinishes(s, r)
    \/ \E p \in Prompts : PromptStep(p)
    \/ \E c \in Calls : Expire(c)
    \/ \E a \in Approvals : ApproveStep(a) \/ \E c \in Calls : Snapshot(a, c)
    \/ \E k \in Stops : StopStep(k)

Spec == Init /\ [][Next]_vars

(* Tasks run, notify-send returns or times out.  An agent reads its pipe   *)
(* and ends a turn unless it waits for an answer.  Nobody has to approve,  *)
(* and nothing has to expire.                                              *)
Fairness ==
    /\ \A s \in Sessions :
        /\ WF_vars(RunStep(s)) /\ WF_vars(LoopStep(s)) /\ WF_vars(WriterFails(s))
        /\ WF_vars(AgentReads(s))
        /\ WF_vars(\E r \in {"ok", "err"} : AgentFinishes(s, r))
    /\ \A p \in Prompts : WF_vars(PromptStep(p))
    /\ \A a \in Approvals : WF_vars(ApproveStep(a))
    /\ \A k \in Stops : WF_vars(StopStep(k))

FairSpec == Spec /\ Fairness

-----------------------------------------------------------------------------
(* Properties. *)

(* Whoever was told that a token is approved has let its call through:     *)
(* the call is allowed or about to be, and no sweep, no expiry and no      *)
(* other approval turns that into a denial.  No two approvals of one token *)
(* both succeed.                                                           *)
OkMeansAllowed ==
    \A a, b \in Approvals : approve[a].ok =>
        /\ waker[approve[a].token] = "allow"
        /\ decision[approve[a].token] \in {None, "allow"}
        /\ approve[b].ok /\ approve[b].token = approve[a].token => a = b

(* A token past its time to live wakes no call with Allow, whatever was    *)
(* seen of it before it expired.                                           *)
ExpiredNeverAllows ==
    [][\A c \in Calls : waker[c] # "allow" /\ waker'[c] = "allow" => c \notin expired]_vars

\* Where a call stands with the gate: its permission is open as long as its
\* oneshot has delivered nothing.
GateStage(c) ==
    IF call[c] \in {"no", "asked"} THEN "new"
    ELSE IF call[c] = "notified" THEN "asking"
    ELSE IF call[c] # "parked" THEN "settled"
    ELSE IF waker[c] = None THEN "open"
    ELSE IF waker[c] = "allow" THEN "granted" ELSE "lapsed"

Gate == INSTANCE ConsentGate WITH
    stage <- [c \in Calls |-> GateStage(c)],
    late <- expired,
    verdict <- decision,
    granted <- [a \in Approvals |-> IF approve[a].ok THEN approve[a].token ELSE None]

(* The daemon, with its loops, oneshots, sweeps and three-step approvals,  *)
(* implements the gate: however they interleave, a call has one verdict,   *)
(* one approval at most let it through, in time, and a grant that was      *)
(* acknowledged is what the agent is told.                                 *)
ImplementsConsent == Gate!GateSpec

(* A call that a token let through has both records in the audit log when  *)
(* the approval is done: that it was parked, and who approved it.          *)
ApprovalIsAudited ==
    \A a \in Approvals : approve[a].ok /\ approve[a].at = "done" =>
        {<<approve[a].token, "parked">>, <<approve[a].token, "approved">>} \subseteq audit

(* index.json has the keys of the sessions map whenever no call is between *)
(* its change of the map and its write of the file.                        *)
IndexMatchesSessions ==
    (\A s \in Sessions : run[s] # "inserted") /\ (\A k \in Stops : stop[k] # "removed")
        => index = listed

(* While agents neither ask nor die, every prompt ends and every stop      *)
(* returns: the queue on the child's mutex moves on.                       *)
Undisturbed == \A s \in Sessions : waiting[s] = None /\ (run[s] = "started" => agent[s] # "gone")
Unsettled ==
    (\E p \in Prompts : prompt[p] \notin {"no", "done"})
        \/ (\E k \in Stops : stop[k] \notin {"no", "unknown", "done"})
PromptsAndStopsReturn ==
    [](Undisturbed) => (Unsettled ~> ~Unsettled)

(* permission.rs says that the agent never deadlocks on user input: what   *)
(* an agent asks is answered, or the agent has gone, unless the call waits *)
(* for an operator.                                                        *)
AskedIsAnswered ==
    \A c \in Calls : call[c] = "asked"
        ~> \/ call[c] \in {"answered", "parked"}
           \/ \E s \in Sessions : home[c] = s /\ agent[s] = "gone"
=============================================================================
