--------------------------- MODULE AiplaneBridge ----------------------------
(***************************************************************************)
(* The IPC bridge in front of the scheduler                                *)
(* (crates/sy-aiplane/src/aiplane/ipc.rs): the handlers of aiplane.run,    *)
(* aiplane.batch and aiplane.cancel, which share one single-threaded       *)
(* runtime, and the daemon's own threads that admit through                *)
(* admit_blocking_batch.  A handler runs without interruption from one     *)
(* await to the next, so each such stretch is one step; the scheduler's    *)
(* threads interleave with it.  A send into a full Background or Batch     *)
(* channel parks the runtime's only thread.                                *)
(***************************************************************************)
EXTENDS AiplaneScheduler

CONSTANTS
    Classes   \* bound: the priorities that callers ask for

ASSUME ClassesAssumption == Classes \subseteq Priorities

VARIABLES
    task,     \* task[r]: "none", "sleeping", "parked", "waiting", "replied"
    reply,    \* reply[r]: the code of the response sent to the client
    mapped,   \* requests whose CancelGuard is live (cancel_registry)
    kinds,    \* requests with an entry in inflight_kinds
    runtime,  \* "free", "parked" in a send, or "cancelling" in the supervisor
    acked     \* requests whose aiplane.cancel was answered cancelled: true

bridgeVars == <<task, reply, mapped, kinds, runtime, acked>>
allVars == <<vars, bridgeVars>>

\* r has not been made yet, over IPC or by a thread of the daemon.
Fresh(r) == task[r] = "none" /\ place[r] = "idle"

BridgeInit ==
    /\ Init
    /\ task = [r \in Requests |-> "none"]
    /\ reply = [r \in Requests |-> "none"]
    /\ mapped = {}
    /\ kinds = {}
    /\ runtime = "free"
    /\ acked = {}

-----------------------------------------------------------------------------
(* Handlers of aiplane.run and aiplane.batch. *)

\* Mutant: the InflightKindGuard is not dropped.
ReturnKeepsKind(r, code) ==
    /\ task' = [task EXCEPT ![r] = "replied"]
    /\ reply' = [reply EXCEPT ![r] = code]
    /\ mapped' = mapped \ {r}
    /\ runtime' = "free"
    /\ UNCHANGED kinds

\* A handler's return: the reply goes out, the guards are dropped.
Return(r, code) ==
    /\ task' = [task EXCEPT ![r] = "replied"]
    /\ reply' = [reply EXCEPT ![r] = code]
    /\ mapped' = mapped \ {r}
    /\ kinds' = kinds \ {r}
    /\ runtime' = "free"

\* Mutant: a failed run is reported as a success.
ReplyCodesOk(resp) ==
    CASE resp \in {"Ok", "Failed"} -> {"Ok"}
      [] resp \in {"Cancelled", "Overloaded"} -> {resp}
      [] resp \in {"Gone", "Dropped"} -> {"Internal"}

\* aiplane_error_to_v1, the oneshot whose sender was dropped, and a backend
\* that answers a run with no output at all.
ReplyCodes(resp) ==
    CASE resp = "Ok" -> {"Ok", "Internal"}
      [] resp \in {"Cancelled", "Overloaded"} -> {resp}
      [] resp \in {"Failed", "Gone", "Dropped"} -> {"Internal"}

Report(r, resp) == \E code \in ReplyCodes(resp) : Return(r, code)

\* What follows a call of admit, with both guards held: wait for the answer,
\* park in the send, or return.
AfterAdmit(r) ==
    \/ /\ place'[r] # "done"
       /\ task' = [task EXCEPT ![r] = IF place'[r] = "queued"
                                      THEN "waiting" ELSE "parked"]
       /\ runtime' = IF place'[r] = "queued" THEN "free" ELSE "parked"
       /\ mapped' = mapped \union {r}
       /\ kinds' = kinds \union {r}
       /\ UNCHANGED reply
    \/ place'[r] = "done" /\ Report(r, response'[r])

\* The request arrives: malformed parameters are refused before anything is
\* registered.
RefuseRun(r) ==
    /\ runtime = "free" /\ Fresh(r)
    /\ Return(r, "BadRequest")
    /\ UNCHANGED <<vars, acked>>

\* The request arrives with sleep_ms: register both guards, then sleep.
ReceiveSleeping(r) ==
    /\ runtime = "free" /\ Fresh(r)
    /\ task' = [task EXCEPT ![r] = "sleeping"]
    /\ mapped' = mapped \union {r}
    /\ kinds' = kinds \union {r}
    /\ UNCHANGED <<vars, reply, runtime, acked>>

\* The request arrives without sleep_ms: register and admit in one stretch.
ReceiveRun(r, c) ==
    /\ runtime = "free" /\ Fresh(r)
    /\ Admit(r, c)
    /\ AfterAdmit(r)
    /\ UNCHANGED acked

\* The sleep ends, or the token wakes it first; the biased select and the
\* check after it let a tripped token win.
SleepEnds(r, c) ==
    /\ runtime = "free" /\ task[r] = "sleeping"
    /\ \/ r \in tripped /\ Return(r, "Cancelled") /\ UNCHANGED vars
       \/ r \notin tripped /\ Admit(r, c) /\ AfterAdmit(r)
    /\ UNCHANGED acked

\* The parked send returns and the handler goes on.
Wake(r) ==
    /\ runtime = "parked" /\ task[r] = "parked"
    /\ Unblock(r)
    /\ AfterAdmit(r)
    /\ UNCHANGED acked

\* Mutant: the answer wins over the token.
TakeAnswerFirst(r) ==
    /\ runtime = "free" /\ task[r] = "waiting"
    /\ \/ r \in tripped /\ response[r] = "none" /\ Return(r, "Cancelled")
       \/ response[r] # "none" /\ Report(r, response[r])
    /\ UNCHANGED <<vars, acked>>

\* Mutant: only the token is waited for.
TakeAnswerTokenOnly(r) ==
    /\ runtime = "free" /\ task[r] = "waiting"
    /\ r \in tripped
    /\ Return(r, "Cancelled")
    /\ UNCHANGED <<vars, acked>>

\* The biased select on the token and the answer.
TakeAnswer(r) ==
    /\ runtime = "free" /\ task[r] = "waiting"
    /\ \/ r \in tripped /\ Return(r, "Cancelled")
       \/ /\ r \notin tripped /\ response[r] # "none"
          /\ Report(r, response[r])
    /\ UNCHANGED <<vars, acked>>

-----------------------------------------------------------------------------
(* aiplane.cancel and the daemon's own callers. *)

\* aiplane.cancel for target r.  The workload kind comes from the caller or
\* from inflight_kinds; when it is known the handler goes on into
\* Supervisor::cancel, on the runtime's thread.
HandleCancel(r, named) ==
    /\ runtime = "free"
    /\ IF r \in mapped
       THEN /\ IF r \in tripped THEN UNCHANGED vars
                                ELSE TripToken(r)
            /\ acked' = acked \union {r}
       ELSE UNCHANGED <<vars, acked>>
    /\ runtime' = IF named \/ r \in kinds THEN "cancelling" ELSE "free"
    /\ UNCHANGED <<task, reply, mapped, kinds>>

CancelReturns ==
    /\ runtime = "cancelling"
    /\ runtime' = "free"
    /\ UNCHANGED <<vars, task, reply, mapped, kinds, acked>>

\* admit_blocking_batch: admission and the wait on a thread of its own, with
\* a private token.
LocalCall(r, c) == Fresh(r) /\ Admit(r, c) /\ UNCHANGED bridgeVars

LocalUnblock(r) ==
    task[r] = "none" /\ Unblock(r) /\ UNCHANGED bridgeVars

\* The scheduler's own threads.
SchedulerThreads ==
    /\ \/ Dispatch
       \/ \E o \in Outcomes : Finish(o)
       \/ Panic
       \/ \E r \in Requests : Elapse(r)
       \/ Watchdog
    /\ UNCHANGED bridgeVars

-----------------------------------------------------------------------------

Handlers ==
    \/ \E r \in Requests, c \in Classes : SleepEnds(r, c)
    \/ \E r \in Requests : Wake(r)
    \/ \E r \in Requests : TakeAnswer(r)
    \/ CancelReturns

BridgeNext ==
    \/ \E r \in Requests : RefuseRun(r) \/ ReceiveSleeping(r)
    \/ \E r \in Requests, c \in Classes : ReceiveRun(r, c)
    \/ \E r \in Requests, named \in BOOLEAN : HandleCancel(r, named)
    \/ \E r \in Requests, c \in Classes : LocalCall(r, c)
    \/ \E r \in Requests : LocalUnblock(r)
    \/ Handlers
    \/ SchedulerThreads

BridgeSpec == BridgeInit /\ [][BridgeNext]_allVars

\* Timers fire; the runtime's run queue is first in, first out, so a ready
\* task is polled however many cancels keep arriving (hence SF); the waits of
\* Supervisor::cancel are bounded; the scheduler's threads run.
BridgeFairness ==
    /\ \A r \in Requests :
          /\ SF_allVars(\E c \in Classes : SleepEnds(r, c))
          /\ WF_allVars(Wake(r))
          /\ SF_allVars(TakeAnswer(r))
    /\ WF_allVars(CancelReturns)
    /\ \A r \in Requests : WF_allVars(LocalUnblock(r))
    /\ WF_allVars(Dispatch /\ UNCHANGED bridgeVars)
    /\ WF_allVars(Watchdog /\ UNCHANGED bridgeVars)
    /\ WF_allVars(((\E o \in Outcomes : Finish(o)) \/ Panic)
               /\ UNCHANGED bridgeVars)

FairBridgeSpec == BridgeSpec /\ BridgeFairness

-----------------------------------------------------------------------------

\* Type invariant of the bridge's own state.
BridgeTypeOK ==
    /\ TypeOK
    /\ task \in [Requests -> {"none", "sleeping", "parked", "waiting", "replied"}]
    /\ reply \in [Requests -> {"none", "Ok", "Cancelled", "Overloaded",
                              "Internal", "BadRequest"}]
    /\ mapped \in SUBSET Requests
    /\ kinds \in SUBSET Requests
    /\ runtime \in {"free", "parked", "cancelling"}
    /\ acked \in SUBSET Requests

\* A request can be cancelled by id, and its kind resolved, from its arrival
\* to its reply and not after: no exit path of the two handlers leaks an
\* entry of cancel_registry or of inflight_kinds (InflightKindGuard).
EntriesFollowTheTask ==
    \A r \in Requests :
        /\ r \in mapped <=> task[r] \in {"sleeping", "parked", "waiting"}
        /\ r \in kinds <=> r \in mapped

\* An aiplane.cancel that answered cancelled: true is honoured: the request
\* is replied to as Cancelled, even when its result was already on the
\* oneshot, and never as Ok, Overloaded or Internal.
AckedCancelIsHonoured ==
    \A r \in acked : reply[r] \in {"none", "Cancelled"}

\* A reply tells the truth about the run: Ok only for a backend call that
\* succeeded, Overloaded only for a request that never entered a channel,
\* Cancelled only after a cancel of this request.
ReplyMatchesRun ==
    \A r \in Requests :
        /\ reply[r] = "Ok" => response[r] = "Ok"
        /\ reply[r] = "Overloaded" =>
              response[r] = "Overloaded" /\ overtaken[r] = 0 /\ r # current
        /\ reply[r] = "Cancelled" => r \in acked
        /\ response[r] = "Cancelled" => r \in acked

\* Every aiplane.run and aiplane.batch call is replied to.
Unreplied(r) == task[r] \in {"sleeping", "parked", "waiting"}
EveryCallIsReplied ==
    (\E r \in Requests : Unreplied(r)) ~> (\A r \in Requests : ~Unreplied(r))

=============================================================================
