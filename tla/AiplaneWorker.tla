--------------------------- MODULE AiplaneWorker ----------------------------
(***************************************************************************)
(* One worker process of the AI plane                                      *)
(* (crates/sy-aiplane/src/aiplane/worker/runner.rs, the protocol of        *)
(* worker_ipc.rs and the cancellation of workloads/embed.rs): the loader   *)
(* thread, the serve loop that takes one message at a time, and one thread *)
(* per RunBatch.  The threads share the inflight slot, the session lock    *)
(* and the terminate flag of one RunOptions.  A message is taken whenever  *)
(* the loop is free: its time in the socket and the channel is not a state *)
(* of its own.                                                             *)
(***************************************************************************)
EXTENDS Naturals

CONSTANTS
    Runs,   \* RunBatch requests, each with a request id of its own
    NoRun

ASSUME NoRunAssumption == NoRun \notin Runs

VARIABLES
    model,     \* WorkloadState: "NotPrepared", "Loading", "Ready", "Failed"
    loop,      \* serve loop: "recv", "matched", "stopping", "exited"
    stage,     \* stage[r]: where the run's thread is
    result,    \* result[r]: what the run's reply will carry
    slot,      \* the inflight slot that Health reports
    session,   \* the run that holds the session lock
    terminate, \* the terminate flag of the shared RunOptions
    asked,     \* the runs that a Cancel has named
    overlapped \* the runs whose time in the worker overlapped another run's

workerVars == <<model, loop, stage, result, slot, session, terminate, asked,
          overlapped>>

\* The stages of a run's thread between its request and its reply.
InProgress == {"marked", "inSession", "ran"}
Pending == {"spawned", "cleared"} \union InProgress

WorkerInit ==
    /\ model = "NotPrepared"
    /\ loop = "recv"
    /\ stage = [r \in Runs |-> "idle"]
    /\ result = [r \in Runs |-> "none"]
    /\ slot = NoRun
    /\ session = NoRun
    /\ terminate = FALSE
    /\ asked = {}
    /\ overlapped = {}

WorkerAlive == loop # "exited"

-----------------------------------------------------------------------------
(* The loader thread. *)

StartLoading ==
    /\ WorkerAlive /\ model = "NotPrepared"
    /\ model' = "Loading"
    /\ UNCHANGED <<loop, stage, result, slot, session, terminate, asked,
                   overlapped>>

FinishLoading ==
    /\ WorkerAlive /\ model = "Loading"
    /\ model' \in {"Ready", "Failed"}
    /\ UNCHANGED <<loop, stage, result, slot, session, terminate, asked,
                   overlapped>>

-----------------------------------------------------------------------------
(* The serve loop. *)

RecvRunBatch(r) ==
    LET pending == {q \in Runs : stage[q] \in Pending} IN
    /\ loop = "recv" /\ stage[r] = "idle"
    /\ stage' = [stage EXCEPT ![r] = "spawned"]
    /\ overlapped' = overlapped \union
                        (IF pending = {} THEN {} ELSE pending \union {r})
    /\ UNCHANGED <<model, loop, result, slot, session, terminate, asked>>

\* Cancel: the id is compared with the slot under its lock...
RecvCancel(r) ==
    /\ loop = "recv"
    /\ asked' = asked \union {r}
    /\ loop' = IF slot = r THEN "matched" ELSE "recv"
    /\ UNCHANGED <<model, stage, result, slot, session, terminate,
                   overlapped>>

\* ... and try_cancel runs after the lock is released.
TryCancel ==
    /\ loop = "matched"
    /\ terminate' = TRUE
    /\ loop' = "recv"
    /\ UNCHANGED <<model, stage, result, slot, session, asked,
                   overlapped>>

\* Shutdown is acknowledged and flagged; SIGTERM raises the same flag.
RecvShutdown ==
    /\ loop = "recv"
    /\ loop' = "stopping"
    /\ UNCHANGED <<model, stage, result, slot, session, terminate, asked,
                   overlapped>>

\* run() after the loop: unload takes the session lock, the socket file is
\* removed and _exit ends every thread.
WorkerExit ==
    /\ loop = "stopping" /\ session = NoRun
    /\ loop' = "exited"
    /\ stage' = [r \in Runs |-> IF stage[r] \in Pending THEN "lost" ELSE stage[r]]
    /\ slot' = NoRun
    /\ UNCHANGED <<model, result, session, terminate, asked,
                   overlapped>>

-----------------------------------------------------------------------------
(* A RunBatch thread. *)

\* The slot is set, whoever is in it.
Mark(r) ==
    /\ WorkerAlive /\ stage[r] = "spawned"
    /\ slot' = r
    /\ stage' = [stage EXCEPT ![r] = "marked"]
    /\ UNCHANGED <<model, loop, result, session, terminate, asked,
                   overlapped>>

\* A model that is not Ready is refused before the session is touched.
Refuse(r) ==
    /\ WorkerAlive /\ stage[r] = "marked" /\ model # "Ready"
    /\ result' = [result EXCEPT ![r] = "Error"]
    /\ stage' = [stage EXCEPT ![r] = "ran"]
    /\ UNCHANGED <<model, loop, slot, session, terminate, asked,
                   overlapped>>

\* Mutant: the terminate flag of an earlier call is not reset.
EnterSessionFlagged(r) ==
    /\ WorkerAlive /\ stage[r] = "marked" /\ model = "Ready"
    /\ session = NoRun
    /\ session' = r
    /\ stage' = [stage EXCEPT ![r] = "inSession"]
    /\ UNCHANGED <<model, loop, result, slot, terminate, asked,
                   overlapped>>

\* The session lock is taken; a leftover terminate flag is reset.
EnterSession(r) ==
    /\ WorkerAlive /\ stage[r] = "marked" /\ model = "Ready"
    /\ session = NoRun
    /\ session' = r
    /\ terminate' = FALSE
    /\ stage' = [stage EXCEPT ![r] = "inSession"]
    /\ UNCHANGED <<model, loop, result, slot, asked,
                   overlapped>>

\* One input ends.  A raised flag unwinds the call with an error, which ends
\* the batch; so does any other error.  After a success the next input of
\* the batch takes the lock again, or the batch is complete.
LeaveSession(r) ==
    /\ WorkerAlive /\ session = r
    /\ session' = NoRun
    /\ \/ /\ terminate
          /\ result' = [result EXCEPT ![r] = "Aborted"]
          /\ stage' = [stage EXCEPT ![r] = "ran"]
       \/ /\ ~terminate
          /\ \E res \in {"Ok", "Error"} : result' = [result EXCEPT ![r] = res]
          /\ stage' = [stage EXCEPT ![r] = "ran"]
       \/ /\ ~terminate
          /\ stage' = [stage EXCEPT ![r] = "marked"]
          /\ UNCHANGED result
    /\ UNCHANGED <<model, loop, slot, terminate, asked,
                   overlapped>>

\* The slot is cleared, whoever is in it.
Clear(r) ==
    /\ WorkerAlive /\ stage[r] = "ran"
    /\ slot' = NoRun
    /\ stage' = [stage EXCEPT ![r] = "cleared"]
    /\ UNCHANGED <<model, loop, result, session, terminate, asked,
                   overlapped>>

Reply(r) ==
    /\ WorkerAlive /\ stage[r] = "cleared"
    /\ stage' = [stage EXCEPT ![r] = "replied"]
    /\ UNCHANGED <<model, loop, result, slot, session, terminate, asked,
                   overlapped>>

-----------------------------------------------------------------------------

RunThread(r) ==
    Mark(r) \/ Refuse(r) \/ EnterSession(r) \/ LeaveSession(r) \/ Clear(r)
        \/ Reply(r)

WorkerNext ==
    \/ StartLoading \/ FinishLoading
    \/ \E r \in Runs : RecvRunBatch(r) \/ RecvCancel(r)
    \/ TryCancel \/ RecvShutdown \/ WorkerExit
    \/ \E r \in Runs : RunThread(r)

WorkerSpec == WorkerInit /\ [][WorkerNext]_workerVars

-----------------------------------------------------------------------------

Stages == {"idle", "replied", "lost"} \union Pending

\* Type invariant; the session lock belongs to a run that is in the session.
WorkerTypeOK ==
    /\ model \in {"NotPrepared", "Loading", "Ready", "Failed"}
    /\ loop \in {"recv", "matched", "stopping", "exited"}
    /\ stage \in [Runs -> Stages]
    /\ result \in [Runs -> {"none", "Ok", "Error", "Aborted"}]
    /\ slot \in Runs \union {NoRun}
    /\ session \in {NoRun} \union {r \in Runs : stage[r] = "inSession"}
    /\ terminate \in BOOLEAN
    /\ asked \in SUBSET Runs
    /\ overlapped \in SUBSET Runs

\* "Cooperatively abort the inflight RunBatch whose request_id matches"
\* (WorkerReq::Cancel), and a fresh request "isn't pre-poisoned" by a
\* leftover flag (run_one): a run is aborted only when it was asked for,
\* also when the Cancel is late and another run has followed its target.
OnlyTheTargetIsAborted ==
    \A r \in Runs : result[r] = "Aborted" => r \in asked \union overlapped
=============================================================================
