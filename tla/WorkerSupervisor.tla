-------------------------- MODULE WorkerSupervisor --------------------------
(***************************************************************************)
(* The parent-side worker manager of the AI plane                          *)
(* (crates/sy-aiplane/src/aiplane/supervisor/mod.rs, child.rs), for one    *)
(* workload kind: threads that call run_batch and cancel, the health       *)
(* poller, and the daemon's shutdown.  They share the map of managed       *)
(* children under one mutex, which ensure_spawned keeps across the spawn   *)
(* and the wait for the socket file.  A request to a worker goes to        *)
(* whoever bound the socket path last, outside the mutex.  A worker        *)
(* process is seen from its parent: AiplaneWorker has its inside.          *)
(***************************************************************************)
EXTENDS Integers, FiniteSets

CONSTANTS
    Procs,   \* the processes that can be spawned, one after another
    Calls,   \* threads that call run_batch once
    Cancels, \* threads that call cancel once
    NoProc, NoCall

ASSUME NoProcAssumption == NoProc \notin Procs

Actors == Calls \union Cancels \union {"poller", "stop"}

ASSUME NobodyIsNone == "none" \notin Actors

VARIABLES
    at,       \* at[a]: where the actor is
    mutex,    \* the holder of Supervisor.inner across steps, and its spawn
    child,    \* the ManagedChild record
    proc,     \* proc[p]: the life of a worker process
    model,    \* model[p]: its WorkloadState
    file,     \* who bound the socket path last; NoProc when it is unlinked
    running,  \* running[p]: the calls whose batch runs in p
    slot,     \* slot[p]: the id of the inflight request that Health reports
    target,   \* target[x]: the call that a cancel is about
    unraised  \* what ensure_spawned failed to raise: the process it left
              \* behind, or NoProc for a spawn that failed

procVars == <<proc, model, running, slot>>
supVars == <<at, mutex, child, procVars, file, target, unraised>>

Free == [by |-> "none", proc |-> NoProc]
NoChild == [proc |-> NoProc, attempts |-> 0, backoff |-> FALSE]

\* run_batch sends every request under Ulid::nil(), whatever id its caller
\* has; a cancel carries the caller's id.
WireId(c) == "nil"
NoId == "none"

Living == {"starting", "serving", "hung", "leaving"}
Alive(p) == p # NoProc /\ proc[p] \in Living

SupInit ==
    /\ at = [a \in Actors |-> "idle"]
    /\ mutex = Free
    /\ child = NoChild
    /\ proc = [p \in Procs |-> "unborn"]
    /\ model = [p \in Procs |-> "NotPrepared"]
    /\ file = NoProc
    /\ running = [p \in Procs |-> {}]
    /\ slot = [p \in Procs |-> NoId]
    /\ target = [x \in Cancels |-> NoCall]
    /\ unraised = {}

Goto(a, label) == at' = [at EXCEPT ![a] = label]

\* The process that the next spawn creates.
FreshProc == CHOOSE p \in Procs : proc[p] = "unborn"

\* The bound on processes: one is spared for each kill that a cancel or the
\* shutdown may do, so that a respawn never lacks one.
Spare ==
    Cardinality({p \in Procs : proc[p] = "unborn"}) > Cardinality(Cancels) + 1

-----------------------------------------------------------------------------
(* Worker processes, as their parent sees them. *)

Reachable == file # NoProc /\ proc[file] = "serving"

\* connect fails: no file, or nobody listens behind it.
WorkerDown == ~(file # NoProc /\ proc[file] \in {"serving", "hung", "leaving"})

\* p is gone; whoever reads from it sees the end of the stream.
Dies(p, callers) ==
    /\ proc' = [proc EXCEPT ![p] = "dead"]
    /\ running' = [running EXCEPT ![p] = {}]
    /\ slot' = [slot EXCEPT ![p] = NoId]
    /\ at' = [a \in Actors |->
                 IF a \in running[p] /\ callers[a] = "sent" THEN "err"
                                                            ELSE callers[a]]
    /\ UNCHANGED model

\* Mutant: the bind gives way to a file that is already there.
BindKeepsStaleFile(p) ==
    /\ proc[p] = "starting"
    /\ proc' = [proc EXCEPT ![p] = "serving"]
    /\ file' = IF file = NoProc THEN p ELSE file
    /\ UNCHANGED <<at, mutex, child, model, running, slot, target, unraised>>

\* The socket file of a predecessor is unlinked first.
Bind(p) ==
    /\ proc[p] = "starting"
    /\ proc' = [proc EXCEPT ![p] = "serving"]
    /\ file' = p
    /\ UNCHANGED <<at, mutex, child, model, running, slot, target, unraised>>

Load(p) ==
    /\ proc[p] \in {"starting", "serving"}
    /\ \/ model[p] = "NotPrepared" /\ model' = [model EXCEPT ![p] = "Loading"]
       \/ /\ model[p] = "Loading"
          /\ \E m \in {"Ready", "Failed"} : model' = [model EXCEPT ![p] = m]
    /\ UNCHANGED <<at, mutex, child, proc, file, running, slot, target, unraised>>

\* The socket file stays behind.
Crash(p) ==
    /\ Alive(p) /\ Spare
    /\ Dies(p, at)
    /\ UNCHANGED <<mutex, child, file, target, unraised>>

Hang(p) ==
    /\ proc[p] = "serving"
    /\ proc' = [proc EXCEPT ![p] = "hung"]
    /\ UNCHANGED <<at, mutex, child, model, running, slot, file, target, unraised>>

\* After Shutdown: the path is unlinked, whoever bound it, then _exit.
Exit(p) ==
    /\ proc[p] = "leaving"
    /\ file' = NoProc
    /\ Dies(p, at)
    /\ UNCHANGED <<mutex, child, target, unraised>>

RunEnds(p, c) ==
    /\ c \in running[p] /\ proc[p] \in {"serving", "leaving"}
    /\ running' = [running EXCEPT ![p] = @ \ {c}]
    /\ slot' = [slot EXCEPT ![p] = NoId]
    /\ \E res \in {"ok", "err"} :
          at' = [at EXCEPT ![c] = IF @ = "sent" THEN res ELSE @]
    /\ UNCHANGED <<mutex, child, proc, model, file, target, unraised>>

-----------------------------------------------------------------------------
(* ensure_spawned, as run by any actor at "raise". *)

\* Where an actor goes on after ensure_spawned returns Ok or Err.
Raised(a) ==
    CASE a \in Calls -> "probe" [] a \in Cancels -> "err" [] OTHER -> "idle"
NotRaised(a) == IF a \in Calls \union Cancels THEN "err" ELSE "idle"

\* Mutant: a living child is replaced like a dead one.
EnsureSpawnedAnyway(a) ==
    /\ at[a] = "raise" /\ mutex = Free
    /\ child' = NoChild
    /\ \E p \in Procs : proc[p] = "unborn"
    /\ proc' = [proc EXCEPT ![FreshProc] = "starting"]
    /\ mutex' = [by |-> a, proc |-> FreshProc]
    /\ Goto(a, "spawning")
    /\ UNCHANGED <<model, running, slot, file, target, unraised>>

\* A living child is kept; a dead one is forgotten, with its counters, and a
\* process is spawned.  The mutex is kept until the socket file is seen.
EnsureSpawned(a) ==
    /\ at[a] = "raise" /\ mutex = Free
    /\ \/ /\ Alive(child.proc)
          /\ Goto(a, Raised(a))
          /\ UNCHANGED <<mutex, child, proc, unraised>>
       \/ /\ ~Alive(child.proc)
          /\ child' = NoChild
          /\ \/ /\ \E p \in Procs : proc[p] = "unborn"
                /\ proc' = [proc EXCEPT ![FreshProc] = "starting"]
                /\ mutex' = [by |-> a, proc |-> FreshProc]
                /\ Goto(a, "spawning")
                /\ UNCHANGED unraised
             \/ /\ unraised' = unraised \union {NoProc}
                /\ Goto(a, NotRaised(a))
                /\ UNCHANGED <<mutex, proc>>
    /\ UNCHANGED <<model, running, slot, file, target>>

\* wait_for_socket: any file at the path will do, a predecessor's too.
SocketSeen(a) ==
    /\ mutex.by = a /\ file # NoProc
    /\ child' = [NoChild EXCEPT !.proc = mutex.proc]
    /\ mutex' = Free
    /\ Goto(a, Raised(a))
    /\ UNCHANGED <<procVars, file, target, unraised>>

\* Mutant: the error path leaves the mutex locked.
SocketDeadlineKeepsMutex(a) ==
    /\ mutex.by = a /\ file = NoProc
    /\ unraised' = unraised \union {mutex.proc}
    /\ mutex' = [mutex EXCEPT !.by = "none"]
    /\ Goto(a, NotRaised(a))
    /\ UNCHANGED <<child, procVars, file, target>>

\* SOCKET_BIND_DEADLINE: the handle is dropped, the process is not killed.
SocketDeadline(a) ==
    /\ mutex.by = a /\ file = NoProc
    /\ unraised' = unraised \union {mutex.proc}
    /\ mutex' = Free
    /\ Goto(a, NotRaised(a))
    /\ UNCHANGED <<child, procVars, file, target>>

\* record_health of a Ready, from whichever process it came.
RecordReady(a, label) ==
    /\ mutex = Free
    /\ child' = [child EXCEPT !.attempts = 0, !.backoff = FALSE]
    /\ Goto(a, label)
    /\ UNCHANGED <<mutex, procVars, file, target, unraised>>

OnlyPc == UNCHANGED <<mutex, child, procVars, file, target, unraised>>

-----------------------------------------------------------------------------
(* run_batch. *)

RunBatch(c) == at[c] = "idle" /\ Goto(c, "raise") /\ OnlyPc

\* One health probe of wait_for_ready.  A probe that neither ends the wait
\* nor finds a Ready leaves no trace.
Probe(c) ==
    /\ at[c] = "probe" /\ mutex = Free
    /\ \/ Reachable /\ model[file] = "Ready" /\ Goto(c, "ready")
       \/ /\ Reachable /\ model[file] \in {"Failed", "NotPrepared"}
          /\ Goto(c, "err")
       \/ ~Reachable /\ ~WorkerDown /\ Goto(c, "err")
    /\ OnlyPc

ReadyDeadline(c) == at[c] = "probe" /\ Goto(c, "err") /\ OnlyPc

RecordCallReady(c) == at[c] = "ready" /\ RecordReady(c, "send")

\* The worker refuses a batch unless its model is Ready.
SendRunBatch(c) ==
    /\ at[c] = "send" /\ mutex = Free
    /\ \/ /\ Reachable /\ model[file] = "Ready"
          /\ running' = [running EXCEPT ![file] = @ \union {c}]
          /\ slot' = [slot EXCEPT ![file] = WireId(c)]
          /\ Goto(c, "sent")
       \/ ~(Reachable /\ model[file] = "Ready") /\ Goto(c, "err")
                                                /\ UNCHANGED <<running, slot>>
    /\ UNCHANGED <<mutex, child, proc, model, file, target, unraised>>

\* RUN_BATCH_TIMEOUT: the caller gives up, the run goes on.
RunBatchTimeout(c) == at[c] = "sent" /\ Goto(c, "err") /\ OnlyPc

-----------------------------------------------------------------------------
(* cancel. *)

\* Cancel is sent: acknowledged, or the call fails at once.  The worker's own
\* reaction (try_cancel when the slot matches) ends the run: RunEnds.
Cancel(x, c) ==
    /\ at[x] = "idle" /\ mutex = Free
    /\ target' = [target EXCEPT ![x] = c]
    /\ Goto(x, IF Reachable THEN "poll" ELSE "err")
    /\ UNCHANGED <<mutex, child, procVars, file, unraised>>

\* A health probe shows another id in the slot: the worker has yielded.
SeeYielded(x) ==
    /\ at[x] = "poll" /\ Reachable
    /\ slot[file] # target[x]
    /\ Goto(x, "yielded")
    /\ OnlyPc

RecordYielded(x) ==
    /\ at[x] = "yielded"
    /\ \/ RecordReady(x, "ok")
       \/ mutex = Free /\ Goto(x, "ok") /\ OnlyPc

\* The probe fails, or CANCEL_YIELD_DEADLINE passes.
GiveUpYield(x) == at[x] = "poll" /\ Goto(x, "kill") /\ OnlyPc

\* escalate_to_kill: terminate kills and reaps whatever child is managed now.
EscalateToKill(x) ==
    /\ at[x] = "kill" /\ mutex = Free
    /\ \/ /\ Alive(child.proc)
          /\ Dies(child.proc, [at EXCEPT ![x] = "raise"])
       \/ ~Alive(child.proc) /\ Goto(x, "raise") /\ UNCHANGED procVars
    /\ UNCHANGED <<mutex, child, file, target, unraised>>

-----------------------------------------------------------------------------
(* The health poller and the daemon's shutdown. *)

PollOnce ==
    /\ at["poller"] = "idle" /\ at["stop"] = "idle" /\ mutex = Free
    /\ Goto("poller", IF child = NoChild THEN "reap" ELSE "poll")
    /\ OnlyPc

PollProbe ==
    /\ at["poller"] = "poll" /\ mutex = Free
    /\ Goto("poller", IF Reachable /\ model[file] = "Ready" THEN "ready" ELSE "reap")
    /\ OnlyPc

PollRecord == at["poller"] = "ready" /\ RecordReady("poller", "reap")

\* Mutant: only a child that is backing off is restarted.
ReapOnlyInBackoff ==
    /\ at["poller"] = "reap" /\ mutex = Free
    /\ \/ /\ child # NoChild /\ ~Alive(child.proc) /\ child.backoff
          /\ child' = [child EXCEPT !.attempts = @ + 1]
          /\ Goto("poller", "raise")
       \/ /\ child = NoChild \/ Alive(child.proc) \/ ~child.backoff
          /\ Goto("poller", "idle")
          /\ UNCHANGED child
    /\ UNCHANGED <<mutex, procVars, file, target, unraised>>

\* reap_and_restart up to its call of ensure_spawned.
Reap ==
    /\ at["poller"] = "reap" /\ mutex = Free
    /\ \/ /\ child # NoChild /\ ~Alive(child.proc) /\ ~child.backoff
          /\ child' = [child EXCEPT !.attempts = @ + 1, !.backoff = TRUE]
          /\ Goto("poller", "raise")
       \/ /\ child = NoChild \/ Alive(child.proc) \/ child.backoff
          /\ Goto("poller", "idle")
          /\ UNCHANGED child
    /\ UNCHANGED <<mutex, procVars, file, target, unraised>>

BackoffElapses ==
    /\ child.backoff
    /\ child' = [child EXCEPT !.backoff = FALSE]
    /\ UNCHANGED <<at, mutex, procVars, file, target, unraised>>

\* SIGTERM: the poller finishes its pass and is joined.
Stop == at["stop"] = "idle" /\ Goto("stop", "join") /\ OnlyPc

Shutdown ==
    /\ at["stop"] = "join" /\ at["poller"] = "idle" /\ mutex = Free
    /\ Goto("stop", "wait")
    /\ proc' = IF child # NoChild /\ Reachable
               THEN [proc EXCEPT ![file] = "leaving"] ELSE proc
    /\ UNCHANGED <<mutex, child, model, running, slot, file, target, unraised>>

AllExited ==
    /\ at["stop"] = "wait" /\ mutex = Free
    /\ ~Alive(child.proc)
    /\ Goto("stop", "done")
    /\ OnlyPc

\* The shutdown deadline: a straggler is killed.
ShutdownDeadline ==
    /\ at["stop"] = "wait" /\ mutex = Free
    /\ Alive(child.proc)
    /\ Dies(child.proc, [at EXCEPT !["stop"] = "done"])
    /\ UNCHANGED <<mutex, child, file, target, unraised>>

-----------------------------------------------------------------------------

Raise(a) == EnsureSpawned(a) \/ SocketSeen(a) \/ SocketDeadline(a)

CallStep(c) ==
    Raise(c) \/ Probe(c) \/ ReadyDeadline(c) \/ RecordCallReady(c)
        \/ SendRunBatch(c) \/ RunBatchTimeout(c)

CancelStep(x) ==
    SeeYielded(x) \/ RecordYielded(x) \/ GiveUpYield(x) \/ EscalateToKill(x)
        \/ Raise(x)

PollerStep == PollOnce \/ PollProbe \/ PollRecord \/ Reap \/ Raise("poller")

StopStep == Shutdown \/ AllExited \/ ShutdownDeadline

WorkerStep(p) == Bind(p) \/ Load(p) \/ Exit(p)

SupNext ==
    \/ \E p \in Procs : WorkerStep(p) \/ Crash(p) \/ Hang(p)
    \/ \E p \in Procs, c \in Calls : RunEnds(p, c)
    \/ \E c \in Calls : RunBatch(c) \/ CallStep(c)
    \/ \E x \in Cancels, c \in Calls : Cancel(x, c)
    \/ \E x \in Cancels : CancelStep(x)
    \/ PollerStep
    \/ BackoffElapses
    \/ Stop
    \/ StopStep

SupSpec == SupInit /\ [][SupNext]_supVars

\* Threads run and time passes; a spawned process gets to bind, and exits
\* once told to.  Nothing makes a run end, a model load or a process crash.
SupFairness ==
    /\ \A c \in Calls : WF_supVars(CallStep(c))
    /\ \A x \in Cancels : WF_supVars(CancelStep(x))
    /\ WF_supVars(PollerStep)
    /\ WF_supVars(BackoffElapses)
    /\ WF_supVars(StopStep)
    /\ \A p \in Procs : WF_supVars(Bind(p) \/ Exit(p))

FairSupSpec == SupSpec /\ SupFairness

-----------------------------------------------------------------------------

SupPlaces == {"idle", "raise", "spawning", "probe", "ready", "send", "sent", "poll",
              "yielded", "kill", "reap", "join", "wait", "done", "ok", "err"}

\* Type invariant.
SupTypeOK ==
    /\ at \in [Actors -> SupPlaces]
    /\ mutex \in [by : Actors \union {"none"}, proc : Procs \union {NoProc}]
    /\ child \in [proc : Procs \union {NoProc}, attempts : Nat, backoff : BOOLEAN]
    /\ proc \in [Procs -> {"unborn", "dead"} \union Living]
    /\ model \in [Procs -> {"NotPrepared", "Loading", "Ready", "Failed"}]
    /\ file \in Procs \union {NoProc}
    /\ running \in [Procs -> SUBSET Calls]
    /\ slot \in [Procs -> {NoId, "nil"}]
    /\ target \in [Cancels -> Calls \union {NoCall}]
    /\ unraised \subseteq Procs \union {NoProc}

\* The XDNA device takes "one HW context per process", and the supervisor
\* spawns "one child process per configured NPU workload kind": a living
\* worker is the managed child, or the one being raised under the mutex,
\* through every race of calls, kills, respawns and shutdown.  The one
\* exception is a worker that outlived its SOCKET_BIND_DEADLINE.
OneWorkerPerKind ==
    \A p \in Procs : Alive(p) => p \in {child.proc, mutex.proc} \union unraised

\* A serving child can be reached, as long as every worker bound in time:
\* nobody unlinks or takes over the socket path under it, neither a
\* predecessor on its way out nor a successor.
ServingChildIsReachable ==
    Alive(child.proc) /\ proc[child.proc] = "serving" /\ unraised \subseteq {NoProc}
        => file = child.proc

\* A dead child is restarted by the poller: "on ... process exit, the child is
\* restarted" (module comment, Lifecycle 3), unless the daemon stops or a
\* worker could not be raised.
DeadChildIsRestarted ==
    (child # NoChild /\ ~Alive(child.proc))
        ~> (Alive(child.proc) \/ at["stop"] # "idle" \/ unraised # {})

\* run_batch, cancel and shutdown return, whatever hangs or crashes: a time
\* comes when nobody is in a call.  Everyone calls once at most.
InCall(a) == at[a] \notin {"idle", "ok", "err", "done"}
EveryCallReturns ==
    (\E a \in Actors \ {"poller"} : InCall(a)) ~> (\A a \in Actors \ {"poller"} : ~InCall(a))

\* "On success (the worker yielded - inflight_request_id no longer matches
\* request_id), returns Ok(())" (Supervisor::cancel): the cancelled batch no
\* longer runs in the worker that was asked.
CancelOkMeansYielded ==
    [][\A x \in Cancels :
          at[x] = "poll" /\ at'[x] = "yielded" => target[x] \notin running[file]]_supVars
=============================================================================
