----------------------------- MODULE PluginProc -----------------------------
(***************************************************************************)
(* The supervisor of one plugin process of the file manager                *)
(* (crates/sy-filemanager/src/plugin/proc.rs): the handle that callers     *)
(* share, the actor task behind it with its command channel, in-flight     *)
(* table, ping and restart ladder, and the child at the other end of two   *)
(* pipes.  The child is external: it may read or not, answer or not, call  *)
(* host functions, write garbage and die at any time.  Children are        *)
(* numbered in the order they are booted.  Request ids are never reused,   *)
(* and at most one ping per child is out, so a request is its own id and a *)
(* ping's id is the number of the child it was sent to.                    *)
(***************************************************************************)
EXTENDS Integers, Sequences, FiniteSets, SequencesExt

CONSTANTS
    PluginRequests, \* one per call of PluginProc::request
    Oversized,      \* the requests whose frame exceeds MAX_PAYLOAD_BYTES
    MaxWaiting,     \* callers that share the handle at the same time
    MaxAttempts,    \* max_restart_attempts
    MaxHostCalls    \* bound: host.* calls made by the children, in all

ASSUME ProcAssumption ==
    /\ Oversized \subseteq PluginRequests
    /\ PluginRequests \intersect {"ping", "shutdown", "exit", "host", "garbage", "none"} = {}
    /\ MaxWaiting \in Nat \ {0}
    /\ MaxAttempts \in Nat
    /\ MaxHostCalls \in Nat

VARIABLES
    handle,    \* "open", "closing" (in shutdown), "closed", "dropped"
    state,     \* state[r]: "idle", "waiting", "answered", "abandoned"
    cmds,      \* the command channel: requests and "shutdown"
    actor,        \* the actor's place
    sending,   \* the frame the actor is writing, or "none"
    inFlight,  \* inFlight[r]: the child r was sent to, 0 when not in the table
    ping,      \* ping_in_flight: the child it was sent to, 0 for None
    late,      \* ping_timeout has passed since that ping was sent
    attempts,
    health,    \* the watch channel
    gen,       \* the last child booted
    live,      \* children whose process runs
    stdin,     \* frames the current child has not read
    held,      \* frames it has read and not answered
    stdout,    \* frames it has written and the actor has not read
    hostTask,  \* the child whose host.* call a background task answers, or 0
    hostCalls  \* host.* calls made so far

handleVars == <<handle, state>>
pingVars == <<ping, late>>
ladderVars == <<attempts, health>>
pipeVars == <<stdin, held, stdout>>
hostVars == <<hostTask, hostCalls>>
pluginVars == <<handleVars, cmds, actor, sending, inFlight, pingVars, ladderVars, gen, live,
          pipeVars, hostVars>>

Alive == gen \in live

Waiting == {r \in PluginRequests : state[r] = "waiting"}

\* spawn(): the first child is being booted, there is no handle yet.
ProcInit ==
    /\ handle = "open"
    /\ state = [r \in PluginRequests |-> "idle"]
    /\ cmds = <<>>
    /\ actor = "spawning"
    /\ sending = "none"
    /\ inFlight = [r \in PluginRequests |-> 0]
    /\ ping = 0
    /\ late = FALSE
    /\ attempts = 0
    /\ health = "Spawning"
    /\ gen = 1
    /\ live = {1}
    /\ stdin = <<>>
    /\ held = {}
    /\ stdout = <<>>
    /\ hostTask = 0
    /\ hostCalls = 0

-----------------------------------------------------------------------------
(* The handle. *)

\* PluginProc::request, up to its wait; the actor may already be gone.
Request(r) ==
    /\ handle = "open"
    /\ actor # "spawning"
    /\ state[r] = "idle"
    /\ Cardinality(Waiting) < MaxWaiting
    /\ IF actor = "exited"
       THEN state' = [state EXCEPT ![r] = "answered"] /\ UNCHANGED cmds
       ELSE state' = [state EXCEPT ![r] = "waiting"] /\ cmds' = Append(cmds, r)
    /\ UNCHANGED <<handle, actor, sending, inFlight, pingVars, ladderVars, gen, live,
                   pipeVars, hostVars>>

\* The caller drops its future; the actor keeps the request.
Abandon(r) ==
    /\ state[r] = "waiting"
    /\ state' = [state EXCEPT ![r] = "abandoned"]
    /\ UNCHANGED <<handle, cmds, actor, sending, inFlight, pingVars, ladderVars, gen,
                   live, pipeVars, hostVars>>

\* PluginProc::shutdown, which borrows the handle exclusively.
Shutdown ==
    /\ handle = "open"
    /\ actor # "spawning"
    /\ Waiting = {}
    /\ IF actor = "exited"
       THEN handle' = "closed" /\ UNCHANGED cmds
       ELSE handle' = "closing" /\ cmds' = Append(cmds, "shutdown")
    /\ UNCHANGED <<state, actor, sending, inFlight, pingVars, ladderVars, gen, live,
                   pipeVars, hostVars>>

\* The handle is dropped without a shutdown (PluginBridge evicts it).
DropHandle ==
    /\ handle = "open"
    /\ actor # "spawning"
    /\ Waiting = {}
    /\ handle' = "dropped"
    /\ UNCHANGED <<state, cmds, actor, sending, inFlight, pingVars, ladderVars, gen,
                   live, pipeVars, hostVars>>

-----------------------------------------------------------------------------
(* What the actor does with the requests it knows. *)

NoneInFlight == [r \in PluginRequests |-> 0]

\* The oneshots of S fire, or are dropped: whoever still waits returns.
Release(S) ==
    state' = [r \in PluginRequests |->
                 IF r \in S /\ state[r] = "waiting" THEN "answered" ELSE state[r]]

InTable == {r \in PluginRequests : inFlight[r] # 0}

\* Mutant: the in-flight table is emptied without an answer.
FailInFlightSilently == inFlight' = NoneInFlight /\ UNCHANGED state

FailInFlight == inFlight' = NoneInFlight /\ Release(InTable)

\* run_actor returns: its channel and its table go, and with them every
\* reply sender; a caller in shutdown() returns too.
Exit ==
    /\ actor' = "exited"
    /\ sending' = "none"
    /\ cmds' = <<>>
    /\ inFlight' = NoneInFlight
    /\ Release(Range(cmds) \union InTable \union {sending})
    /\ handle' = IF handle = "closing" THEN "closed" ELSE handle

Park == Exit /\ health' = "Unhealthy"

-----------------------------------------------------------------------------
(* The actor's select loop.  Commands come first; a pipe's readiness reaches *)
(* the runtime with a delay, so that the timers may win against it.         *)

\* spawn(): the first handshake succeeds, or the child is killed.
SpawnReturns ==
    /\ actor = "spawning"
    /\ \/ /\ Alive
          /\ actor' = "loop"
          /\ health' = "Ready"
          /\ UNCHANGED <<handle, live>>
       \/ /\ actor' = "exited"
          /\ handle' = "closed"
          /\ live' = {}
          /\ UNCHANGED health
    /\ UNCHANGED <<state, cmds, sending, inFlight, pingVars, attempts, gen,
                   pipeVars, hostVars>>

\* A command: its frame is written next.
TakeCommand ==
    /\ actor = "loop"
    /\ cmds # <<>>
    /\ actor' = "send"
    /\ sending' = Head(cmds)
    /\ cmds' = Tail(cmds)
    /\ health' = IF Head(cmds) = "shutdown" THEN "ShuttingDown" ELSE health
    /\ UNCHANGED <<handleVars, inFlight, pingVars, attempts, gen, live,
                   pipeVars, hostVars>>

\* The handle is gone and so are its commands: the loop breaks.  The child is
\* dropped with the actor, which closes its pipes and does not kill it.
ChannelClosed ==
    /\ actor = "loop"
    /\ cmds = <<>>
    /\ handle = "dropped"
    /\ Exit
    /\ UNCHANGED <<pingVars, ladderVars, gen, live, pipeVars, hostVars>>

\* A host-function reply larger than the pipe's buffer, of which the child has
\* not read all, holds the writer's lock; other frames fit in the buffer.
Clogged == Alive /\ "host" \in Range(stdin)

\* framed.send and what follows it.
SendFrame ==
    /\ actor = "send"
    /\ \/ /\ Alive /\ sending \notin Oversized
          /\ ~Clogged
          /\ stdin' = Append(stdin, sending)
          /\ inFlight' = IF sending \in PluginRequests
                         THEN [inFlight EXCEPT ![sending] = gen] ELSE inFlight
          /\ ping' = IF sending = "ping" THEN gen ELSE ping
          /\ actor' = CASE sending = "shutdown" -> "farewell"
                     [] sending = "exit"     -> "reap"
                     [] OTHER                -> "loop"
          /\ UNCHANGED state
       \/ /\ ~Alive \/ sending \in Oversized
          /\ Release({sending})
          /\ actor' = CASE sending = "shutdown" -> "farewell"
                     [] sending = "exit"     -> "reap"
                     [] sending = "ping"     -> "loop"
                     [] OTHER                -> "ladder"
          /\ UNCHANGED <<stdin, inFlight, ping>>
    /\ sending' = "none"
    /\ UNCHANGED <<handle, cmds, late, ladderVars, gen, live, held, stdout, hostVars>>

\* route_incoming_frame.
RecvFrame ==
    /\ actor = "loop"
    /\ cmds = <<>> /\ handle # "dropped"
    /\ stdout # <<>> /\ Head(stdout) # "garbage"
    /\ LET f == Head(stdout) IN
       /\ ping' = IF f = "ping" /\ ping = gen THEN 0 ELSE ping
       /\ late' = (late /\ ping' # 0)
       /\ hostTask' = IF f = "host" THEN gen ELSE hostTask
       /\ inFlight' = IF f \in PluginRequests THEN [inFlight EXCEPT ![f] = 0] ELSE inFlight
       /\ Release({f} \intersect InTable)
    /\ stdout' = Tail(stdout)
    /\ UNCHANGED <<handle, cmds, actor, sending, ladderVars, gen, live, stdin, held,
                   hostCalls>>

\* Mutant: the requests of the lost child stay in the table.
EofKeepsTable ==
    /\ actor = "loop"
    /\ cmds = <<>> /\ handle # "dropped"
    /\ IF stdout = <<>> THEN ~Alive ELSE Head(stdout) = "garbage"
    /\ actor' = "ladder"
    /\ UNCHANGED <<handleVars, cmds, sending, inFlight, pingVars, ladderVars, gen,
                   live, pipeVars, hostVars>>

\* EOF, or a frame the codec refuses.
Eof ==
    /\ actor = "loop"
    /\ cmds = <<>> /\ handle # "dropped"
    /\ IF stdout = <<>> THEN ~Alive ELSE Head(stdout) = "garbage"
    /\ FailInFlight
    /\ actor' = "ladder"
    /\ UNCHANGED <<handle, cmds, sending, pingVars, ladderVars, gen, live, pipeVars,
                   hostVars>>

\* ping_interval has passed and no ping is out.
PingDue ==
    /\ actor = "loop"
    /\ cmds = <<>> /\ handle # "dropped"
    /\ ping = 0
    /\ actor' = "send"
    /\ sending' = "ping"
    /\ UNCHANGED <<handleVars, cmds, inFlight, pingVars, ladderVars, gen, live,
                   pipeVars, hostVars>>

\* ping_timeout passes, whatever the actor is doing.
PingElapses ==
    /\ ping # 0 /\ ~late
    /\ late' = TRUE
    /\ UNCHANGED <<handleVars, cmds, actor, sending, inFlight, ping, ladderVars, gen,
                   live, pipeVars, hostVars>>

\* Mutant: a missed ping is forgotten.
PingDeadlineIgnored ==
    /\ actor = "loop"
    /\ cmds = <<>> /\ handle # "dropped"
    /\ late
    /\ ping' = 0 /\ late' = FALSE
    /\ UNCHANGED <<handleVars, cmds, actor, sending, inFlight, ladderVars, gen, live,
                   pipeVars, hostVars>>

\* The ping that is out was not answered in time.
PingDeadline ==
    /\ actor = "loop"
    /\ cmds = <<>> /\ handle # "dropped"
    /\ late
    /\ ping' = 0 /\ late' = FALSE
    /\ FailInFlight
    /\ actor' = "ladder"
    /\ UNCHANGED <<handle, cmds, sending, ladderVars, gen, live, pipeVars,
                   hostVars>>

-----------------------------------------------------------------------------
(* The restart ladder (restart_if_attempts_remain). *)

Exhausted == attempts >= MaxAttempts

\* The old child is killed and reaped; the ladder ends, or backs off.
Ladder ==
    /\ actor = "ladder"
    /\ live' = live \ {gen}
    /\ \/ Exhausted /\ Park /\ UNCHANGED attempts
       \/ /\ ~Exhausted
          /\ attempts' = attempts + 1
          /\ health' = "Restarting"
          /\ actor' = "backoff"
          /\ UNCHANGED <<handleVars, cmds, sending, inFlight>>
    /\ UNCHANGED <<pingVars, gen, pipeVars, hostVars>>

\* A boot or a handshake failed: park, or walk the ladder again.
AttemptFails ==
    \/ Exhausted /\ Park
    \/ ~Exhausted /\ actor' = "ladder"
                  /\ UNCHANGED <<handleVars, cmds, sending, inFlight, health>>

\* boot_child after the backoff.
Boot ==
    /\ actor = "backoff"
    /\ \/ AttemptFails /\ UNCHANGED <<gen, live, pipeVars>>
       \/ /\ gen' = gen + 1
          /\ live' = live \union {gen + 1}
          /\ stdin' = <<>> /\ held' = {} /\ stdout' = <<>>
          /\ actor' = "handshake"
          /\ UNCHANGED <<handleVars, cmds, sending, inFlight, health>>
    /\ UNCHANGED <<pingVars, attempts, hostVars>>

\* Mutant: the child that failed its handshake is not killed.
HandshakeLeaks ==
    /\ actor = "handshake"
    /\ \/ /\ Alive
          /\ actor' = "loop" /\ health' = "Ready"
          /\ UNCHANGED <<handleVars, cmds, sending, inFlight, live>>
       \/ AttemptFails /\ UNCHANGED live
    /\ UNCHANGED <<pingVars, attempts, gen, pipeVars, hostVars>>

\* perform_handshake answers in time, or the new child is killed.
Handshake ==
    /\ actor = "handshake"
    /\ \/ /\ Alive
          /\ actor' = "loop" /\ health' = "Ready"
          /\ UNCHANGED <<handleVars, cmds, sending, inFlight, live>>
       \/ AttemptFails /\ live' = live \ {gen}
    /\ UNCHANGED <<pingVars, attempts, gen, pipeVars, hostVars>>

-----------------------------------------------------------------------------
(* do_shutdown, after the shutdown request was written. *)

\* Some frame, EOF or the timeout ends the wait for the reply; then exit.
Farewell ==
    /\ actor = "farewell"
    /\ stdout' = IF stdout = <<>> THEN stdout ELSE Tail(stdout)
    /\ actor' = "send"
    /\ sending' = "exit"
    /\ UNCHANGED <<handleVars, cmds, inFlight, pingVars, ladderVars, gen, live, stdin,
                   held, hostVars>>

\* Mutant: the wait for the child's exit is not bounded.
ReapUnbounded ==
    /\ actor = "reap"
    /\ ~Alive
    /\ Exit
    /\ UNCHANGED <<pingVars, ladderVars, gen, live, pipeVars, hostVars>>

\* The child exits in time, or is killed.
Reap ==
    /\ actor = "reap"
    /\ live' = live \ {gen}
    /\ Exit
    /\ UNCHANGED <<pingVars, ladderVars, gen, pipeVars, hostVars>>

-----------------------------------------------------------------------------
(* The child and the host-function task. *)

\* It reads a frame; a request or a ping may be answered later.
ChildReads ==
    /\ Alive
    /\ stdin # <<>>
    /\ stdin' = Tail(stdin)
    /\ held' = held \union ({Head(stdin)} \intersect (PluginRequests \union {"ping"}))
    /\ UNCHANGED <<handleVars, cmds, actor, sending, inFlight, pingVars, ladderVars, gen,
                   live, stdout, hostVars>>

ChildAnswers(f) ==
    /\ Alive
    /\ f \in held
    /\ stdout' = Append(stdout, f)
    /\ held' = held \ {f}
    /\ UNCHANGED <<handleVars, cmds, actor, sending, inFlight, pingVars, ladderVars, gen,
                   live, stdin, hostVars>>

\* A host.* call (one at a time), or bytes that are no frame.
ChildWrites(f) ==
    /\ Alive
    /\ f = "host" => hostCalls < MaxHostCalls /\ hostTask = 0
    /\ hostCalls' = IF f = "host" THEN hostCalls + 1 ELSE hostCalls
    /\ \A i \in 1 .. Len(stdout) : stdout[i] # "garbage"
    /\ stdout' = Append(stdout, f)
    /\ UNCHANGED <<handleVars, cmds, actor, sending, inFlight, pingVars, ladderVars, gen,
                   live, stdin, held, hostTask>>

ChildDies ==
    /\ Alive
    /\ live' = live \ {gen}
    /\ stdin' = <<>>
    /\ held' = {}
    /\ UNCHANGED <<handleVars, cmds, actor, sending, inFlight, pingVars, ladderVars, gen,
                   stdout, hostVars>>

\* spawn_host_fn_task writes its reply to the child that called: a small one
\* passes, one that is larger than the pipe stays until the child reads it.
HostReply ==
    /\ hostTask # 0
    /\ \/ /\ hostTask = gen /\ Alive
          /\ stdin' = Append(stdin, "host")
       \/ UNCHANGED stdin
    /\ hostTask' = 0
    /\ UNCHANGED <<handleVars, cmds, actor, sending, inFlight, pingVars, ladderVars, gen,
                   live, held, stdout, hostCalls>>

-----------------------------------------------------------------------------

Actor ==
    \/ SpawnReturns \/ TakeCommand \/ ChannelClosed \/ SendFrame \/ RecvFrame \/ Eof
    \/ PingDue \/ PingElapses \/ PingDeadline \/ Ladder \/ Boot \/ Handshake \/ Farewell \/ Reap

Child ==
    \/ ChildReads
    \/ \E f \in PluginRequests \union {"ping"} : ChildAnswers(f)
    \/ \E f \in {"host", "garbage"} : ChildWrites(f)
    \/ ChildDies

ProcNext ==
    \/ \E r \in PluginRequests : Request(r) \/ Abandon(r)
    \/ Shutdown
    \/ DropHandle
    \/ Actor
    \/ Child
    \/ HostReply

ProcSpec == ProcInit /\ [][ProcNext]_pluginVars

\* The actor's task is scheduled and its waits are bounded by timers; each
\* arm of its select gets its turn, since callers and children only keep the
\* others busy for a while.  The child owes nothing.
ProcFairness ==
    /\ WF_pluginVars(SpawnReturns \/ SendFrame \/ Ladder \/ Boot \/ Handshake \/ Farewell \/ Reap)
    /\ WF_pluginVars(TakeCommand) /\ WF_pluginVars(ChannelClosed)
    /\ SF_pluginVars(RecvFrame) /\ SF_pluginVars(Eof)
    /\ SF_pluginVars(PingDue) /\ WF_pluginVars(PingElapses) /\ SF_pluginVars(PingDeadline)
    /\ WF_pluginVars(HostReply)

FairProcSpec == ProcSpec /\ ProcFairness

-----------------------------------------------------------------------------

ProcPlaces == {"spawning", "loop", "send", "ladder", "backoff", "handshake",
           "farewell", "reap", "exited"}

InFrames == PluginRequests \union {"ping", "shutdown", "exit", "host"}

OutFrames == PluginRequests \union {"ping", "host", "garbage"}

\* Type invariant; the ladder is climbed at most max_restart_attempts times
\* in the life of a handle, so that no more children are ever booted.
ProcTypeOK ==
    /\ handle \in {"open", "closing", "closed", "dropped"}
    /\ state \in [PluginRequests -> {"idle", "waiting", "answered", "abandoned"}]
    /\ cmds \in Seq(PluginRequests \union {"shutdown"})
    /\ actor \in ProcPlaces
    /\ sending \in InFrames \union {"none"}
    /\ attempts \in 0 .. MaxAttempts
    /\ gen \in 1 .. attempts + 1
    /\ inFlight \in [PluginRequests -> 0 .. gen]
    /\ ping \in 0 .. gen
    /\ late \in BOOLEAN /\ (late => ping # 0)
    /\ health \in {"Spawning", "Ready", "ShuttingDown", "Restarting", "Unhealthy"}
    /\ live \in SUBSET (1 .. gen)
    /\ stdin \in Seq(InFrames)
    /\ held \in SUBSET (PluginRequests \union {"ping"})
    /\ stdout \in Seq(OutFrames)
    /\ hostTask \in 0 .. gen
    /\ hostCalls \in 0 .. MaxHostCalls

\* "So we never leak a half-handshaked child" (kill_child): through every
\* path of the ladder, of spawn() and of do_shutdown, at most the current
\* child runs, none while the ladder backs off, and none once the actor is
\* gone, unless the handle was dropped without a shutdown.
NoChildLeaks ==
    /\ live \subseteq {gen}
    /\ actor = "backoff" => live = {}
    /\ actor = "exited" /\ handle # "dropped" => live = {}

\* A caller that waits is known to the actor, in exactly one place: its
\* command is queued, being written, or in the in-flight table.
WaiterIsKnown ==
    \A r \in Waiting :
        Cardinality({i \in 1 .. Len(cmds) : cmds[i] = r})
            + (IF sending = r THEN 1 ELSE 0)
            + (IF inFlight[r] # 0 THEN 1 ELSE 0) = 1

\* How far a request has come: with the actor, with a child, or neither.
RequestPhase(r) ==
    IF state[r] = "idle" THEN "new"
    ELSE IF r \in Range(cmds) \union {sending} THEN "queued"
    ELSE IF inFlight[r] # 0 THEN "given" ELSE "over"

Rpc == INSTANCE PluginService WITH
    Requested <- PluginRequests,
    Limit <- MaxAttempts + 1,
    caller <- state,
    phase <- [r \in PluginRequests |-> RequestPhase(r)],
    process <- gen,
    up <- Alive

\* The supervisor, with its channel, its table, its ping and its ladder,
\* implements the at-most-once calls: through every failed write, EOF, missed
\* ping, restart and exit no request is given twice or to a child that does
\* not run, none is forgotten while its caller waits, and each child comes
\* after the one before, as many as the ladder allows.
ImplementsCalls == Rpc!RpcSpec

\* "Fail every in-flight request [...] when the child died" (fail_in_flight):
\* whenever the loop runs, what is in the table was sent to the child that
\* runs, which alone can answer it.
TableIsOfThisChild ==
    actor = "loop" => \A r \in PluginRequests : inFlight[r] \in {0, gen}

\* The child never again reads the end of a large host-function reply.
CloggedForGood == <>[]Clogged

\* "A hung plugin doesn't block the supervisor's caller indefinitely"
\* (do_shutdown): a caller of shutdown() returns, unless the child stops
\* reading in the middle of a large host-function reply.
ShutdownReturns ==
    (handle = "closing" ~> handle = "closed") \/ CloggedForGood

\* The child runs and has a ping to answer.
OwesPong == Alive /\ "ping" \in held \union Range(stdin)

\* A child that died is replaced, or the plugin parked; one that hangs is
\* killed, unless it answers its ping late: nobody keeps a plugin that died or
\* stalled (ping_deadline, the restart ladder).
LostChildIsReplaced ==
    CloggedForGood \/
        /\ (actor = "loop" /\ ~Alive) ~> (Alive \/ actor = "exited")
        /\ OwesPong ~> (~OwesPong \/ actor = "exited")

\* A request is answered, or given up by its caller, as long as the child
\* that runs keeps up with its input: nothing on the actor's side loses it,
\* across deaths, missed pings, restarts and parking.
EveryRequestIsAnswered ==
    []<>(~Alive \/ (stdin = <<>> /\ held = {})) => (Waiting # {} ~> Waiting = {})
=============================================================================
