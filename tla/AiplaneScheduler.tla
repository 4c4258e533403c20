-------------------------- MODULE AiplaneScheduler --------------------------
(***************************************************************************)
(* The four-class strict-priority scheduler of the AI plane                *)
(* (crates/sy-aiplane/src/aiplane/scheduler.rs): callers that admit        *)
(* requests into bounded channels, the dispatcher thread that drains them  *)
(* one request at a time, and the hard-escape watchdog thread that cancels *)
(* an overdue low-priority run.  A channel operation, a lock-protected     *)
(* read or write of the inflight slot and a oneshot send are one step each *)
(* and interleave freely.  The backend (AiplaneDispatch) is external: a    *)
(* batch call returns some outputs, an error, or panics the dispatcher.    *)
(***************************************************************************)
EXTENDS Integers, Sequences

CONSTANTS
    Requests,  \* one per Request built and handed to admit; ids are fresh
    Cap,       \* Cap[class]: the channel's bound (4, 32, 256, 4096)
    NoRequest

Priorities == {"Realtime", "Interactive", "Background", "Batch"}

ASSUME NoReqAssumption == NoRequest \notin Requests
ASSUME CapAssumption == Cap \in [Priorities -> Nat \ {0}]

\* Position in Priority::ALL, highest class first.
Rank == [Realtime |-> 1, Interactive |-> 2, Background |-> 3, Batch |-> 4]

\* c is served strictly before d.
Outranks(c, d) == Rank[c] < Rank[d]

\* The classes whose policy is TimeoutAction::Delay; the others Reject.
DelayOnFull == {"Background", "Batch"}

VARIABLES
    scheduler, \* "held" while some caller holds the senders, "dropped" after
    queue,     \* queue[class]: the bounded channel, oldest first
    class,     \* class[r]: the priority r was admitted with
    place,     \* place[r]: "idle", "blocked", "queued", "taken", "done"
    response,  \* response[r]: admit's error, or what its oneshot delivered
    tripped,   \* requests whose cancellation token is tripped
    pc,        \* dispatcher: "poll", "select", "pulled", "running", "exited"
    polled,    \* the rank the dispatcher polls next
    current,   \* the request the dispatcher holds
    inflight,  \* the shared slot the watchdog reads
    watch,     \* watchdog: its pc, its snapshot and last_cancelled
    overdue,   \* requests that started HARD_ESCAPE_THRESHOLD ago or earlier
    escapes,   \* escapes[r]: AiplaneDispatch::cancel calls for r
    overtaken  \* overtaken[r]: lower-class pulls while r was queued

callerVars == <<scheduler, class, tripped>>
dispatcherVars == <<pc, polled, current, inflight>>
watchdogVars == <<watch, overdue, escapes>>
vars == <<callerVars, queue, place, response, dispatcherVars, watchdogVars,
          overtaken>>

Init ==
    /\ scheduler = "held"
    /\ queue = [c \in Priorities |-> <<>>]
    /\ class = [r \in Requests |-> "Batch"]
    /\ place = [r \in Requests |-> "idle"]
    /\ response = [r \in Requests |-> "none"]
    /\ tripped = {}
    /\ pc = "poll"
    /\ polled = 1
    /\ current = NoRequest
    /\ inflight = NoRequest
    /\ watch = [pc |-> "sleep", info |-> NoRequest, last |-> NoRequest]
    /\ overdue = {}
    /\ escapes = [r \in Requests |-> 0]
    /\ overtaken = [r \in Requests |-> 0]

-----------------------------------------------------------------------------
(* Callers. *)

\* A channel is connected while a receiver lives: the dispatcher holds all
\* four, the watchdog clones of all but Batch's.
Connected(c) == pc # "exited" \/ (c # "Batch" /\ watch.pc # "exited")

Full(c) == Len(queue[c]) >= Cap[c]

Enqueue(r, c) ==
    /\ queue' = [queue EXCEPT ![c] = Append(@, r)]
    /\ place' = [place EXCEPT ![r] = "queued"]
    /\ UNCHANGED response

Answer(r, resp) ==
    /\ place' = [place EXCEPT ![r] = "done"]
    /\ response' = [response EXCEPT ![r] = resp]

\* try_send: room, a full channel, or no receiver.
TrySend(r, c) ==
    \/ Connected(c) /\ ~Full(c) /\ Enqueue(r, c)
    \/ Connected(c) /\ Full(c) /\ Answer(r, "Overloaded") /\ UNCHANGED queue
    \/ ~Connected(c) /\ Answer(r, "Gone") /\ UNCHANGED queue

\* send: as try_send, but a full channel parks the caller.
Send(r, c) ==
    \/ Connected(c) /\ ~Full(c) /\ Enqueue(r, c)
    \/ /\ Connected(c) /\ Full(c)
       /\ place' = [place EXCEPT ![r] = "blocked"]
       /\ UNCHANGED <<queue, response>>
    \/ ~Connected(c) /\ Answer(r, "Gone") /\ UNCHANGED queue

\* Scheduler::admit.
Admit(r, c) ==
    /\ scheduler = "held"
    /\ place[r] = "idle"
    /\ class' = [class EXCEPT ![r] = c]
    /\ IF c \in DelayOnFull THEN Send(r, c) ELSE TrySend(r, c)
    /\ UNCHANGED <<scheduler, tripped, dispatcherVars, watchdogVars, overtaken>>

\* A parked send wakes on room, or on the last receiver's drop.
Unblock(r) ==
    /\ place[r] = "blocked"
    /\ \/ Connected(class[r]) /\ ~Full(class[r]) /\ Enqueue(r, class[r])
       \/ ~Connected(class[r]) /\ Answer(r, "Gone") /\ UNCHANGED queue
    /\ UNCHANGED <<callerVars, dispatcherVars, watchdogVars, overtaken>>

\* The token of a request is cancelled by its owner (CancelRegistry::cancel),
\* at any time.
TripToken(r) ==
    /\ r \notin tripped
    /\ tripped' = tripped \union {r}
    /\ UNCHANGED <<scheduler, queue, class, place, response, dispatcherVars,
                   watchdogVars, overtaken>>

\* The last Arc<Scheduler> goes; a parked caller still borrows one.
DropScheduler ==
    /\ scheduler = "held"
    /\ \A r \in Requests : place[r] # "blocked"
    /\ scheduler' = "dropped"
    /\ UNCHANGED <<queue, class, place, response, tripped, dispatcherVars,
                   watchdogVars, overtaken>>

-----------------------------------------------------------------------------
(* Dispatcher. *)

\* The requests of a higher class that wait while one of class c is pulled.
Passed(c) == {r \in Requests : place[r] = "queued" /\ Outranks(class[r], c)}

Pull(c) ==
    LET r == Head(queue[c]) IN
    /\ queue[c] # <<>>
    /\ queue' = [queue EXCEPT ![c] = Tail(@)]
    /\ current' = r
    /\ place' = [place EXCEPT ![r] = "taken"]
    /\ pc' = "pulled"
    /\ overtaken' = [q \in Requests |->
                        overtaken[q] + (IF q \in Passed(c) THEN 1 ELSE 0)]
    /\ UNCHANGED <<callerVars, response, polled, inflight, watchdogVars>>

\* One try_recv of the strict-priority drain.
TryRecv(c) ==
    /\ pc = "poll"
    /\ Rank[c] = polled
    /\ \/ Pull(c)
       \/ /\ queue[c] = <<>>
          /\ IF c = "Batch" THEN pc' = "select" /\ UNCHANGED polled
                            ELSE polled' = polled + 1 /\ UNCHANGED pc
          /\ UNCHANGED <<callerVars, queue, place, response, current, inflight,
                         watchdogVars, overtaken>>

\* Requests of the channels in C are dropped with their last receiver: their
\* oneshot senders go with them.
DropChannels(C, alsoDropped) ==
    LET lost == alsoDropped \union
                {r \in Requests : place[r] = "queued" /\ class[r] \in C} IN
    /\ queue' = [c \in Priorities |-> IF c \in C THEN <<>> ELSE queue[c]]
    /\ place' = [r \in Requests |-> IF r \in lost THEN "done" ELSE place[r]]
    /\ response' = [r \in Requests |->
                       IF r \in lost THEN "Dropped" ELSE response[r]]

\* The channels whose last receiver is the dispatcher's.
DispatcherOnly ==
    IF watch.pc = "exited" THEN Priorities ELSE {"Batch"}

\* select!: a ready channel is picked at random.  A channel with a message
\* is ready, and so is an empty one without senders; the latter yields None
\* and the dispatcher returns.
Select ==
    /\ pc = "select"
    /\ \/ \E c \in Priorities : Pull(c)
       \/ /\ scheduler = "dropped"
          /\ \E c \in Priorities : queue[c] = <<>>
          /\ pc' = "exited"
          /\ DropChannels(DispatcherOnly, {})
          /\ UNCHANGED <<callerVars, polled, current, inflight, watchdogVars,
                         overtaken>>

\* Mutant: after a run the drain goes on with the class it had reached.
BackToPollingInPlace ==
    /\ pc' = "poll"
    /\ UNCHANGED polled
    /\ current' = NoRequest

BackToPolling ==
    /\ pc' = "poll"
    /\ polled' = 1
    /\ current' = NoRequest

\* Mutant: a tripped token is answered, but the early return is missing.
StartWithoutReturn ==
    /\ pc = "pulled"
    /\ IF current \in tripped THEN Answer(current, "Cancelled")
                              ELSE UNCHANGED <<place, response>>
    /\ inflight' = current
    /\ pc' = "running"
    /\ UNCHANGED <<callerVars, queue, polled, current, watchdogVars, overtaken>>

\* run_one up to the backend call: a tripped token is answered at once.
Start ==
    /\ pc = "pulled"
    /\ \/ /\ current \in tripped
          /\ Answer(current, "Cancelled")
          /\ BackToPolling
          /\ UNCHANGED inflight
       \/ /\ current \notin tripped
          /\ inflight' = current
          /\ pc' = "running"
          /\ UNCHANGED <<place, response, polled, current>>
    /\ UNCHANGED <<callerVars, queue, watchdogVars, overtaken>>

\* run_one from the backend's return: clear the slot, answer, poll again.
Finish(outcome) ==
    /\ pc = "running"
    /\ inflight' = NoRequest
    /\ Answer(current, outcome)
    /\ BackToPolling
    /\ UNCHANGED <<callerVars, queue, watchdogVars, overtaken>>

\* The backend panics: the thread unwinds, dropping the request and the
\* receivers, with the slot still set.
Panic ==
    /\ pc = "running"
    /\ pc' = "exited"
    /\ current' = NoRequest
    /\ DropChannels(DispatcherOnly, {current})
    /\ UNCHANGED <<callerVars, polled, inflight, watchdogVars, overtaken>>

-----------------------------------------------------------------------------
(* Watchdog (hard_escape_loop). *)

\* HARD_ESCAPE_THRESHOLD passes since r started.
Elapse(r) ==
    /\ r \in {inflight, watch.info} \ ({NoRequest} \union overdue)
    /\ overdue' = overdue \union {r}
    /\ UNCHANGED <<callerVars, queue, place, response, dispatcherVars, watch,
                   escapes, overtaken>>

\* Mutant: the watchdog does not notice that the dispatcher is gone.
TickForever ==
    /\ watch.pc = "sleep"
    /\ watch' = [watch EXCEPT !.info = inflight,
                    !.pc = IF inflight = NoRequest THEN "sleep" ELSE "snapped"]
    /\ UNCHANGED <<callerVars, queue, place, response, dispatcherVars, overdue,
                   escapes, overtaken>>

\* A tick: exit when the dispatcher's Arc of the slot is gone, else copy it.
Tick ==
    /\ watch.pc = "sleep"
    /\ \/ /\ pc = "exited"
          /\ watch' = [watch EXCEPT !.pc = "exited"]
          /\ DropChannels(Priorities, {})
       \/ /\ pc # "exited"
          /\ watch' = [watch EXCEPT !.info = inflight,
                          !.pc = IF inflight = NoRequest THEN "sleep"
                                                         ELSE "snapped"]
          /\ UNCHANGED <<queue, place, response>>
    /\ UNCHANGED <<callerVars, dispatcherVars, overdue, escapes, overtaken>>

\* Mutant: the class just above r's is forgotten.
HigherWaitingOffByOne(r) ==
    \E c \in Priorities : Rank[c] + 1 < Rank[class[r]] /\ queue[c] # <<>>

\* A strictly higher class than r's has something queued.
HigherWaiting(r) ==
    \E c \in Priorities : Outranks(c, class[r]) /\ queue[c] # <<>>

MustEscape(r) == r # watch.last /\ r \in overdue /\ HigherWaiting(r)

Decide ==
    /\ watch.pc = "snapped"
    /\ watch' = IF MustEscape(watch.info)
                THEN [watch EXCEPT !.pc = "fire"]
                ELSE [watch EXCEPT !.pc = "sleep", !.info = NoRequest]
    /\ UNCHANGED <<callerVars, queue, place, response, dispatcherVars, overdue,
                   escapes, overtaken>>

\* Mutant: last_cancelled is not recorded.
FireAgain ==
    /\ watch.pc = "fire"
    /\ escapes' = [escapes EXCEPT ![watch.info] = @ + 1]
    /\ watch' = [watch EXCEPT !.pc = "sleep", !.info = NoRequest]
    /\ UNCHANGED <<callerVars, queue, place, response, dispatcherVars, overdue,
                   overtaken>>

\* aiplane.cancel on the snapshot, which may have finished meanwhile.
Fire ==
    /\ watch.pc = "fire"
    /\ escapes' = [escapes EXCEPT ![watch.info] = @ + 1]
    /\ watch' = [pc |-> "sleep", info |-> NoRequest, last |-> watch.info]
    /\ UNCHANGED <<callerVars, queue, place, response, dispatcherVars, overdue,
                   overtaken>>

-----------------------------------------------------------------------------

Outcomes == {"Ok", "Failed"}

Dispatch ==
    \/ \E c \in Priorities : TryRecv(c)
    \/ Select
    \/ Start

Watchdog == Tick \/ Decide \/ Fire

Next ==
    \/ \E r \in Requests, c \in Priorities : Admit(r, c)
    \/ \E r \in Requests : Unblock(r)
    \/ \E r \in Requests : TripToken(r)
    \/ DropScheduler
    \/ Dispatch
    \/ \E o \in Outcomes : Finish(o)
    \/ Panic
    \/ \E r \in Requests : Elapse(r)
    \/ Watchdog

Spec == Init /\ [][Next]_vars

\* The two threads are scheduled, time passes and a parked send wakes up.
\* Nothing makes a backend call return: a property that needs it says so.
Fairness ==
    /\ WF_vars(Dispatch)
    /\ WF_vars(Watchdog)
    /\ \A r \in Requests : WF_vars(Unblock(r)) /\ WF_vars(Elapse(r))

FairSpec == Spec /\ Fairness

-----------------------------------------------------------------------------

Places == {"idle", "blocked", "queued", "taken", "done"}

Responses == {"none", "Ok", "Failed", "Cancelled", "Overloaded", "Gone",
              "Dropped"}

\* Type invariant; no channel holds more than its bound.
TypeOK ==
    /\ scheduler \in {"held", "dropped"}
    /\ queue \in [Priorities -> Seq(Requests)]
    /\ \A c \in Priorities : Len(queue[c]) <= Cap[c]
    /\ class \in [Requests -> Priorities]
    /\ place \in [Requests -> Places]
    /\ response \in [Requests -> Responses]
    /\ tripped \in SUBSET Requests
    /\ pc \in {"poll", "select", "pulled", "running", "exited"}
    /\ polled \in 1 .. 4
    /\ current \in Requests \union {NoRequest}
    /\ inflight \in Requests \union {NoRequest}
    /\ watch \in [pc : {"sleep", "snapped", "fire", "exited"},
                  info : Requests \union {NoRequest},
                  last : Requests \union {NoRequest}]
    /\ overdue \in SUBSET Requests
    /\ escapes \in [Requests -> Nat]
    /\ overtaken \in [Requests -> Nat]

\* A queued request is in the channel of its class, once; only queued
\* requests are in a channel.
QueuedOnce ==
    /\ \A c \in Priorities : \A i \in 1 .. Len(queue[c]) :
          place[queue[c][i]] = "queued" /\ class[queue[c][i]] = c
    /\ \A c \in Priorities : \A i, j \in 1 .. Len(queue[c]) :
          queue[c][i] = queue[c][j] => i = j
    /\ \A r \in Requests : place[r] = "queued" =>
          \E i \in 1 .. Len(queue[class[r]]) : queue[class[r]][i] = r

\* The dispatcher holds exactly the taken request.
TakenIsCurrent ==
    /\ \A r \in Requests : place[r] = "taken" <=> r = current
    /\ current # NoRequest <=> pc \in {"pulled", "running"}

\* No request is lost or answered twice, whatever the interleaving of
\* callers, dispatcher, watchdog, panic and shutdown: it is in one channel,
\* in the dispatcher's hands, with its caller, or answered (Request.respond
\* is consumed once, by run_one or by the drop of a channel).
RequestInOnePlace ==
    /\ QueuedOnce
    /\ TakenIsCurrent
    /\ \A r \in Requests : place[r] = "done" <=> response[r] # "none"

\* "Interactive sees the CPU between any two Background runs" (module
\* comment of scheduler.rs): while a request is queued, at most one request
\* of a lower class is pulled ahead of it, although a request may arrive
\* after its class was polled and select! picks at random.
OvertakenAtMostOnce ==
    \A r \in Requests : overtaken[r] <= 1

\* "Each inflight gets at most one cancel" (hard_escape_loop): also when the
\* snapshot is stale, and only a request that was dispatched gets one.
OneEscapePerRun ==
    \A r \in Requests :
        /\ escapes[r] <= 1
        /\ escapes[r] = 1 => place[r] \in {"taken", "done"}

\* As long as the backend's calls return, every admitted request is answered,
\* also across a dispatcher panic and a shutdown: no caller waits on its
\* oneshot, or in a parked send, forever.  Each request is sent once at most,
\* so a time comes when none waits.
Awaited(r) == place[r] \in {"blocked", "queued", "taken"}
AdmittedIsAnswered ==
    []<>(pc # "running") =>
        ((\E r \in Requests : Awaited(r)) ~> (\A r \in Requests : ~Awaited(r)))

\* A backend call that hangs is cancelled once it is overdue and a request
\* of a higher class is queued (cross-class hard escape).
OverdueRunIsEscaped ==
    \A r \in Requests :
        (inflight = r /\ pc = "running" /\ Passed(class[r]) # {})
            ~> (escapes[r] > 0 \/ inflight # r \/ pc = "exited")

\* The abstract stage of a request.
Stage(r) ==
    IF place[r] = "idle" THEN "new"
    ELSE IF place[r] = "done" THEN "answered"
    ELSE IF place[r] = "taken" /\ pc = "running" THEN "running"
    ELSE "pending"

Service == INSTANCE ComputeService WITH
    Submitted <- Requests,
    Results <- Outcomes,
    Refusals <- Responses \ (Outcomes \union {"none"}),
    stage <- [r \in Requests |-> Stage(r)],
    answer <- response

\* The scheduler with its channels, its two threads, a panic and a shutdown
\* implements the one-at-a-time service: two backend calls never overlap, a
\* request whose token was tripped in time never reaches the backend, and
\* no answer is replaced by another.
ImplementsService == Service!ServiceSpec
=============================================================================
