----------------------- MODULE WorkerSupervisorProofs -----------------------
(***************************************************************************)
(* Proofs about the supervisor of the AI plane's workers, for any number   *)
(* of processes, of calls and of cancels.                                  *)
(***************************************************************************)
EXTENDS WorkerSupervisor, TLAPS

\* While a spawn holds the mutex no child is managed; a free mutex has no
\* process.  So a living worker that is not left over is the only one.
RaiseInv ==
    /\ mutex.by = "none" => mutex = Free
    /\ mutex # Free => child = NoChild

\* Whoever serves has the socket path, as long as every worker bound in time.
PathInv ==
    unraised \subseteq {NoProc} =>
        \A p \in Procs : proc[p] = "serving" => file = p

SupInv == SupTypeOK /\ RaiseInv /\ OneWorkerPerKind /\ PathInv

-----------------------------------------------------------------------------
(* Types. *)

LEMMA TypeInit == SupInit => SupTypeOK
  BY DEF SupInit, SupTypeOK, Free, NoChild, NoId, SupPlaces, Living

\* An actor goes to a place where it may be.
LEMMA GotoIsTyped ==
    ASSUME SupTypeOK, NEW a \in Actors, NEW label \in SupPlaces, Goto(a, label)
    PROVE  at' \in [Actors -> SupPlaces]
  BY DEF Goto, SupTypeOK

\* A process dies under its callers.
LEMMA DiesIsTyped ==
    ASSUME SupTypeOK, NEW p \in Procs, NEW callers \in [Actors -> SupPlaces], Dies(p, callers)
    PROVE  /\ at' \in [Actors -> SupPlaces]
           /\ proc' \in [Procs -> {"unborn", "dead"} \union Living]
           /\ model' \in [Procs -> {"NotPrepared", "Loading", "Ready", "Failed"}]
           /\ running' \in [Procs -> SUBSET Calls]
           /\ slot' \in [Procs -> {NoId, "nil"}]
  BY DEF Dies, SupTypeOK, SupPlaces

LEMMA FreshIsUnborn ==
    ASSUME \E p \in Procs : proc[p] = "unborn"
    PROVE  FreshProc \in Procs /\ proc[FreshProc] = "unborn"
  BY DEF FreshProc

\* What ensure_spawned does to the actor that runs it, the processes, the
\* mutex and the child.
LEMMA RaiseIsTyped ==
    ASSUME SupTypeOK, NEW a \in Actors, Raise(a)
    PROVE  SupTypeOK'
  <1>1. Raised(a) \in SupPlaces /\ NotRaised(a) \in SupPlaces
    BY Zenon DEF Raised, NotRaised, SupPlaces
  <1>2. CASE EnsureSpawned(a)
    <2>1. CASE Alive(child.proc)
      <3>1. at' \in [Actors -> SupPlaces]
        BY <1>1, <1>2, <2>1, GotoIsTyped DEF EnsureSpawned
      <3> QED
        BY <1>2, <2>1, <3>1 DEF EnsureSpawned, SupTypeOK
    <2>2. CASE ~Alive(child.proc)
      <3>1. at' \in [Actors -> SupPlaces]
        BY <1>1, <1>2, <2>2, GotoIsTyped DEF EnsureSpawned, SupPlaces
      <3>2. child' \in [proc : Procs \union {NoProc}, attempts : Nat, backoff : BOOLEAN]
        <4>1. child' = NoChild
          BY <1>2, <2>2 DEF EnsureSpawned
        <4> QED
          BY <4>1 DEF NoChild
      <3>3. /\ proc' \in [Procs -> {"unborn", "dead"} \union Living]
            /\ mutex' \in [by : Actors \union {"none"}, proc : Procs \union {NoProc}]
        <4>1. CASE UNCHANGED <<mutex, proc>>
          BY <4>1 DEF SupTypeOK
        <4>2. CASE /\ \E p \in Procs : proc[p] = "unborn"
                   /\ proc' = [proc EXCEPT ![FreshProc] = "starting"]
                   /\ mutex' = [by |-> a, proc |-> FreshProc]
          <5>1. FreshProc \in Procs
            BY <4>2, FreshIsUnborn
          <5> QED
            BY <4>2, <5>1 DEF SupTypeOK, Living
        <4> QED
          BY <1>2, <2>2, <4>1, <4>2 DEF EnsureSpawned
      <3>4. unraised' \subseteq Procs \union {NoProc}
        BY <1>2, <2>2 DEF EnsureSpawned, SupTypeOK
      <3> QED
        BY <1>2, <3>1, <3>2, <3>3, <3>4 DEF EnsureSpawned, SupTypeOK
    <2> QED
      BY <2>1, <2>2
  <1>3. CASE SocketSeen(a)
    <2>1. at' \in [Actors -> SupPlaces]
      BY <1>1, <1>3, GotoIsTyped DEF SocketSeen
    <2>2. child' \in [proc : Procs \union {NoProc}, attempts : Nat, backoff : BOOLEAN]
      BY <1>3 DEF SocketSeen, NoChild, SupTypeOK
    <2> QED
      BY <1>3, <2>1, <2>2 DEF SocketSeen, SupTypeOK, Free, procVars
  <1>4. CASE SocketDeadline(a)
    <2>1. at' \in [Actors -> SupPlaces]
      BY <1>1, <1>4, GotoIsTyped DEF SocketDeadline
    <2> QED
      BY <1>4, <2>1 DEF SocketDeadline, SupTypeOK, Free, procVars
  <1> QED
    BY <1>2, <1>3, <1>4 DEF Raise

LEMMA RecordReadyIsTyped ==
    ASSUME SupTypeOK, NEW a \in Actors, NEW label \in SupPlaces, RecordReady(a, label)
    PROVE  SupTypeOK'
  <1>1. at' \in [Actors -> SupPlaces]
    BY GotoIsTyped DEF RecordReady
  <1>2. child' \in [proc : Procs \union {NoProc}, attempts : Nat, backoff : BOOLEAN]
    BY DEF RecordReady, SupTypeOK
  <1> QED
    BY <1>1, <1>2 DEF RecordReady, SupTypeOK, procVars

\* A step that only moves its actor.
LEMMA OnlyPcIsTyped ==
    ASSUME SupTypeOK, NEW a \in Actors, NEW label \in SupPlaces, Goto(a, label), OnlyPc
    PROVE  SupTypeOK'
  <1>1. at' \in [Actors -> SupPlaces]
    BY GotoIsTyped
  <1> QED
    BY <1>1 DEF OnlyPc, SupTypeOK, procVars

LEMMA TypeStep ==
    ASSUME SupTypeOK, [SupNext]_supVars
    PROVE  SupTypeOK'
  <1>1. ASSUME NEW p \in Procs, WorkerStep(p) \/ Crash(p) \/ Hang(p) PROVE SupTypeOK'
    <2>1. CASE Bind(p) \/ Hang(p)
      BY <2>1 DEF Bind, Hang, SupTypeOK, Living
    <2>2. CASE Load(p)
      BY <2>2 DEF Load, SupTypeOK
    <2>3. CASE Crash(p) \/ Exit(p)
      <3>1. Dies(p, at) /\ at \in [Actors -> SupPlaces]
        BY <2>3 DEF Crash, Exit, SupTypeOK
      <3> QED
        BY <2>3, <3>1, DiesIsTyped DEF Crash, Exit, SupTypeOK
    <2> QED
      BY <1>1, <2>1, <2>2, <2>3 DEF WorkerStep
  <1>2. ASSUME NEW p \in Procs, NEW c \in Calls, RunEnds(p, c) PROVE SupTypeOK'
    <2>1. at' \in [Actors -> SupPlaces]
      BY <1>2 DEF RunEnds, SupTypeOK, SupPlaces
    <2>2. running' \in [Procs -> SUBSET Calls] /\ slot' \in [Procs -> {NoId, "nil"}]
      BY <1>2 DEF RunEnds, SupTypeOK
    <2> QED
      BY <1>2, <2>1, <2>2 DEF RunEnds, SupTypeOK
  <1>3. ASSUME NEW c \in Calls, RunBatch(c) \/ CallStep(c) PROVE SupTypeOK'
    <2>0. c \in Actors
      BY DEF Actors
    <2>1. CASE Raise(c)
      BY <2>0, <2>1, RaiseIsTyped
    <2>2. CASE RunBatch(c) \/ Probe(c) \/ ReadyDeadline(c) \/ RunBatchTimeout(c)
      <3>1. PICK label \in SupPlaces : Goto(c, label) /\ OnlyPc
        BY <2>2 DEF RunBatch, Probe, ReadyDeadline, RunBatchTimeout, SupPlaces
      <3> QED
        BY <2>0, <3>1, OnlyPcIsTyped
    <2>3. CASE RecordCallReady(c)
      BY <2>0, <2>3, RecordReadyIsTyped DEF RecordCallReady, SupPlaces
    <2>4. CASE SendRunBatch(c)
      <3>1. at' \in [Actors -> SupPlaces]
        BY <2>0, <2>4, GotoIsTyped DEF SendRunBatch, SupPlaces
      <3>2. running' \in [Procs -> SUBSET Calls] /\ slot' \in [Procs -> {NoId, "nil"}]
        BY <2>4 DEF SendRunBatch, SupTypeOK, WireId
      <3> QED
        BY <2>4, <3>1, <3>2 DEF SendRunBatch, SupTypeOK
    <2> QED
      BY <1>3, <2>1, <2>2, <2>3, <2>4 DEF CallStep
  <1>4. ASSUME NEW x \in Cancels, NEW c \in Calls, Cancel(x, c) PROVE SupTypeOK'
    <2>1. x \in Actors
      BY DEF Actors
    <2>2. at' \in [Actors -> SupPlaces]
      BY <1>4, <2>1, GotoIsTyped DEF Cancel, SupPlaces
    <2>3. target' \in [Cancels -> Calls \union {NoCall}]
      BY <1>4 DEF Cancel, SupTypeOK
    <2> QED
      BY <1>4, <2>2, <2>3 DEF Cancel, SupTypeOK, procVars
  <1>5. ASSUME NEW x \in Cancels, CancelStep(x) PROVE SupTypeOK'
    <2>0. x \in Actors
      BY DEF Actors
    <2>1. CASE Raise(x)
      BY <2>0, <2>1, RaiseIsTyped
    <2>2. CASE SeeYielded(x) \/ GiveUpYield(x)
      <3>1. PICK label \in SupPlaces : Goto(x, label) /\ OnlyPc
        BY <2>2 DEF SeeYielded, GiveUpYield, SupPlaces
      <3> QED
        BY <2>0, <3>1, OnlyPcIsTyped
    <2>3. CASE RecordYielded(x)
      BY <2>0, <2>3, RecordReadyIsTyped, OnlyPcIsTyped DEF RecordYielded, SupPlaces
    <2>4. CASE EscalateToKill(x)
      <3>1. [at EXCEPT ![x] = "raise"] \in [Actors -> SupPlaces]
        BY DEF SupTypeOK, SupPlaces
      <3>2. CASE Alive(child.proc)
        <4>1. child.proc \in Procs /\ Dies(child.proc, [at EXCEPT ![x] = "raise"])
          BY <2>4, <3>2 DEF EscalateToKill, Alive, SupTypeOK
        <4> QED
          BY <2>4, <3>1, <4>1, DiesIsTyped DEF EscalateToKill, SupTypeOK
      <3>3. CASE ~Alive(child.proc)
        BY <2>4, <3>1, <3>3 DEF EscalateToKill, Goto, SupTypeOK, procVars
      <3> QED
        BY <3>2, <3>3
    <2> QED
      BY <1>5, <2>1, <2>2, <2>3, <2>4 DEF CancelStep
  <1>6. CASE PollerStep
    <2>0. "poller" \in Actors
      BY DEF Actors
    <2>1. CASE Raise("poller")
      BY <2>0, <2>1, RaiseIsTyped
    <2>2. CASE PollOnce \/ PollProbe
      <3>1. PICK label \in SupPlaces : Goto("poller", label) /\ OnlyPc
        BY <2>2 DEF PollOnce, PollProbe, SupPlaces
      <3> QED
        BY <2>0, <3>1, OnlyPcIsTyped
    <2>3. CASE PollRecord
      BY <2>0, <2>3, RecordReadyIsTyped DEF PollRecord, SupPlaces
    <2>4. CASE Reap
      <3>1. at' \in [Actors -> SupPlaces]
        BY <2>0, <2>4, GotoIsTyped DEF Reap, SupPlaces
      <3>2. child' \in [proc : Procs \union {NoProc}, attempts : Nat, backoff : BOOLEAN]
        <4>1. child' = child \/ child' = [child EXCEPT !.attempts = @ + 1, !.backoff = TRUE]
          BY <2>4 DEF Reap
        <4>2. CASE child' = child
          BY <4>2 DEF SupTypeOK
        <4>3. CASE child' = [child EXCEPT !.attempts = @ + 1, !.backoff = TRUE]
          <5>1. /\ child \in [proc : Procs \union {NoProc}, attempts : Nat, backoff : BOOLEAN]
                /\ child.attempts \in Nat /\ child.attempts + 1 \in Nat
            BY DEF SupTypeOK
          <5> QED
            BY <4>3, <5>1
        <4> QED
          BY <4>1, <4>2, <4>3
      <3> QED
        BY <2>4, <3>1, <3>2 DEF Reap, SupTypeOK, procVars
    <2> QED
      BY <1>6, <2>1, <2>2, <2>3, <2>4 DEF PollerStep
  <1>7. CASE BackoffElapses
    <2>1. child' \in [proc : Procs \union {NoProc}, attempts : Nat, backoff : BOOLEAN]
      BY <1>7 DEF BackoffElapses, SupTypeOK
    <2> QED
      BY <1>7, <2>1 DEF BackoffElapses, SupTypeOK, procVars
  <1>8. CASE Stop \/ StopStep
    <2>0. "stop" \in Actors
      BY DEF Actors
    <2>1. CASE Stop \/ AllExited
      <3>1. PICK label \in SupPlaces : Goto("stop", label) /\ OnlyPc
        BY <2>1 DEF Stop, AllExited, SupPlaces
      <3> QED
        BY <2>0, <3>1, OnlyPcIsTyped
    <2>2. CASE Shutdown
      <3>1. at' \in [Actors -> SupPlaces]
        BY <2>0, <2>2, GotoIsTyped DEF Shutdown, SupPlaces
      <3>2. proc' \in [Procs -> {"unborn", "dead"} \union Living]
        BY <2>2 DEF Shutdown, SupTypeOK, Living
      <3> QED
        BY <2>2, <3>1, <3>2 DEF Shutdown, SupTypeOK
    <2>3. CASE ShutdownDeadline
      <3>1. [at EXCEPT !["stop"] = "done"] \in [Actors -> SupPlaces]
        BY DEF SupTypeOK, SupPlaces
      <3>2. child.proc \in Procs /\ Dies(child.proc, [at EXCEPT !["stop"] = "done"])
        BY <2>3 DEF ShutdownDeadline, Alive, SupTypeOK
      <3> QED
        BY <2>3, <3>1, <3>2, DiesIsTyped DEF ShutdownDeadline, SupTypeOK
    <2> QED
      BY <1>8, <2>1, <2>2, <2>3 DEF StopStep
  <1>9. CASE UNCHANGED supVars
    BY <1>9 DEF supVars, procVars, SupTypeOK
  <1> QED
    BY <1>1, <1>2, <1>3, <1>4, <1>5, <1>6, <1>7, <1>8, <1>9 DEF SupNext

-----------------------------------------------------------------------------
(* The worker that is raised under the mutex, or managed, is the only one. *)

\* What keeps the mutex, the child's process and the leftovers, and brings no
\* process to life.
LEMMA WorkersKept ==
    ASSUME SupTypeOK, RaiseInv, OneWorkerPerKind,
           mutex' = mutex, child'.proc = child.proc, unraised' = unraised,
           child' = child \/ mutex = Free,
           \A p \in Procs : Alive(p)' => Alive(p)
    PROVE  RaiseInv' /\ OneWorkerPerKind'
  BY DEF RaiseInv, OneWorkerPerKind, Free

\* The living do not come back, and a process lives on in its next stage.
LEMMA DiesKills ==
    ASSUME SupTypeOK, NEW p \in Procs, NEW callers, Dies(p, callers)
    PROVE  /\ \A q \in Procs : Alive(q)' => Alive(q)
           /\ \A q \in Procs : proc'[q] = "serving" => proc[q] = "serving" /\ q # p
           /\ ~Alive(p)'
  BY DEF Dies, SupTypeOK, Alive, Living

\* Two living workers are one, if no worker was left over.
LEMMA TheLivingIsOne ==
    ASSUME SupTypeOK, RaiseInv, OneWorkerPerKind, unraised \subseteq {NoProc},
           NEW p \in Procs, NEW q \in Procs, Alive(p), Alive(q)
    PROVE  p = q
  <1>1. p # NoProc /\ q # NoProc
    BY NoProcAssumption
  <1>2. p \in {child.proc, mutex.proc} /\ q \in {child.proc, mutex.proc}
    BY <1>1 DEF OneWorkerPerKind
  <1>3. child.proc = NoProc \/ mutex.proc = NoProc
    BY DEF RaiseInv, Free, NoChild
  <1> QED
    BY <1>1, <1>2, <1>3

LEMMA RaiseKeeps ==
    ASSUME SupInv, NEW a \in Actors, Raise(a)
    PROVE  RaiseInv' /\ OneWorkerPerKind' /\ PathInv'
  <1>0. a # "none"
    BY NobodyIsNone
  <1>1. CASE EnsureSpawned(a) /\ Alive(child.proc)
    BY <1>1 DEF EnsureSpawned, SupInv, RaiseInv, OneWorkerPerKind, PathInv, Alive
  <1>2. CASE EnsureSpawned(a) /\ ~Alive(child.proc)
    <2>1. mutex = Free /\ child' = NoChild /\ file' = file
      BY <1>2 DEF EnsureSpawned
    <2>2. \A p \in Procs : Alive(p) => p \in unraised
      BY <1>2, <2>1 DEF SupInv, OneWorkerPerKind, Free, Alive
    <2>3. CASE /\ unraised' = unraised \union {NoProc} /\ UNCHANGED <<mutex, proc>>
      <3>1. RaiseInv'
        BY <2>1, <2>3 DEF RaiseInv
      <3>2. OneWorkerPerKind'
        BY <2>2, <2>3 DEF OneWorkerPerKind, Alive
      <3>3. PathInv'
        BY <2>1, <2>3 DEF SupInv, PathInv
      <3> QED
        BY <3>1, <3>2, <3>3
    <2>4. CASE /\ \E p \in Procs : proc[p] = "unborn"
               /\ proc' = [proc EXCEPT ![FreshProc] = "starting"]
               /\ mutex' = [by |-> a, proc |-> FreshProc] /\ UNCHANGED unraised
      <3>1. FreshProc \in Procs
        BY <2>4, FreshIsUnborn
      <3>2. mutex'.by = a /\ mutex'.proc = FreshProc
        BY <2>4
      <3>3. RaiseInv'
        BY <1>0, <2>1, <3>2 DEF RaiseInv
      <3>4. \A p \in Procs : proc'[p] = IF p = FreshProc THEN "starting" ELSE proc[p]
        BY <2>4, <3>1 DEF SupInv, SupTypeOK
      <3>5. OneWorkerPerKind'
        BY <2>2, <2>4, <3>2, <3>4 DEF OneWorkerPerKind, Alive
      <3>6. PathInv'
        BY <2>1, <2>4, <3>4 DEF SupInv, PathInv
      <3> QED
        BY <3>3, <3>5, <3>6
    <2> QED
      BY <1>2, <2>3, <2>4 DEF EnsureSpawned
  <1>3. CASE SocketSeen(a)
    <2>1. /\ mutex # Free /\ child = NoChild /\ mutex' = Free /\ child'.proc = mutex.proc
          /\ proc' = proc /\ file' = file /\ unraised' = unraised
      BY <1>0, <1>3 DEF SocketSeen, SupInv, RaiseInv, Free, NoChild, procVars
    <2>2. RaiseInv'
      BY <2>1 DEF RaiseInv
    <2>3. OneWorkerPerKind'
      BY <2>1 DEF SupInv, OneWorkerPerKind, NoChild, Free, Alive
    <2>4. PathInv'
      BY <2>1 DEF SupInv, PathInv
    <2> QED
      BY <2>2, <2>3, <2>4
  <1>4. CASE SocketDeadline(a)
    <2>1. /\ mutex' = Free /\ child' = child /\ unraised' = unraised \union {mutex.proc}
          /\ proc' = proc /\ file' = file
      BY <1>4 DEF SocketDeadline, procVars
    <2>2. RaiseInv'
      BY <2>1 DEF RaiseInv
    <2>3. OneWorkerPerKind'
      BY <2>1 DEF SupInv, OneWorkerPerKind, Alive
    <2>4. PathInv'
      BY <2>1 DEF SupInv, PathInv
    <2> QED
      BY <2>2, <2>3, <2>4
  <1> QED
    BY <1>1, <1>2, <1>3, <1>4 DEF Raise

LEMMA SupStep ==
    ASSUME SupInv, [SupNext]_supVars
    PROVE  SupInv'
  <1>0. SupTypeOK /\ RaiseInv /\ OneWorkerPerKind /\ PathInv /\ SupTypeOK'
    BY TypeStep DEF SupInv
  <1>1. ASSUME NEW a \in Actors, Raise(a) PROVE SupInv'
    BY <1>0, <1>1, RaiseKeeps DEF SupInv
  <1>2. ASSUME mutex' = mutex, child'.proc = child.proc, unraised' = unraised,
               child' = child \/ mutex = Free, file' = file,
               \A p \in Procs : Alive(p)' => Alive(p),
               \A p \in Procs : proc'[p] = "serving" => proc[p] = "serving"
        PROVE  SupInv'
    <2>1. PathInv'
      BY <1>0, <1>2 DEF PathInv
    <2> QED
      BY <1>0, <1>2, <2>1, WorkersKept DEF SupInv
  <1>3. ASSUME NEW p \in Procs, WorkerStep(p) \/ Crash(p) \/ Hang(p) PROVE SupInv'
    <2>1. CASE Bind(p)
      <3>1. /\ mutex' = mutex /\ child' = child /\ unraised' = unraised /\ file' = p
            /\ \A q \in Procs : proc'[q] = IF q = p THEN "serving" ELSE proc[q]
            /\ proc[p] = "starting"
        BY <1>0, <2>1 DEF Bind, SupTypeOK
      <3>2. \A q \in Procs : Alive(q)' => Alive(q)
        BY <3>1 DEF Alive, Living
      <3>3. PathInv'
        <4>1. ASSUME unraised \subseteq {NoProc}, NEW q \in Procs, proc'[q] = "serving", q # p
              PROVE  FALSE
          <5>1. Alive(p) /\ Alive(q)
            BY <3>1, <4>1, NoProcAssumption DEF Alive, Living
          <5> QED
            BY <1>0, <4>1, <5>1, TheLivingIsOne
        <4> QED
          BY <3>1, <4>1 DEF PathInv
      <3> QED
        BY <1>0, <3>1, <3>2, <3>3, WorkersKept DEF SupInv
    <2>2. CASE Load(p) \/ Hang(p)
      <3>1. /\ mutex' = mutex /\ child' = child /\ unraised' = unraised /\ file' = file
            /\ proc' = proc \/ \A q \in Procs : proc'[q] = IF q = p THEN "hung" ELSE proc[q]
            /\ proc[p] \in {"starting", "serving"}
        BY <1>0, <2>2 DEF Load, Hang, SupTypeOK
      <3>2. \A q \in Procs : Alive(q)' => Alive(q)
        BY <3>1 DEF Alive, Living
      <3> QED
        BY <1>2, <3>1, <3>2
    <2>3. CASE Crash(p)
      <3>1. /\ mutex' = mutex /\ child' = child /\ unraised' = unraised /\ file' = file
            /\ Dies(p, at)
        BY <2>3 DEF Crash
      <3> QED
        BY <1>0, <1>2, <3>1, DiesKills
    <2>4. CASE Exit(p)
      <3>1. /\ mutex' = mutex /\ child' = child /\ unraised' = unraised /\ Dies(p, at)
            /\ proc[p] = "leaving"
        BY <2>4 DEF Exit
      <3>2. PathInv'
        <4>1. ASSUME unraised \subseteq {NoProc}, NEW q \in Procs, proc'[q] = "serving"
              PROVE  FALSE
          <5>1. proc[q] = "serving" /\ q # p
            BY <1>0, <3>1, <4>1, DiesKills
          <5>2. Alive(p) /\ Alive(q)
            BY <3>1, <5>1, NoProcAssumption DEF Alive, Living
          <5> QED
            BY <1>0, <4>1, <5>1, <5>2, TheLivingIsOne
        <4> QED
          BY <3>1, <4>1 DEF PathInv
      <3> QED
        BY <1>0, <3>1, <3>2, DiesKills, WorkersKept DEF SupInv
    <2> QED
      BY <1>3, <2>1, <2>2, <2>3, <2>4 DEF WorkerStep
  <1>4. ASSUME OnlyPc PROVE SupInv'
    BY <1>2, <1>4 DEF OnlyPc, procVars, Alive
  <1>5. ASSUME NEW p \in Procs, NEW c \in Calls, RunEnds(p, c) PROVE SupInv'
    BY <1>2, <1>5 DEF RunEnds, Alive
  <1>6. ASSUME NEW a, NEW label, RecordReady(a, label) PROVE SupInv'
    <2>1. child'.proc = child.proc /\ mutex = Free
      BY <1>0, <1>6 DEF RecordReady, SupTypeOK
    <2> QED
      BY <1>2, <1>6, <2>1 DEF RecordReady, procVars, Alive
  <1>7. ASSUME NEW c \in Calls, RunBatch(c) \/ CallStep(c) PROVE SupInv'
    <2>1. CASE Raise(c)
      BY <1>1, <2>1 DEF Actors
    <2>2. CASE RunBatch(c) \/ Probe(c) \/ ReadyDeadline(c) \/ RunBatchTimeout(c)
      BY <1>4, <2>2 DEF RunBatch, Probe, ReadyDeadline, RunBatchTimeout
    <2>3. CASE RecordCallReady(c)
      BY <1>6, <2>3 DEF RecordCallReady
    <2>4. CASE SendRunBatch(c)
      BY <1>2, <2>4 DEF SendRunBatch, Alive
    <2> QED
      BY <1>7, <2>1, <2>2, <2>3, <2>4 DEF CallStep
  <1>8. ASSUME NEW x \in Cancels, NEW c \in Calls, Cancel(x, c) PROVE SupInv'
    BY <1>2, <1>8 DEF Cancel, procVars, Alive
  <1>9. ASSUME NEW x \in Cancels, CancelStep(x) PROVE SupInv'
    <2>1. CASE Raise(x)
      BY <1>1, <2>1 DEF Actors
    <2>2. CASE SeeYielded(x) \/ GiveUpYield(x)
      BY <1>4, <2>2 DEF SeeYielded, GiveUpYield
    <2>3. CASE RecordYielded(x)
      BY <1>4, <1>6, <2>3 DEF RecordYielded
    <2>4. CASE EscalateToKill(x)
      <3>1. mutex' = mutex /\ child' = child /\ unraised' = unraised /\ file' = file
        BY <2>4 DEF EscalateToKill
      <3>2. CASE Alive(child.proc)
        <4>1. child.proc \in Procs /\ Dies(child.proc, [at EXCEPT ![x] = "raise"])
          BY <1>0, <2>4, <3>2 DEF EscalateToKill, Alive, SupTypeOK
        <4> QED
          BY <1>0, <1>2, <3>1, <4>1, DiesKills
      <3>3. CASE ~Alive(child.proc)
        BY <1>2, <2>4, <3>1, <3>3 DEF EscalateToKill, procVars, Alive
      <3> QED
        BY <3>2, <3>3
    <2> QED
      BY <1>9, <2>1, <2>2, <2>3, <2>4 DEF CancelStep
  <1>10. CASE PollerStep
    <2>1. CASE Raise("poller")
      BY <1>1, <2>1 DEF Actors
    <2>2. CASE PollOnce \/ PollProbe
      BY <1>4, <2>2 DEF PollOnce, PollProbe
    <2>3. CASE PollRecord
      BY <1>6, <2>3 DEF PollRecord
    <2>4. CASE Reap
      <3>1. child'.proc = child.proc
        BY <1>0, <2>4 DEF Reap, SupTypeOK
      <3> QED
        BY <1>2, <2>4, <3>1 DEF Reap, procVars, Alive
    <2> QED
      BY <1>10, <2>1, <2>2, <2>3, <2>4 DEF PollerStep
  <1>11. CASE BackoffElapses
    <2>1. child'.proc = child.proc
      BY <1>0, <1>11 DEF BackoffElapses, SupTypeOK
    <2>2. mutex = Free
      BY <1>0, <1>11 DEF BackoffElapses, RaiseInv, NoChild
    <2> QED
      BY <1>2, <1>11, <2>1, <2>2 DEF BackoffElapses, procVars, Alive
  <1>12. CASE Stop \/ StopStep
    <2>1. CASE Stop \/ AllExited
      BY <1>4, <2>1 DEF Stop, AllExited
    <2>2. CASE Shutdown
      <3>1. \A q \in Procs : Alive(q)' => Alive(q)
        BY <1>0, <2>2, NoProcAssumption DEF Shutdown, Reachable, SupTypeOK, Alive, Living
      <3>2. \A q \in Procs : proc'[q] = "serving" => proc[q] = "serving"
        BY <1>0, <2>2 DEF Shutdown, SupTypeOK
      <3> QED
        BY <1>2, <2>2, <3>1, <3>2 DEF Shutdown
    <2>3. CASE ShutdownDeadline
      <3>1. mutex' = mutex /\ child' = child /\ unraised' = unraised /\ file' = file
        BY <2>3 DEF ShutdownDeadline
      <3>2. child.proc \in Procs /\ Dies(child.proc, [at EXCEPT !["stop"] = "done"])
        BY <1>0, <2>3 DEF ShutdownDeadline, Alive, SupTypeOK
      <3> QED
        BY <1>0, <1>2, <3>1, <3>2, DiesKills
    <2> QED
      BY <1>12, <2>1, <2>2, <2>3 DEF StopStep
  <1>13. CASE UNCHANGED supVars
    BY <1>2, <1>13 DEF supVars, procVars, Alive
  <1> QED
    BY <1>1, <1>3, <1>5, <1>7, <1>8, <1>9, <1>10, <1>11, <1>12, <1>13 DEF SupNext

LEMMA SupInitInv == SupInit => SupInv
  <1> SUFFICES ASSUME SupInit PROVE SupInv
    OBVIOUS
  <1>1. RaiseInv
    BY DEF SupInit, RaiseInv, Free
  <1>2. OneWorkerPerKind /\ PathInv
    BY DEF SupInit, OneWorkerPerKind, PathInv, Alive, Living
  <1> QED
    BY <1>1, <1>2, TypeInit DEF SupInv

\* The supervisor's state is well-typed: a process is only spawned, killed or
\* told to leave that exists.
THEOREM SupTypeCorrect == SupSpec => []SupTypeOK
  <1>1. SupInv => SupTypeOK
    BY DEF SupInv
  <1> QED
    BY <1>1, SupInitInv, SupStep, PTL DEF SupSpec

\* One worker per kind: run_batch, cancel, the poller and the shutdown never
\* bring two workers to life, unless one missed its bind deadline.
THEOREM OneWorker == SupSpec => []OneWorkerPerKind
  <1>1. SupInv => OneWorkerPerKind
    BY DEF SupInv
  <1> QED
    BY <1>1, SupInitInv, SupStep, PTL DEF SupSpec

\* Nobody unlinks or takes over the socket path of a serving child, if every
\* worker bound in time.
THEOREM ServingIsReachable == SupSpec => []ServingChildIsReachable
  <1>1. SupInv => ServingChildIsReachable
    BY DEF SupInv, PathInv, ServingChildIsReachable, Alive, SupTypeOK
  <1> QED
    BY <1>1, SupInitInv, SupStep, PTL DEF SupSpec
=============================================================================
