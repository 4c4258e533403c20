--------------------------- MODULE ProcessProofs ----------------------------
(***************************************************************************)
(* What is proved, for every value of the constants, about processes and   *)
(* what they share: the AI plane's worker process with its threads         *)
(* (AiplaneWorker), the supervisor of a plugin process (PluginProc), and   *)
(* the commands on the stack of artifacts, which share files (StackStore). *)
(***************************************************************************)
EXTENDS AiplaneWorker, PluginProc, StackStore, FiniteSetTheorems, TLAPS

-----------------------------------------------------------------------------
(* The worker process. *)

IsPending(r) == stage[r] \in Pending

\* Runs that are in the worker at the same time have overlapped; the slot is
\* of a run that is under way; when a Cancel has matched, whoever is in the
\* worker was asked for or has overlapped, and so has the run in the session
\* when the flag is up.
AbortInv ==
    /\ \A r, q \in Runs : IsPending(r) /\ IsPending(q) /\ r # q => r \in overlapped
    /\ \A r \in Runs : slot = r => stage[r] \in InProgress
    /\ loop = "matched" => \A r \in Runs : IsPending(r) => r \in asked \union overlapped
    /\ terminate => \A r \in Runs : session = r => r \in asked \union overlapped

WorkerInv == WorkerTypeOK /\ AbortInv /\ OnlyTheTargetIsAborted

LEMMA WorkerTypeStep ==
    ASSUME WorkerTypeOK, [WorkerNext]_workerVars
    PROVE  WorkerTypeOK'
  <1>1. CASE StartLoading \/ FinishLoading \/ TryCancel \/ RecvShutdown
    BY <1>1 DEF StartLoading, FinishLoading, TryCancel, RecvShutdown, WorkerTypeOK
  <1>2. ASSUME NEW r \in Runs, RecvRunBatch(r) \/ RecvCancel(r) PROVE WorkerTypeOK'
    BY <1>2 DEF RecvRunBatch, RecvCancel, WorkerTypeOK, Stages, Pending
  <1>3. CASE WorkerExit
    BY <1>3 DEF WorkerExit, WorkerTypeOK, Stages
  <1>4. ASSUME NEW r \in Runs, RunThread(r) PROVE WorkerTypeOK'
    <2>1. CASE Mark(r) \/ Refuse(r) \/ Clear(r) \/ Reply(r)
      BY <2>1 DEF Mark, Refuse, Clear, Reply, WorkerTypeOK, Stages, Pending, InProgress
    <2>2. CASE EnterSession(r)
      BY <2>2 DEF EnterSession, WorkerTypeOK, Stages, Pending, InProgress
    <2>3. CASE LeaveSession(r)
      BY <2>3 DEF LeaveSession, WorkerTypeOK, Stages, Pending, InProgress
    <2> QED
      BY <1>4, <2>1, <2>2, <2>3 DEF RunThread
  <1>5. CASE UNCHANGED workerVars
    BY <1>5 DEF workerVars, WorkerTypeOK
  <1> QED
    BY <1>1, <1>2, <1>3, <1>4, <1>5 DEF WorkerNext

LEMMA AbortStep ==
    ASSUME WorkerInv, [WorkerNext]_workerVars
    PROVE  AbortInv' /\ OnlyTheTargetIsAborted'
  <1>0. WorkerTypeOK /\ AbortInv /\ OnlyTheTargetIsAborted /\ NoRun \notin Runs
    BY NoRunAssumption DEF WorkerInv
  <1>1. CASE StartLoading \/ FinishLoading \/ RecvShutdown
    BY <1>0, <1>1 DEF StartLoading, FinishLoading, RecvShutdown, AbortInv, IsPending,
                      OnlyTheTargetIsAborted
  <1>2. ASSUME NEW r \in Runs, RecvRunBatch(r) PROVE AbortInv' /\ OnlyTheTargetIsAborted'
    <2>1. \A q \in Runs : stage'[q] = IF q = r THEN "spawned" ELSE stage[q]
      BY <1>0, <1>2 DEF RecvRunBatch, WorkerTypeOK
    <2>2. /\ loop = "recv" /\ loop' = loop /\ stage[r] = "idle" /\ slot' = slot
          /\ session' = session /\ terminate' = terminate /\ asked' = asked /\ result' = result
          /\ overlapped \subseteq overlapped'
      BY <1>2 DEF RecvRunBatch
    <2>3. ASSUME NEW q \in Runs, IsPending(q) PROVE q \in overlapped' /\ r \in overlapped'
      BY <1>2, <2>3 DEF RecvRunBatch, IsPending
    <2>4. \A q \in Runs : IsPending(q)' => q = r \/ IsPending(q)
      BY <2>1 DEF IsPending
    <2>5. AbortInv'
      <3>1. ASSUME NEW p \in Runs, NEW q \in Runs, IsPending(p)', IsPending(q)', p # q
            PROVE  p \in overlapped'
        BY <1>0, <2>2, <2>3, <2>4, <3>1 DEF AbortInv
      <3>2. \A q \in Runs : slot' = q => stage'[q] \in InProgress
        BY <1>0, <2>1, <2>2 DEF AbortInv, InProgress
      <3> QED
        BY <1>0, <2>2, <3>1, <3>2 DEF AbortInv
    <2> QED
      BY <1>0, <2>2, <2>5 DEF OnlyTheTargetIsAborted
  <1>3. ASSUME NEW r \in Runs, RecvCancel(r) PROVE AbortInv' /\ OnlyTheTargetIsAborted'
    <2>1. /\ stage' = stage /\ result' = result /\ slot' = slot /\ session' = session
          /\ terminate' = terminate /\ overlapped' = overlapped /\ asked' = asked \union {r}
          /\ loop' = "matched" => slot = r
      BY <1>3 DEF RecvCancel
    <2>2. ASSUME loop' = "matched", NEW q \in Runs, IsPending(q)
          PROVE  q \in asked' \union overlapped'
      <3>1. IsPending(r)
        BY <1>0, <2>1, <2>2 DEF AbortInv, IsPending, Pending
      <3> QED
        BY <1>0, <2>1, <2>2, <3>1 DEF AbortInv
    <2> QED
      BY <1>0, <2>1, <2>2 DEF AbortInv, IsPending, OnlyTheTargetIsAborted
  <1>4. CASE TryCancel
    <2>1. \A r \in Runs : session = r => r \in asked \union overlapped
      BY <1>0, <1>4 DEF TryCancel, AbortInv, IsPending, WorkerTypeOK, Pending, InProgress
    <2> QED
      BY <1>0, <1>4, <2>1 DEF TryCancel, AbortInv, IsPending, OnlyTheTargetIsAborted
  <1>5. CASE WorkerExit
    <2>1. \A r \in Runs : ~IsPending(r)'
      BY <1>0, <1>5 DEF WorkerExit, IsPending, Pending, InProgress, WorkerTypeOK
    <2> QED
      BY <1>0, <1>5, <2>1 DEF WorkerExit, AbortInv, OnlyTheTargetIsAborted
  <1>6. ASSUME NEW r \in Runs, RunThread(r) PROVE AbortInv' /\ OnlyTheTargetIsAborted'
    <2>1. /\ asked' = asked /\ overlapped' = overlapped /\ loop' = loop
          /\ IsPending(r) \/ session = r
          /\ \A q \in Runs : q # r => stage'[q] = stage[q] /\ result'[q] = result[q]
      BY <1>0, <1>6 DEF RunThread, Mark, Refuse, EnterSession, LeaveSession, Clear, Reply,
                        WorkerTypeOK, IsPending, Pending, InProgress
    <2>2. IsPending(r)
      BY <1>0, <2>1 DEF WorkerTypeOK, IsPending, Pending, InProgress
    <2>3. \A q \in Runs : IsPending(q)' => IsPending(q)
      BY <2>1, <2>2 DEF IsPending
    <2>4. \A q \in Runs : slot' = q => stage'[q] \in InProgress
      <3>1. CASE Mark(r) \/ Clear(r)
        BY <1>0, <3>1 DEF Mark, Clear, WorkerTypeOK, InProgress
      <3>2. CASE Reply(r)
        BY <1>0, <3>2 DEF Reply, AbortInv, WorkerTypeOK, InProgress
      <3>3. CASE Refuse(r) \/ EnterSession(r) \/ LeaveSession(r)
        BY <1>0, <3>3 DEF Refuse, EnterSession, LeaveSession, AbortInv, WorkerTypeOK, InProgress
      <3> QED
        BY <1>6, <3>1, <3>2, <3>3 DEF RunThread
    <2>5. terminate' => \A q \in Runs : session' = q => q \in asked \union overlapped
      BY <1>0, <1>6 DEF RunThread, Mark, Refuse, EnterSession, LeaveSession, Clear, Reply,
                        AbortInv
    <2>6. result'[r] = "Aborted" => r \in asked \union overlapped
      BY <1>0, <1>6 DEF RunThread, Mark, Refuse, EnterSession, LeaveSession, Clear, Reply,
                        AbortInv, WorkerTypeOK, OnlyTheTargetIsAborted
    <2>7. OnlyTheTargetIsAborted'
      BY <1>0, <2>1, <2>6 DEF OnlyTheTargetIsAborted
    <2> QED
      BY <1>0, <2>1, <2>3, <2>4, <2>5, <2>7 DEF AbortInv
  <1>7. CASE UNCHANGED workerVars
    BY <1>0, <1>7 DEF workerVars, AbortInv, IsPending, OnlyTheTargetIsAborted
  <1> QED
    BY <1>1, <1>2, <1>3, <1>4, <1>5, <1>6, <1>7 DEF WorkerNext

LEMMA WorkerInvariance == WorkerSpec => []WorkerInv
  <1>1. WorkerInit => WorkerInv
    BY NoRunAssumption DEF WorkerInit, WorkerInv, WorkerTypeOK, AbortInv, IsPending, Pending,
       InProgress, Stages, OnlyTheTargetIsAborted
  <1>2. WorkerInv /\ [WorkerNext]_workerVars => WorkerInv'
    BY WorkerTypeStep, AbortStep DEF WorkerInv
  <1> QED
    BY <1>1, <1>2, PTL DEF WorkerSpec

\* The session lock of a worker is held by a run that is in the session, for
\* any number of runs.
THEOREM WorkerTypeCorrect == WorkerSpec => []WorkerTypeOK
  <1>1. WorkerInv => WorkerTypeOK
    BY DEF WorkerInv
  <1> QED
    BY <1>1, WorkerInvariance, PTL

\* A Cancel aborts its target or a run that was in the worker with it, never a
\* later one, although try_cancel runs after the slot's lock is released.
THEOREM TargetIsAborted == WorkerSpec => []OnlyTheTargetIsAborted
  <1>1. WorkerInv => OnlyTheTargetIsAborted
    BY DEF WorkerInv
  <1> QED
    BY <1>1, WorkerInvariance, PTL

-----------------------------------------------------------------------------
(* The plugin process: types. *)

\* A frame is in the actor's hands exactly while it writes; a child is booted
\* only for an attempt that was counted.
WritingInv ==
    /\ actor = "send" <=> sending # "none"
    /\ actor = "backoff" => gen <= attempts

LEMMA ReleaseIsTyped ==
    ASSUME ProcTypeOK, NEW S, Release(S)
    PROVE  state' \in [PluginRequests -> {"idle", "waiting", "answered", "abandoned"}]
  BY DEF Release, ProcTypeOK

\* The actor returns.
LEMMA ExitEffect ==
    ASSUME ProcTypeOK, Exit
    PROVE  /\ actor' = "exited" /\ sending' = "none" /\ cmds' = <<>>
           /\ handle' \in {"open", "closing", "closed", "dropped"}
           /\ handle' = "dropped" <=> handle = "dropped"
           /\ inFlight' = NoneInFlight
           /\ state' \in [PluginRequests -> {"idle", "waiting", "answered", "abandoned"}]
           /\ Release(Range(cmds) \union InTable \union {sending})
  BY ReleaseIsTyped DEF Exit, ProcTypeOK

\* A boot or a handshake fails.
LEMMA FailEffect ==
    ASSUME ProcTypeOK, AttemptFails
    PROVE  \/ Exit /\ health' = "Unhealthy"
           \/ actor' = "ladder" /\ UNCHANGED <<handleVars, cmds, sending, inFlight, health>>
  BY DEF AttemptFails, Park

LEMMA ProcTypeStep ==
    ASSUME ProcTypeOK, WritingInv, [ProcNext]_pluginVars
    PROVE  ProcTypeOK' /\ WritingInv'
  <1> USE DEF handleVars, pingVars, ladderVars, pipeVars, hostVars
  <1>0. /\ MaxAttempts \in Nat /\ MaxHostCalls \in Nat
        /\ attempts \in Nat /\ attempts <= MaxAttempts
        /\ gen \in Nat /\ 1 <= gen /\ gen <= attempts + 1
        /\ hostCalls \in Nat /\ hostCalls <= MaxHostCalls
        /\ "none" \notin PluginRequests /\ "ping" \notin PluginRequests
    BY ProcAssumption DEF ProcTypeOK
  <1>1. ASSUME NEW r \in PluginRequests, Request(r) PROVE ProcTypeOK' /\ WritingInv'
    <2>1. cmds' \in Seq(PluginRequests \union {"shutdown"})
      <3>1. Append(cmds, r) \in Seq(PluginRequests \union {"shutdown"})
        BY DEF ProcTypeOK
      <3> QED
        BY <1>1, <3>1 DEF Request, ProcTypeOK
    <2>2. state' \in [PluginRequests -> {"idle", "waiting", "answered", "abandoned"}]
      BY <1>1 DEF Request, ProcTypeOK
    <2> QED
      BY <1>1, <2>1, <2>2 DEF Request, ProcTypeOK, WritingInv
  <1>2. ASSUME NEW r \in PluginRequests, Abandon(r) PROVE ProcTypeOK' /\ WritingInv'
    BY <1>2 DEF Abandon, ProcTypeOK, WritingInv
  <1>3. CASE Shutdown \/ DropHandle
    <2>1. cmds' \in Seq(PluginRequests \union {"shutdown"})
      <3>1. Append(cmds, "shutdown") \in Seq(PluginRequests \union {"shutdown"})
        BY DEF ProcTypeOK
      <3> QED
        BY <1>3, <3>1 DEF Shutdown, DropHandle, ProcTypeOK
    <2>2. handle' \in {"open", "closing", "closed", "dropped"}
      BY <1>3 DEF Shutdown, DropHandle
    <2>3. UNCHANGED <<state, actor, sending, inFlight, pingVars, ladderVars, gen, live,
                      pipeVars, hostVars>>
      BY <1>3 DEF Shutdown, DropHandle
    <2> QED
      BY <2>1, <2>2, <2>3 DEF ProcTypeOK, WritingInv
  <1>4. CASE SpawnReturns
    BY <1>4 DEF SpawnReturns, ProcTypeOK, ProcPlaces, WritingInv
  <1>5. CASE TakeCommand
    <2>1. /\ cmds \in Seq(PluginRequests \union {"shutdown"}) /\ cmds # <<>>
          /\ sending' = Head(cmds) /\ cmds' = Tail(cmds)
      BY <1>5 DEF TakeCommand, ProcTypeOK
    <2>2. /\ cmds' \in Seq(PluginRequests \union {"shutdown"})
          /\ sending' \in PluginRequests \union {"shutdown"}
      BY <2>1
    <2> QED
      BY <1>0, <1>5, <2>2 DEF TakeCommand, ProcTypeOK, ProcPlaces, InFrames, WritingInv
  <1>6. CASE ChannelClosed
    <2>1. Exit
      BY <1>6 DEF ChannelClosed
    <2>2. inFlight' \in [PluginRequests -> 0 .. gen]
      BY <1>0, <2>1, ExitEffect DEF NoneInFlight
    <2>3. cmds' \in Seq(PluginRequests \union {"shutdown"})
      BY <2>1, ExitEffect
    <2> QED
      BY <1>6, <2>1, <2>2, <2>3, ExitEffect DEF ChannelClosed, ProcTypeOK, ProcPlaces, WritingInv
  <1>7. CASE SendFrame
    <2>1. state' \in [PluginRequests -> {"idle", "waiting", "answered", "abandoned"}]
      BY <1>7, ReleaseIsTyped DEF SendFrame, ProcTypeOK
    <2>2. stdin' \in Seq(InFrames)
      <3>1. stdin \in Seq(InFrames) /\ sending \in InFrames
        BY <1>7 DEF SendFrame, ProcTypeOK, WritingInv
      <3>2. Append(stdin, sending) \in Seq(InFrames)
        BY <3>1
      <3> QED
        BY <1>7, <3>1, <3>2 DEF SendFrame
    <2>3. inFlight' \in [PluginRequests -> 0 .. gen] /\ ping' \in 0 .. gen /\ (ping # 0 => ping' # 0)
      <3>1. gen \in 0 .. gen /\ gen # 0
        BY <1>0
      <3> QED
        BY <1>7, <3>1 DEF SendFrame, ProcTypeOK
    <2>4. actor' \in ProcPlaces \ {"send", "backoff"}
      BY <1>7, Zenon DEF SendFrame, ProcPlaces
    <2> QED
      BY <1>7, <2>1, <2>2, <2>3, <2>4 DEF SendFrame, ProcTypeOK, WritingInv
  <1>8. CASE RecvFrame
    <2>1. stdout' \in Seq(OutFrames)
      <3>1. stdout \in Seq(OutFrames) /\ stdout # <<>> /\ stdout' = Tail(stdout)
        BY <1>8 DEF RecvFrame, ProcTypeOK
      <3> QED
        BY <3>1
    <2>2. state' \in [PluginRequests -> {"idle", "waiting", "answered", "abandoned"}]
      BY <1>8, ReleaseIsTyped DEF RecvFrame
    <2>3. /\ ping' \in 0 .. gen /\ hostTask' \in 0 .. gen
          /\ inFlight' \in [PluginRequests -> 0 .. gen]
      <3>1. 0 \in 0 .. gen /\ gen \in 0 .. gen
        BY <1>0
      <3> QED
        BY <1>8, <3>1 DEF RecvFrame, ProcTypeOK
    <2>4. late' \in BOOLEAN /\ (late' => ping' # 0)
      BY <1>8 DEF RecvFrame, ProcTypeOK
    <2> QED
      BY <1>8, <2>1, <2>2, <2>3, <2>4 DEF RecvFrame, ProcTypeOK, WritingInv
  <1>9. CASE Eof \/ PingDeadline
    <2>1. /\ inFlight' \in [PluginRequests -> 0 .. gen]
          /\ state' \in [PluginRequests -> {"idle", "waiting", "answered", "abandoned"}]
      BY <1>0, <1>9, ReleaseIsTyped DEF Eof, PingDeadline, FailInFlight, NoneInFlight
    <2>2. ping' \in 0 .. gen /\ late' \in BOOLEAN /\ (late' => ping' # 0)
      <3>1. CASE UNCHANGED <<ping, late>>
        BY <3>1 DEF ProcTypeOK
      <3>2. CASE ping' = 0 /\ late' = FALSE
        <4>1. 0 \in 0 .. gen
          BY <1>0
        <4> QED
          BY <3>2, <4>1
      <3> QED
        BY <1>9, <3>1, <3>2 DEF Eof, PingDeadline
    <2> QED
      BY <1>9, <2>1, <2>2 DEF Eof, PingDeadline, ProcTypeOK, ProcPlaces, WritingInv
  <1>10. CASE PingDue \/ PingElapses \/ Farewell
    <2>1. CASE PingDue
      BY <2>1 DEF PingDue, ProcTypeOK, ProcPlaces, InFrames, WritingInv
    <2>2. CASE PingElapses
      BY <2>2 DEF PingElapses, ProcTypeOK, WritingInv
    <2>3. CASE Farewell
      <3>1. stdout \in Seq(OutFrames) /\ (stdout # <<>> => Tail(stdout) \in Seq(OutFrames))
        BY DEF ProcTypeOK
      <3>2. stdout' \in Seq(OutFrames)
        BY <2>3, <3>1 DEF Farewell
      <3> QED
        BY <2>3, <3>2 DEF Farewell, ProcTypeOK, ProcPlaces, InFrames, WritingInv
    <2> QED
      BY <1>10, <2>1, <2>2, <2>3
  <1>11. CASE Ladder
    <2>1. live' \in SUBSET (1 .. gen) /\ gen' = gen
      BY <1>11 DEF Ladder, ProcTypeOK
    <2>2. CASE Exhausted /\ Park /\ UNCHANGED attempts
      <3>1. Exit /\ health' = "Unhealthy"
        BY <2>2 DEF Park
      <3>2. inFlight' \in [PluginRequests -> 0 .. gen]
        BY <1>0, <3>1, ExitEffect DEF NoneInFlight
      <3>3. cmds' \in Seq(PluginRequests \union {"shutdown"})
        BY <3>1, ExitEffect
      <3> QED
        BY <1>11, <2>1, <2>2, <3>1, <3>2, <3>3, ExitEffect
          DEF Ladder, ProcTypeOK, ProcPlaces, WritingInv
    <2>3. CASE ~Exhausted /\ attempts' = attempts + 1 /\ health' = "Restarting"
               /\ actor' = "backoff" /\ UNCHANGED <<handleVars, cmds, sending, inFlight>>
      <3>1. attempts' \in 0 .. MaxAttempts /\ gen \in 1 .. attempts' + 1 /\ gen <= attempts'
        BY <1>0, <2>3 DEF Exhausted
      <3>2. sending = "none"
        BY <1>11 DEF Ladder, WritingInv
      <3> QED
        BY <1>11, <2>1, <2>3, <3>1, <3>2 DEF Ladder, ProcTypeOK, ProcPlaces, WritingInv
    <2> QED
      BY <1>11, <2>2, <2>3 DEF Ladder
  <1>12. CASE (Boot \/ Handshake) /\ AttemptFails /\ gen' = gen /\ UNCHANGED pipeVars
    <2>1. live' \in SUBSET (1 .. gen)
      <3>1. gen' # gen + 1
        BY <1>0, <1>12
      <3>2. live' \subseteq live
        BY <1>12, <3>1 DEF Boot, Handshake
      <3> QED
        BY <3>2 DEF ProcTypeOK
    <2>2. attempts' = attempts /\ UNCHANGED <<pingVars, hostVars>>
      BY <1>12 DEF Boot, Handshake
    <2>3. CASE Exit /\ health' = "Unhealthy"
      <3>1. inFlight' \in [PluginRequests -> 0 .. gen]
        BY <1>0, <2>3, ExitEffect DEF NoneInFlight
      <3>2. cmds' \in Seq(PluginRequests \union {"shutdown"})
        BY <2>3, ExitEffect
      <3> QED
        BY <1>12, <2>1, <2>2, <2>3, <3>1, <3>2, ExitEffect DEF ProcTypeOK, ProcPlaces, WritingInv
    <2>4. CASE actor' = "ladder" /\ UNCHANGED <<handleVars, cmds, sending, inFlight, health>>
      <3>1. sending = "none"
        BY <1>12 DEF Boot, Handshake, WritingInv
      <3> QED
        BY <1>12, <2>1, <2>2, <2>4, <3>1 DEF ProcTypeOK, ProcPlaces, WritingInv
    <2> QED
      BY <1>12, <2>3, <2>4, FailEffect
  <1>13. CASE Boot /\ gen' = gen + 1
    <2>1. gen + 1 \in 1 .. attempts + 1 /\ attempts' = attempts /\ actor = "backoff"
      BY <1>0, <1>13 DEF Boot, WritingInv
    <2>2. /\ live' = live \union {gen + 1} /\ stdin' = <<>> /\ held' = {} /\ stdout' = <<>>
          /\ actor' = "handshake" /\ UNCHANGED <<handleVars, cmds, sending, inFlight, health>>
      <3>1. gen + 1 # gen
        BY <1>0
      <3> QED
        BY <1>13, <3>1 DEF Boot
    <2>3. live' \in SUBSET (1 .. gen + 1)
      BY <1>0, <2>2 DEF ProcTypeOK
    <2>4. \A n \in 0 .. gen : n \in 0 .. gen + 1
      BY <1>0
    <2>5. inFlight' \in [PluginRequests -> 0 .. gen']
      BY <1>13, <2>2, <2>4 DEF ProcTypeOK
    <2>6. ping' \in 0 .. gen' /\ hostTask' \in 0 .. gen'
      BY <1>13, <2>4 DEF Boot, ProcTypeOK
    <2>7. stdin' \in Seq(InFrames) /\ stdout' \in Seq(OutFrames)
      BY <2>2
    <2>8. sending = "none"
      BY <2>1 DEF WritingInv
    <2> QED
      BY <1>13, <2>1, <2>2, <2>3, <2>5, <2>6, <2>7, <2>8 DEF Boot, ProcTypeOK, ProcPlaces, WritingInv
  <1>14. CASE Handshake /\ actor' = "loop" /\ health' = "Ready"
              /\ UNCHANGED <<handleVars, cmds, sending, inFlight, live>>
    BY <1>14 DEF Handshake, ProcTypeOK, ProcPlaces, WritingInv
  <1>15. CASE Reap
    <2>1. Exit
      BY <1>15 DEF Reap
    <2>2. inFlight' \in [PluginRequests -> 0 .. gen]
      BY <1>0, <2>1, ExitEffect DEF NoneInFlight
    <2>3. cmds' \in Seq(PluginRequests \union {"shutdown"})
      BY <2>1, ExitEffect
    <2> QED
      BY <1>15, <2>1, <2>2, <2>3, ExitEffect DEF Reap, ProcTypeOK, ProcPlaces, WritingInv
  <1>16. CASE ChildReads
    <2>1. stdin \in Seq(InFrames) /\ stdin # <<>> /\ stdin' = Tail(stdin)
      BY <1>16 DEF ChildReads, ProcTypeOK
    <2>2. stdin' \in Seq(InFrames)
      BY <2>1
    <2> QED
      BY <1>16, <2>2 DEF ChildReads, ProcTypeOK, WritingInv
  <1>17. ASSUME NEW f \in PluginRequests \union {"ping"}, ChildAnswers(f)
         PROVE  ProcTypeOK' /\ WritingInv'
    <2>1. stdout' \in Seq(OutFrames)
      BY <1>17 DEF ChildAnswers, ProcTypeOK, OutFrames
    <2> QED
      BY <1>17, <2>1 DEF ChildAnswers, ProcTypeOK, WritingInv
  <1>18. ASSUME NEW f \in {"host", "garbage"}, ChildWrites(f) PROVE ProcTypeOK' /\ WritingInv'
    <2>1. stdout' \in Seq(OutFrames)
      BY <1>18 DEF ChildWrites, ProcTypeOK, OutFrames
    <2>2. hostCalls' \in 0 .. MaxHostCalls
      BY <1>0, <1>18 DEF ChildWrites
    <2> QED
      BY <1>18, <2>1, <2>2 DEF ChildWrites, ProcTypeOK, WritingInv
  <1>19. CASE ChildDies
    <2>1. stdin' \in Seq(InFrames)
      BY <1>19 DEF ChildDies
    <2> QED
      BY <1>19, <2>1 DEF ChildDies, ProcTypeOK, WritingInv
  <1>20. CASE HostReply
    <2>1. stdin' \in Seq(InFrames)
      <3>1. stdin \in Seq(InFrames) /\ Append(stdin, "host") \in Seq(InFrames)
        BY DEF ProcTypeOK, InFrames
      <3> QED
        BY <1>20, <3>1 DEF HostReply
    <2>2. hostTask' \in 0 .. gen
      BY <1>0, <1>20 DEF HostReply
    <2> QED
      BY <1>20, <2>1, <2>2 DEF HostReply, ProcTypeOK, WritingInv
  <1>21. CASE UNCHANGED pluginVars
    BY <1>21 DEF pluginVars, ProcTypeOK, WritingInv
  <1> QED
    <2>1. CASE Boot
      <3>1. (AttemptFails /\ UNCHANGED <<gen, live, pipeVars>>) \/ gen' = gen + 1
        BY <2>1 DEF Boot
      <3> QED
        BY <1>12, <1>13, <2>1, <3>1
    <2>2. CASE Handshake
      <3>1. \/ AttemptFails
            \/ actor' = "loop" /\ health' = "Ready"
               /\ UNCHANGED <<handleVars, cmds, sending, inFlight, live>>
        BY <2>2 DEF Handshake
      <3>2. gen' = gen /\ UNCHANGED pipeVars
        BY <2>2 DEF Handshake
      <3> QED
        BY <1>12, <1>14, <2>2, <3>1, <3>2
    <2> QED
      BY <1>1, <1>2, <1>3, <1>4, <1>5, <1>6, <1>7, <1>8, <1>9, <1>10, <1>11, <1>15, <1>16,
         <1>17, <1>18, <1>19, <1>20, <1>21, <2>1, <2>2 DEF ProcNext, Actor, Child

-----------------------------------------------------------------------------
(* The plugin process: where a request is. *)

Queued(r) == \E i \in 1 .. Len(cmds) : cmds[i] = r

Nowhere(r) == ~Queued(r) /\ sending # r /\ inFlight[r] = 0

InOnePlace(r) ==
    \/ Queued(r) /\ sending # r /\ inFlight[r] = 0
    \/ ~Queued(r) /\ sending = r /\ inFlight[r] = 0
    \/ ~Queued(r) /\ sending # r /\ inFlight[r] # 0

\* A request that was not made is nowhere, one that somebody waits for is in
\* one place, no request is in two places, and none is queued twice.
PlaceInv ==
    /\ \A i, j \in 1 .. Len(cmds) : cmds[i] = cmds[j] /\ cmds[i] \in PluginRequests => i = j
    /\ \A r \in PluginRequests : state[r] = "idle" => Nowhere(r)
    /\ \A r \in PluginRequests : state[r] = "waiting" => InOnePlace(r)
    /\ \A r \in PluginRequests : Nowhere(r) \/ InOnePlace(r)

\* A command at the end of the channel.
LEMMA AppendQueues ==
    ASSUME ProcTypeOK, NEW f, cmds' = Append(cmds, f), NEW q \in PluginRequests
    PROVE  Queued(q)' <=> Queued(q) \/ q = f
  <1>1. cmds \in Seq(PluginRequests \union {"shutdown"}) /\ Len(cmds) \in Nat
    BY DEF ProcTypeOK
  <1>2. /\ Len(cmds') = Len(cmds) + 1 /\ cmds'[Len(cmds) + 1] = f
        /\ \A i \in 1 .. Len(cmds) : cmds'[i] = cmds[i]
    BY <1>1
  <1>3. \A i \in 1 .. Len(cmds') : i \in 1 .. Len(cmds) \/ i = Len(cmds) + 1
    BY <1>1, <1>2
  <1>4. \A i \in 1 .. Len(cmds) : i \in 1 .. Len(cmds')
    BY <1>1, <1>2
  <1>5. Len(cmds) + 1 \in 1 .. Len(cmds')
    BY <1>1, <1>2
  <1> QED
    BY <1>2, <1>3, <1>4, <1>5 DEF Queued

\* The first command passes from the channel into the actor's hands.
LEMMA TakeMoves ==
    ASSUME ProcTypeOK, PlaceInv, TakeCommand, NEW q \in PluginRequests
    PROVE  /\ Queued(q)' => Queued(q) /\ sending' # q
           /\ sending' = q => Queued(q)
           /\ Queued(q) => Queued(q)' \/ sending' = q
  <1>0. cmds \in Seq(PluginRequests \union {"shutdown"}) /\ Len(cmds) \in Nat
    BY DEF ProcTypeOK
  <1>1. cmds # <<>> /\ sending' = Head(cmds) /\ cmds' = Tail(cmds)
    BY DEF TakeCommand
  <1>2. /\ Len(cmds') = Len(cmds) - 1 /\ sending' = cmds[1] /\ 1 \in 1 .. Len(cmds)
        /\ \A i \in 1 .. Len(cmds') : cmds'[i] = cmds[i + 1] /\ i + 1 \in 1 .. Len(cmds)
    BY <1>0, <1>1
  <1>3. ASSUME Queued(q)' PROVE Queued(q) /\ sending' # q
    <2>1. PICK i \in 1 .. Len(cmds') : cmds'[i] = q
      BY <1>3 DEF Queued
    <2>2. i + 1 # 1 /\ cmds[i + 1] = q /\ i + 1 \in 1 .. Len(cmds)
      BY <1>0, <1>2, <2>1
    <2> QED
      BY <1>2, <2>2 DEF Queued, PlaceInv
  <1>4. sending' = q => Queued(q)
    BY <1>2 DEF Queued
  <1>5. ASSUME Queued(q) PROVE Queued(q)' \/ sending' = q
    <2>1. PICK i \in 1 .. Len(cmds) : cmds[i] = q
      BY <1>5 DEF Queued
    <2>2. CASE i = 1
      BY <1>2, <2>1, <2>2
    <2>3. CASE i # 1
      <3>1. i - 1 \in 1 .. Len(cmds') /\ (i - 1) + 1 = i
        BY <1>0, <1>2, <2>3
      <3>2. cmds'[i - 1] = q
        BY <1>2, <2>1, <3>1
      <3> QED
        BY <3>1, <3>2 DEF Queued
    <2> QED
      BY <2>2, <2>3
  <1> QED
    BY <1>3, <1>4, <1>5

\* The actor takes what it knows with it.
LEMMA ExitKeepsPlaces ==
    ASSUME ProcTypeOK, PlaceInv, Exit
    PROVE  PlaceInv'
  <1>1. /\ cmds' = <<>> /\ sending' = "none" /\ inFlight' = NoneInFlight
        /\ Release(Range(cmds) \union InTable \union {sending})
    BY ExitEffect
  <1>2. \A r \in PluginRequests : Nowhere(r)'
    BY <1>1, ProcAssumption DEF Nowhere, Queued, NoneInFlight
  <1>3. ASSUME NEW r \in PluginRequests, state'[r] = "waiting" PROVE FALSE
    <2>1. state[r] = "waiting" /\ r \notin Range(cmds) \union InTable \union {sending}
      BY <1>1, <1>3 DEF Release
    <2>2. cmds \in Seq(PluginRequests \union {"shutdown"})
      BY DEF ProcTypeOK
    <2>3. Queued(r) => r \in Range(cmds)
      BY <2>2 DEF Queued, Range
    <2>4. inFlight[r] # 0 => r \in InTable
      BY DEF InTable
    <2> QED
      BY <2>1, <2>3, <2>4 DEF PlaceInv, InOnePlace
  <1> QED
    BY <1>1, <1>2, <1>3 DEF PlaceInv

LEMMA PlaceStep ==
    ASSUME ProcTypeOK, WritingInv, PlaceInv, [ProcNext]_pluginVars
    PROVE  PlaceInv'
  <1> USE DEF handleVars, pingVars, ladderVars, pipeVars, hostVars
  <1>0. /\ cmds \in Seq(PluginRequests \union {"shutdown"}) /\ Len(cmds) \in Nat
        /\ state \in [PluginRequests -> {"idle", "waiting", "answered", "abandoned"}]
        /\ \A f \in {"none", "ping", "shutdown", "exit", "host", "garbage"} : f \notin PluginRequests
    BY ProcAssumption DEF ProcTypeOK
  <1>1. ASSUME UNCHANGED <<cmds, sending, inFlight>>,
               \A q \in PluginRequests :
                   state'[q] = state[q] \/ state'[q] \in {"answered", "abandoned"}
        PROVE  PlaceInv'
    BY <1>0, <1>1 DEF PlaceInv, Nowhere, InOnePlace, Queued
  <1>2. ASSUME NEW r \in PluginRequests, Request(r) PROVE PlaceInv'
    <2>1. CASE actor = "exited"
      BY <1>0, <1>1, <1>2, <2>1 DEF Request
    <2>2. CASE actor # "exited"
      <3>1. /\ cmds' = Append(cmds, r) /\ sending' = sending /\ inFlight' = inFlight
            /\ \A q \in PluginRequests : state'[q] = IF q = r THEN "waiting" ELSE state[q]
            /\ state[r] = "idle"
        BY <1>0, <1>2, <2>2 DEF Request
      <3>2. /\ Len(cmds') = Len(cmds) + 1 /\ cmds'[Len(cmds) + 1] = r
            /\ \A i \in 1 .. Len(cmds) : cmds'[i] = cmds[i]
        BY <1>0, <3>1
      <3>3. \A i \in 1 .. Len(cmds') : i \in 1 .. Len(cmds) \/ i = Len(cmds) + 1
        BY <1>0, <3>2
      <3>4. \A q \in PluginRequests : q # r => (Queued(q)' <=> Queued(q))
        BY <3>1, AppendQueues
      <3>5. Queued(r)' /\ Nowhere(r)
        BY <1>0, <3>1, <3>2 DEF Queued, PlaceInv
      <3>6. \A i, j \in 1 .. Len(cmds') :
               cmds'[i] = cmds'[j] /\ cmds'[i] \in PluginRequests => i = j
        BY <3>2, <3>3, <3>5 DEF PlaceInv, Nowhere, Queued
      <3> QED
        BY <3>1, <3>4, <3>5, <3>6 DEF PlaceInv, Nowhere, InOnePlace
    <2> QED
      BY <2>1, <2>2
  <1>3. ASSUME NEW r \in PluginRequests, Abandon(r) PROVE PlaceInv'
    BY <1>0, <1>1, <1>3 DEF Abandon
  <1>4. CASE Shutdown /\ actor # "exited"
    <2>1. /\ cmds' = Append(cmds, "shutdown") /\ sending' = sending /\ inFlight' = inFlight
          /\ state' = state
      BY <1>4 DEF Shutdown
    <2>2. /\ Len(cmds') = Len(cmds) + 1 /\ cmds'[Len(cmds) + 1] = "shutdown"
          /\ \A i \in 1 .. Len(cmds) : cmds'[i] = cmds[i]
      BY <1>0, <2>1
    <2>3. \A i \in 1 .. Len(cmds') : i \in 1 .. Len(cmds) \/ i = Len(cmds) + 1
      BY <1>0, <2>2
    <2>4. \A q \in PluginRequests : Queued(q)' <=> Queued(q)
      BY <1>0, <2>1, AppendQueues
    <2>5. \A i, j \in 1 .. Len(cmds') :
             cmds'[i] = cmds'[j] /\ cmds'[i] \in PluginRequests => i = j
      BY <1>0, <2>2, <2>3 DEF PlaceInv
    <2> QED
      BY <2>1, <2>4, <2>5 DEF PlaceInv, Nowhere, InOnePlace
  <1>5. CASE TakeCommand
    <2>1. /\ cmds # <<>> /\ sending' = Head(cmds) /\ cmds' = Tail(cmds) /\ state' = state
          /\ inFlight' = inFlight /\ sending = "none"
      BY <1>5 DEF TakeCommand, WritingInv
    <2>2. /\ Len(cmds') = Len(cmds) - 1 /\ sending' = cmds[1] /\ 1 \in 1 .. Len(cmds)
          /\ \A i \in 1 .. Len(cmds') : cmds'[i] = cmds[i + 1] /\ i + 1 \in 1 .. Len(cmds)
      BY <1>0, <2>1
    <2>3. ASSUME NEW i \in 1 .. Len(cmds'), NEW j \in 1 .. Len(cmds'),
                 cmds'[i] = cmds'[j], cmds'[i] \in PluginRequests
          PROVE  i = j
      <3>1. i + 1 = j + 1
        BY <2>2, <2>3 DEF PlaceInv
      <3> QED
        BY <1>0, <2>2, <3>1
    <2>4. ASSUME NEW q \in PluginRequests
          PROVE  /\ Queued(q)' => Queued(q) /\ sending' # q
                 /\ sending' = q => Queued(q)
                 /\ Queued(q) => Queued(q)' \/ sending' = q
      BY <1>5, TakeMoves
    <2>5. ASSUME NEW q \in PluginRequests
          PROVE  /\ Nowhere(q) => Nowhere(q)'
                 /\ InOnePlace(q) => InOnePlace(q)'
      BY <1>0, <2>1, <2>4 DEF Nowhere, InOnePlace
    <2> QED
      BY <2>1, <2>3, <2>5 DEF PlaceInv
  <1>6. CASE SendFrame
    <2>1. cmds' = cmds /\ sending' = "none" /\ sending # "none"
      BY <1>6 DEF SendFrame, WritingInv
    <2>2. \A q \in PluginRequests : Queued(q)' <=> Queued(q)
      BY <2>1 DEF Queued
    <2>3. CASE state' = state /\ inFlight' = IF sending \in PluginRequests
                                             THEN [inFlight EXCEPT ![sending] = gen] ELSE inFlight
      <3>1. \A q \in PluginRequests : inFlight'[q] = IF q = sending THEN gen ELSE inFlight[q]
        BY <2>3 DEF ProcTypeOK
      <3>2. gen # 0
        BY DEF ProcTypeOK
      <3>3. ASSUME NEW q \in PluginRequests
            PROVE  /\ Nowhere(q) => Nowhere(q)'
                   /\ InOnePlace(q) => InOnePlace(q)'
        BY <1>0, <2>1, <2>2, <3>1, <3>2 DEF Nowhere, InOnePlace
      <3> QED
        BY <2>1, <2>3, <3>3 DEF PlaceInv
    <2>4. CASE Release({sending}) /\ inFlight' = inFlight
      <3>1. \A q \in PluginRequests :
               state'[q] = IF q = sending /\ state[q] = "waiting" THEN "answered" ELSE state[q]
        BY <2>4 DEF Release
      <3>2. ASSUME NEW q \in PluginRequests, sending # q
            PROVE  /\ Nowhere(q) => Nowhere(q)'
                   /\ InOnePlace(q) => InOnePlace(q)'
        BY <1>0, <2>1, <2>2, <2>4, <3>2 DEF Nowhere, InOnePlace
      <3>3. ASSUME NEW q \in PluginRequests, sending = q PROVE Nowhere(q)'
        BY <1>0, <2>1, <2>2, <2>4, <3>3 DEF PlaceInv, Nowhere, InOnePlace
      <3> QED
        BY <2>1, <3>1, <3>2, <3>3 DEF PlaceInv
    <2> QED
      BY <1>6, <2>3, <2>4 DEF SendFrame
  <1>7. CASE RecvFrame
    <2> DEFINE f == Head(stdout)
    <2>1. /\ cmds' = cmds /\ sending' = sending /\ Release({f} \intersect InTable)
          /\ inFlight' = IF f \in PluginRequests THEN [inFlight EXCEPT ![f] = 0] ELSE inFlight
      BY <1>7 DEF RecvFrame
    <2> HIDE DEF f
    <2>2. \A q \in PluginRequests : inFlight'[q] = IF q = f THEN 0 ELSE inFlight[q]
      BY <2>1 DEF ProcTypeOK
    <2>3. \A q \in PluginRequests :
             state'[q] = IF q = f /\ inFlight[q] # 0 /\ state[q] = "waiting"
                         THEN "answered" ELSE state[q]
      BY <2>1 DEF Release, InTable
    <2>4. \A q \in PluginRequests : Queued(q)' <=> Queued(q)
      BY <2>1 DEF Queued
    <2> QED
      BY <2>1, <2>2, <2>3, <2>4 DEF PlaceInv, Nowhere, InOnePlace
  <1>8. CASE Eof \/ PingDeadline
    <2>1. cmds' = cmds /\ sending' = sending /\ inFlight' = NoneInFlight /\ Release(InTable)
      BY <1>8 DEF Eof, PingDeadline, FailInFlight
    <2>2. \A q \in PluginRequests :
             /\ inFlight'[q] = 0
             /\ state'[q] = IF inFlight[q] # 0 /\ state[q] = "waiting" THEN "answered" ELSE state[q]
      BY <2>1 DEF Release, InTable, NoneInFlight
    <2>3. \A q \in PluginRequests : Queued(q)' <=> Queued(q)
      BY <2>1 DEF Queued
    <2> QED
      BY <2>1, <2>2, <2>3 DEF PlaceInv, Nowhere, InOnePlace
  <1>9. CASE PingDue \/ Farewell
    <2>1. cmds' = cmds /\ state' = state /\ inFlight' = inFlight /\ sending = "none"
          /\ sending' \notin PluginRequests
      BY <1>0, <1>9 DEF PingDue, Farewell, WritingInv
    <2>2. \A q \in PluginRequests : sending # q /\ sending' # q
      BY <1>0, <2>1
    <2> QED
      BY <2>1, <2>2 DEF PlaceInv, Nowhere, InOnePlace, Queued
  <1>10. CASE ChannelClosed \/ Ladder \/ Boot \/ Handshake \/ Reap
    <2>1. CASE Exit
      BY <2>1, ExitKeepsPlaces
    <2>2. CASE ~Exit
      BY <1>1, <1>10, <2>2, FailEffect DEF ChannelClosed, Ladder, Park, Boot, Handshake, Reap
    <2> QED
      BY <2>1, <2>2
  <1>11. CASE \/ DropHandle \/ SpawnReturns \/ PingElapses \/ ChildReads \/ ChildDies \/ HostReply
              \/ \E f \in PluginRequests \union {"ping"} : ChildAnswers(f)
              \/ \E f \in {"host", "garbage"} : ChildWrites(f)
              \/ (Shutdown /\ actor = "exited")
              \/ UNCHANGED pluginVars
    <2>1. UNCHANGED <<state, cmds, sending, inFlight>>
      BY <1>11 DEF DropHandle, SpawnReturns, PingElapses, ChildReads, ChildDies, HostReply,
                   ChildAnswers, ChildWrites, Shutdown, pluginVars
    <2> QED
      BY <1>1, <2>1
  <1> QED
    BY <1>2, <1>3, <1>4, <1>5, <1>6, <1>7, <1>8, <1>9, <1>10, <1>11 DEF ProcNext, Actor, Child

-----------------------------------------------------------------------------
(* The plugin process: its children. *)

LEMMA LeakStep ==
    ASSUME ProcTypeOK, NoChildLeaks, [ProcNext]_pluginVars
    PROVE  NoChildLeaks'
  <1> USE DEF handleVars, pingVars, ladderVars, pipeVars, hostVars
  <1>0. gen \in Nat
    BY DEF ProcTypeOK
  <1>1. ASSUME live' \subseteq live, gen' = gen, actor' = actor,
               actor = "exited" => (handle = "dropped" => handle' = "dropped")
        PROVE  NoChildLeaks'
    BY <1>1 DEF NoChildLeaks
  <1>2. ASSUME live' \subseteq live, gen' = gen, actor' \notin {"backoff", "exited"}
        PROVE  NoChildLeaks'
    BY <1>2 DEF NoChildLeaks
  <1>3. ASSUME live' = {} PROVE NoChildLeaks'
    BY <1>3 DEF NoChildLeaks
  <1>4. \A r \in PluginRequests : Request(r) \/ Abandon(r) => NoChildLeaks'
    BY <1>1 DEF Request, Abandon
  <1>5. Shutdown \/ DropHandle => NoChildLeaks'
    BY <1>1 DEF Shutdown, DropHandle
  <1>6. CASE SpawnReturns
    BY <1>2, <1>3, <1>6 DEF SpawnReturns
  <1>7. TakeCommand \/ PingDue \/ Farewell \/ Eof \/ PingDeadline => NoChildLeaks'
    BY <1>2 DEF TakeCommand, PingDue, Farewell, Eof, PingDeadline
  <1>8. CASE SendFrame
    <2>1. actor' \notin {"backoff", "exited"}
      BY <1>8, Zenon DEF SendFrame
    <2> QED
      BY <1>2, <1>8, <2>1 DEF SendFrame
  <1>9. RecvFrame \/ PingElapses \/ HostReply => NoChildLeaks'
    BY <1>1 DEF RecvFrame, PingElapses, HostReply
  <1>10. CASE ChannelClosed
    BY <1>10, ExitEffect DEF ChannelClosed, NoChildLeaks
  <1>11. CASE Ladder \/ Reap
    BY <1>3, <1>11 DEF Ladder, Reap, NoChildLeaks
  <1>12. CASE Boot
    <2>1. live = {}
      BY <1>12 DEF Boot, NoChildLeaks
    <2> QED
      BY <1>0, <1>3, <1>12, <2>1 DEF Boot, NoChildLeaks
  <1>13. CASE Handshake
    BY <1>2, <1>3, <1>13 DEF Handshake, NoChildLeaks
  <1>14. CASE Child
    BY <1>1, <1>14 DEF Child, ChildReads, ChildAnswers, ChildWrites, ChildDies
  <1>15. CASE UNCHANGED pluginVars
    BY <1>1, <1>15 DEF pluginVars
  <1> QED
    BY <1>4, <1>5, <1>6, <1>7, <1>8, <1>9, <1>10, <1>11, <1>12, <1>13, <1>14, <1>15
      DEF ProcNext, Actor

ProcInv == ProcTypeOK /\ WritingInv /\ PlaceInv /\ NoChildLeaks

LEMMA ProcInvariance == ProcSpec => []ProcInv
  <1>1. ASSUME ProcInit PROVE ProcInv
    <2>1. /\ MaxAttempts \in Nat /\ MaxHostCalls \in Nat
          /\ "none" \notin PluginRequests
      BY ProcAssumption
    <2>2. /\ cmds \in Seq(PluginRequests \union {"shutdown"}) /\ Len(cmds) = 0
          /\ stdin \in Seq(InFrames) /\ stdout \in Seq(OutFrames)
      BY <1>1 DEF ProcInit
    <2>3. ProcTypeOK
      <3>1. /\ attempts \in 0 .. MaxAttempts /\ gen \in 1 .. attempts + 1
            /\ ping \in 0 .. gen /\ hostTask \in 0 .. gen /\ hostCalls \in 0 .. MaxHostCalls
        BY <1>1, <2>1 DEF ProcInit
      <3>2. inFlight \in [PluginRequests -> 0 .. gen] /\ live \in SUBSET (1 .. gen)
        BY <1>1 DEF ProcInit
      <3>3. /\ handle \in {"open", "closing", "closed", "dropped"}
            /\ state \in [PluginRequests -> {"idle", "waiting", "answered", "abandoned"}]
            /\ actor \in ProcPlaces /\ sending \in InFrames \union {"none"}
            /\ late \in BOOLEAN /\ (late => ping # 0)
            /\ health \in {"Spawning", "Ready", "ShuttingDown", "Restarting", "Unhealthy"}
            /\ held \in SUBSET (PluginRequests \union {"ping"})
        BY <1>1 DEF ProcInit, ProcPlaces
      <3> QED
        BY <2>2, <3>1, <3>2, <3>3 DEF ProcTypeOK
    <2>4. WritingInv /\ NoChildLeaks
      BY <1>1 DEF ProcInit, WritingInv, NoChildLeaks
    <2>5. PlaceInv
      BY <1>1, <2>1, <2>2 DEF ProcInit, PlaceInv, Nowhere, Queued
    <2> QED
      BY <2>3, <2>4, <2>5 DEF ProcInv
  <1>2. ProcInv /\ [ProcNext]_pluginVars => ProcInv'
    BY ProcTypeStep, PlaceStep, LeakStep DEF ProcInv
  <1> QED
    BY <1>1, <1>2, PTL DEF ProcSpec

\* Types, for any number of requests and attempts; no more children are ever
\* booted than the ladder has attempts, and one.
THEOREM ProcTypeCorrect == ProcSpec => []ProcTypeOK
  <1>1. ProcInv => ProcTypeOK
    BY DEF ProcInv
  <1> QED
    BY <1>1, ProcInvariance, PTL

\* No path of the ladder, of spawn and of do_shutdown leaves a child behind.
THEOREM ChildrenAreReaped == ProcSpec => []NoChildLeaks
  <1>1. ProcInv => NoChildLeaks
    BY DEF ProcInv
  <1> QED
    BY <1>1, ProcInvariance, PTL

\* Whoever waits for a reply is known to the actor, in one place: no request
\* is lost between the channel, the writer and the in-flight table.
THEOREM WaitersAreKnown == ProcSpec => []WaiterIsKnown
  <1>1. ProcInv => WaiterIsKnown
    <2> SUFFICES ASSUME ProcInv, NEW r \in Waiting
                 PROVE  Cardinality({i \in 1 .. Len(cmds) : cmds[i] = r})
                            + (IF sending = r THEN 1 ELSE 0)
                            + (IF inFlight[r] # 0 THEN 1 ELSE 0) = 1
      BY DEF WaiterIsKnown
    <2> DEFINE At == {i \in 1 .. Len(cmds) : cmds[i] = r}
    <2>1. r \in PluginRequests /\ InOnePlace(r)
      BY DEF Waiting, ProcInv, PlaceInv
    <2>2. Queued(r) => Cardinality(At) = 1
      <3>1. ASSUME NEW i \in 1 .. Len(cmds), cmds[i] = r PROVE At = {i}
        BY <2>1, <3>1 DEF ProcInv, PlaceInv
      <3>2. \A i : Cardinality({i}) = 1
        BY FS_Singleton
      <3> QED
        BY <3>1, <3>2 DEF Queued
    <2>3. ~Queued(r) => Cardinality(At) = 0
      <3>1. ~Queued(r) => At = {}
        BY DEF Queued
      <3> QED
        BY <3>1, FS_EmptySet
    <2> HIDE DEF At
    <2>4. Cardinality(At) + (IF sending = r THEN 1 ELSE 0) + (IF inFlight[r] # 0 THEN 1 ELSE 0) = 1
      BY <2>1, <2>2, <2>3 DEF InOnePlace
    <2> QED
      BY <2>4 DEF At
  <1> QED
    BY <1>1, ProcInvariance, PTL

-----------------------------------------------------------------------------
(* The plugin process implements the calls of PluginService. *)

\* The phases, told by the places.
PhaseInv ==
    \A r \in PluginRequests :
        RequestPhase(r) = IF state[r] = "idle" THEN "new"
                          ELSE IF Queued(r) \/ sending = r THEN "queued"
                          ELSE IF inFlight[r] # 0 THEN "given" ELSE "over"

LEMMA PhasesFollowPlaces == ProcInv => PhaseInv
  <1> SUFFICES ASSUME ProcInv, NEW r \in PluginRequests
               PROVE  r \in Range(cmds) <=> Queued(r)
    BY DEF PhaseInv, RequestPhase
  <1>1. cmds \in Seq(PluginRequests \union {"shutdown"})
    BY DEF ProcInv, ProcTypeOK
  <1> QED
    BY <1>1 DEF Queued, Range

\* The abstract phases.
Phases == [r \in PluginRequests |-> RequestPhase(r)]

\* Requests stay where they are or are over, with their callers told; the
\* child goes on or stops.
LEMMA EndsMap ==
    ASSUME ProcTypeOK, gen' = gen, Alive' => Alive,
           state' = [r \in PluginRequests |-> state'[r]],
           \A r \in PluginRequests :
              \/ RequestPhase(r)' = RequestPhase(r) /\ state'[r] = state[r]
              \/ /\ RequestPhase(r) \in {"queued", "given"} /\ RequestPhase(r)' = "over"
                 /\ state'[r] = IF state[r] = "waiting" THEN "answered" ELSE state[r]
    PROVE  Rpc!RpcNext
  <1> DEFINE S == {r \in PluginRequests :
                     RequestPhase(r) \in {"queued", "given"} /\ RequestPhase(r)' = "over"}
  <1>1. Phases' = [r \in PluginRequests |-> IF r \in S THEN "over" ELSE Phases[r]]
    BY DEF Phases
  <1>2. state' = [r \in PluginRequests |->
                     IF r \in S /\ state[r] = "waiting" THEN "answered" ELSE state[r]]
    <2>1. \A r \in PluginRequests :
             state'[r] = IF r \in S /\ state[r] = "waiting" THEN "answered" ELSE state[r]
      OBVIOUS
    <2> QED
      BY <2>1
  <1>3. \A r \in S : Phases[r] \in {"queued", "given"}
    BY DEF Phases
  <1>4. Alive' \in {Alive, FALSE}
    <2>1. Alive \in BOOLEAN /\ Alive' \in BOOLEAN
      BY DEF Alive
    <2> QED
      BY <2>1
  <1>5. S \in SUBSET PluginRequests
    OBVIOUS
  <1> HIDE DEF S
  <1>6. Rpc!Finish(S)
    BY <1>1, <1>2, <1>3, <1>4 DEF Rpc!Finish, Phases
  <1> QED
    BY <1>5, <1>6 DEF Rpc!RpcNext

\* All that the actor knows is over when it returns.
LEMMA ExitMaps ==
    ASSUME ProcInv, PhaseInv, PhaseInv', Exit, gen' = gen, Alive' => Alive
    PROVE  Rpc!RpcNext
  <1>1. /\ cmds' = <<>> /\ sending' = "none" /\ inFlight' = NoneInFlight
        /\ Release(Range(cmds) \union InTable \union {sending})
    BY ExitEffect DEF ProcInv
  <1>2. cmds \in Seq(PluginRequests \union {"shutdown"}) /\ ProcTypeOK
    BY DEF ProcInv, ProcTypeOK
  <1>3. ASSUME NEW r \in PluginRequests
        PROVE  /\ ~Queued(r)' /\ sending' # r /\ inFlight'[r] = 0
               /\ state'[r] = IF (Queued(r) \/ sending = r \/ inFlight[r] # 0)
                                  /\ state[r] = "waiting" THEN "answered" ELSE state[r]
    <2>1. Queued(r) <=> r \in Range(cmds)
      BY <1>2 DEF Queued, Range
    <2>2. ~Queued(r)' /\ sending' # r /\ inFlight'[r] = 0
      BY <1>1, ProcAssumption DEF Queued, NoneInFlight
    <2> QED
      BY <1>1, <2>1, <2>2 DEF Release, InTable
  <1>4. state' = [r \in PluginRequests |-> state'[r]]
    BY <1>1 DEF Release
  <1>5. ASSUME NEW r \in PluginRequests
        PROVE  \/ RequestPhase(r)' = RequestPhase(r) /\ state'[r] = state[r]
               \/ /\ RequestPhase(r) \in {"queued", "given"} /\ RequestPhase(r)' = "over"
                  /\ state'[r] = IF state[r] = "waiting" THEN "answered" ELSE state[r]
    <2>1. state[r] = "idle" => Nowhere(r)
      BY DEF ProcInv, PlaceInv
    <2> QED
      BY <1>3, <2>1 DEF PhaseInv, Nowhere
  <1> QED
    BY <1>2, <1>4, <1>5, EndsMap

LEMMA CallStepMaps ==
    ASSUME ProcInv, PhaseInv, PhaseInv', [ProcNext]_pluginVars
    PROVE  [Rpc!RpcNext]_Rpc!rpcVars
  <1> USE DEF handleVars, pingVars, ladderVars, pipeVars, hostVars
  <1>0. /\ ProcTypeOK /\ WritingInv /\ PlaceInv /\ gen \in Nat
        /\ state \in [PluginRequests -> {"idle", "waiting", "answered", "abandoned"}]
        /\ \A f \in {"none", "ping", "shutdown", "exit", "host", "garbage"} : f \notin PluginRequests
    BY ProcAssumption DEF ProcInv, ProcTypeOK
  <1>1. ASSUME gen' = gen, Alive' => Alive, UNCHANGED <<state, inFlight>>,
               \A q \in PluginRequests :
                  Queued(q)' \/ sending' = q <=> Queued(q) \/ sending = q
        PROVE  Rpc!RpcNext
    <2>1. \A q \in PluginRequests : RequestPhase(q)' = RequestPhase(q)
      BY <1>1 DEF PhaseInv
    <2>2. state' = [r \in PluginRequests |-> state'[r]]
      BY <1>0, <1>1
    <2> QED
      BY <1>0, <1>1, <2>1, <2>2, EndsMap
  <1>2. ASSUME NEW r \in PluginRequests, Request(r) PROVE Rpc!RpcNext
    <2>1. state[r] = "idle" /\ Nowhere(r) /\ Phases[r] = "new"
      BY <1>0, <1>2 DEF Request, PlaceInv, Phases, PhaseInv
    <2>2. UNCHANGED <<sending, inFlight, gen, live>>
      BY <1>2 DEF Request
    <2>3. CASE actor = "exited"
      <3>1. state' = [state EXCEPT ![r] = "answered"] /\ UNCHANGED cmds
        BY <1>2, <2>3 DEF Request
      <3>2. Phases' = [Phases EXCEPT ![r] = "over"]
        <4>1. RequestPhase(r)' = "over"
          BY <1>0, <2>1, <2>2, <3>1 DEF PhaseInv, Nowhere, Queued
        <4>2. \A q \in PluginRequests \ {r} : RequestPhase(q)' = RequestPhase(q)
          BY <1>0, <2>2, <3>1 DEF PhaseInv, Queued
        <4> QED
          BY <4>1, <4>2 DEF Phases
      <3>3. Rpc!Call(r)
        BY <2>1, <2>2, <3>1, <3>2 DEF Rpc!Call, Phases, Alive
      <3> QED
        BY <3>3 DEF Rpc!RpcNext
    <2>4. CASE actor # "exited"
      <3>1. state' = [state EXCEPT ![r] = "waiting"] /\ cmds' = Append(cmds, r)
        BY <1>2, <2>4 DEF Request
      <3>2. Phases' = [Phases EXCEPT ![r] = "queued"]
        <4>0. \A q \in PluginRequests : Queued(q)' <=> Queued(q) \/ q = r
          BY <1>0, <3>1, AppendQueues
        <4>1. RequestPhase(r)' = "queued"
          BY <1>0, <3>1, <4>0 DEF PhaseInv
        <4>2. \A q \in PluginRequests \ {r} : RequestPhase(q)' = RequestPhase(q)
          BY <1>0, <2>2, <3>1, <4>0 DEF PhaseInv
        <4> QED
          BY <4>1, <4>2 DEF Phases
      <3>3. Rpc!Call(r)
        BY <2>1, <2>2, <3>1, <3>2 DEF Rpc!Call, Phases, Alive
      <3> QED
        BY <3>3 DEF Rpc!RpcNext
    <2> QED
      BY <2>3, <2>4
  <1>3. ASSUME NEW r \in PluginRequests, Abandon(r) PROVE Rpc!RpcNext
    <2>1. /\ state[r] = "waiting" /\ state' = [state EXCEPT ![r] = "abandoned"]
          /\ UNCHANGED <<cmds, sending, inFlight, gen, live>>
      BY <1>3 DEF Abandon
    <2>2. Phases' = Phases
      <3>1. \A q \in PluginRequests : RequestPhase(q)' = RequestPhase(q)
        BY <1>0, <2>1 DEF PhaseInv, Queued
      <3> QED
        BY <3>1 DEF Phases
    <2>3. Rpc!Forsake(r)
      BY <2>1, <2>2 DEF Rpc!Forsake, Phases, Alive
    <2> QED
      BY <2>3 DEF Rpc!RpcNext
  <1>4. CASE Shutdown /\ actor # "exited"
    <2>1. cmds' = Append(cmds, "shutdown") /\ UNCHANGED <<state, sending, inFlight, gen, live>>
      BY <1>4 DEF Shutdown
    <2>2. \A q \in PluginRequests : Queued(q)' <=> Queued(q)
      BY <1>0, <2>1, AppendQueues
    <2> QED
      BY <1>1, <2>1, <2>2 DEF Alive
  <1>5. CASE TakeCommand
    <2>1. UNCHANGED <<state, inFlight, gen, live>> /\ sending = "none"
      BY <1>0, <1>5 DEF TakeCommand, WritingInv
    <2>2. \A q \in PluginRequests : sending # q
      BY <1>0, <2>1
    <2> QED
      BY <1>0, <1>1, <1>5, <2>1, <2>2, TakeMoves DEF Alive
  <1>6. CASE SendFrame
    <2>1. cmds' = cmds /\ sending' = "none" /\ gen' = gen /\ live' = live
      BY <1>6 DEF SendFrame
    <2>2. \A q \in PluginRequests : (Queued(q)' <=> Queued(q)) /\ sending' # q
      BY <1>0, <2>1 DEF Queued
    <2>3. CASE /\ Alive /\ state' = state
               /\ inFlight' = IF sending \in PluginRequests
                              THEN [inFlight EXCEPT ![sending] = gen] ELSE inFlight
      <3>1. CASE sending \in PluginRequests
        <4>1. PICK r \in PluginRequests : r = sending
          BY <3>1
        <4>2. /\ inFlight'[r] = gen /\ gen # 0
              /\ \A q \in PluginRequests \ {r} : inFlight'[q] = inFlight[q]
          BY <2>3, <4>1 DEF ProcInv, ProcTypeOK
        <4>3. state[r] # "idle" /\ ~Queued(r)
          BY <1>0, <4>1 DEF PlaceInv, Nowhere, InOnePlace
        <4>4. Phases[r] = "queued"
          BY <4>1, <4>3 DEF Phases, PhaseInv
        <4>5. Phases' = [Phases EXCEPT ![r] = "given"]
          <5>1. RequestPhase(r)' = "given"
            BY <2>2, <2>3, <4>2, <4>3 DEF PhaseInv
          <5>2. \A q \in PluginRequests \ {r} : RequestPhase(q)' = RequestPhase(q)
            BY <2>2, <2>3, <4>1, <4>2 DEF PhaseInv
          <5> QED
            BY <5>1, <5>2 DEF Phases
        <4>6. Rpc!Hand(r)
          BY <2>1, <2>3, <4>4, <4>5 DEF Rpc!Hand, Phases, Alive
        <4> QED
          BY <4>6 DEF Rpc!RpcNext
      <3>2. CASE sending \notin PluginRequests
        BY <1>1, <2>1, <2>2, <2>3, <3>2 DEF Alive
      <3> QED
        BY <3>1, <3>2
    <2>4. CASE Release({sending}) /\ inFlight' = inFlight
      <3>1. /\ state' = [r \in PluginRequests |-> state'[r]]
            /\ \A q \in PluginRequests :
                  state'[q] = IF q = sending /\ state[q] = "waiting" THEN "answered" ELSE state[q]
        BY <2>4 DEF Release
      <3>2. ASSUME NEW q \in PluginRequests
            PROVE  \/ RequestPhase(q)' = RequestPhase(q) /\ state'[q] = state[q]
                   \/ /\ RequestPhase(q) \in {"queued", "given"} /\ RequestPhase(q)' = "over"
                      /\ state'[q] = IF state[q] = "waiting" THEN "answered" ELSE state[q]
        <4>1. CASE q = sending
          <5>1. state[q] # "idle" /\ ~Queued(q) /\ inFlight[q] = 0
            BY <1>0, <4>1 DEF PlaceInv, Nowhere, InOnePlace
          <5> QED
            BY <2>2, <2>4, <3>1, <4>1, <5>1 DEF PhaseInv
        <4>2. CASE q # sending
          BY <2>2, <2>4, <3>1, <4>2 DEF PhaseInv
        <4> QED
          BY <4>1, <4>2
      <3> QED
        BY <1>0, <2>1, <3>1, <3>2, EndsMap DEF Alive
    <2> QED
      BY <1>6, <2>3, <2>4 DEF SendFrame
  <1>7. CASE RecvFrame \/ Eof \/ PingDeadline
    <2>1. /\ cmds' = cmds /\ sending' = sending /\ gen' = gen /\ live' = live
          /\ state' = [r \in PluginRequests |-> state'[r]]
      BY <1>7 DEF RecvFrame, Eof, PingDeadline, FailInFlight, Release
    <2>2. ASSUME NEW q \in PluginRequests
          PROVE  \/ inFlight'[q] = inFlight[q] /\ state'[q] = state[q]
                 \/ /\ inFlight'[q] = 0
                    /\ state'[q] = IF inFlight[q] # 0 /\ state[q] = "waiting"
                                   THEN "answered" ELSE state[q]
      <3>1. CASE RecvFrame
        BY <1>0, <3>1 DEF RecvFrame, Release, InTable, ProcTypeOK
      <3>2. CASE Eof \/ PingDeadline
        BY <3>2 DEF Eof, PingDeadline, FailInFlight, Release, InTable, NoneInFlight
      <3> QED
        BY <1>7, <3>1, <3>2
    <2>3. ASSUME NEW q \in PluginRequests
          PROVE  \/ RequestPhase(q)' = RequestPhase(q) /\ state'[q] = state[q]
                 \/ /\ RequestPhase(q) \in {"queued", "given"} /\ RequestPhase(q)' = "over"
                    /\ state'[q] = IF state[q] = "waiting" THEN "answered" ELSE state[q]
      <3>1. /\ Queued(q)' <=> Queued(q)
            /\ Nowhere(q) \/ InOnePlace(q)
            /\ state[q] = "idle" => Nowhere(q)
        BY <1>0, <2>1 DEF Queued, PlaceInv
      <3> QED
        BY <2>1, <2>2, <3>1 DEF PhaseInv, Nowhere, InOnePlace
    <2> QED
      BY <1>0, <2>1, <2>3, EndsMap DEF Alive
  <1>8. CASE PingDue \/ Farewell
    <2>1. UNCHANGED <<cmds, state, inFlight, gen, live>> /\ sending = "none"
          /\ sending' \notin PluginRequests
      BY <1>0, <1>8 DEF PingDue, Farewell, WritingInv
    <2>2. \A q \in PluginRequests : sending # q /\ sending' # q
      BY <1>0, <2>1
    <2> QED
      BY <1>1, <2>1, <2>2 DEF Queued, Alive
  <1>9. CASE Boot /\ gen' # gen
    <2>1. /\ gen' = gen + 1 /\ live' = live \union {gen + 1} /\ actor = "backoff"
          /\ UNCHANGED <<state, cmds, sending, inFlight>>
      BY <1>9 DEF Boot
    <2>2. ~Alive /\ Alive' /\ gen < MaxAttempts + 1
      <3>1. live = {} /\ gen <= attempts /\ attempts <= MaxAttempts /\ attempts \in Nat
        BY <2>1, ProcAssumption DEF ProcInv, NoChildLeaks, WritingInv, ProcTypeOK
      <3> QED
        BY <1>0, <2>1, <3>1, ProcAssumption DEF Alive
    <2>3. Phases' = Phases
      <3>1. \A q \in PluginRequests : RequestPhase(q)' = RequestPhase(q)
        BY <2>1 DEF PhaseInv, Queued
      <3> QED
        BY <3>1 DEF Phases
    <2>4. Rpc!Start
      BY <2>1, <2>2, <2>3 DEF Rpc!Start, Phases
    <2> QED
      BY <2>4 DEF Rpc!RpcNext
  <1>10. CASE \/ ChannelClosed \/ Ladder \/ Handshake \/ Reap
              \/ (Boot /\ gen' = gen)
    <2>1. gen' = gen /\ live' \subseteq live
      BY <1>0, <1>10 DEF ChannelClosed, Ladder, Handshake, Reap, Boot
    <2>2. CASE Exit
      BY <2>1, <2>2, ExitMaps DEF Alive
    <2>3. CASE ~Exit
      <3>1. UNCHANGED <<state, cmds, sending, inFlight>>
        BY <1>0, <1>10, <2>3, FailEffect DEF ChannelClosed, Ladder, Park, Handshake, Reap, Boot
      <3> QED
        BY <1>1, <2>1, <3>1 DEF Queued, Alive
    <2> QED
      BY <2>2, <2>3
  <1>11. CASE \/ DropHandle \/ SpawnReturns \/ PingElapses \/ ChildReads \/ ChildDies \/ HostReply
              \/ \E f \in PluginRequests \union {"ping"} : ChildAnswers(f)
              \/ \E f \in {"host", "garbage"} : ChildWrites(f)
              \/ (Shutdown /\ actor = "exited")
              \/ UNCHANGED pluginVars
    <2>1. UNCHANGED <<state, cmds, sending, inFlight, gen>> /\ live' \subseteq live
      BY <1>11 DEF DropHandle, SpawnReturns, PingElapses, ChildReads, ChildDies, HostReply,
                   ChildAnswers, ChildWrites, Shutdown, pluginVars
    <2> QED
      BY <1>1, <2>1 DEF Queued, Alive
  <1> QED
    BY <1>2, <1>3, <1>4, <1>5, <1>6, <1>7, <1>8, <1>9, <1>10, <1>11 DEF ProcNext, Actor, Child

\* The supervisor implements the at-most-once calls, for any number of callers
\* and any length of the ladder.
THEOREM ProcImplementsCalls == ProcSpec => ImplementsCalls
  <1>1. ProcInit => Rpc!RpcInit
    BY DEF ProcInit, Rpc!RpcInit, RequestPhase, Alive
  <1>2. ProcInv /\ PhaseInv /\ PhaseInv' /\ [ProcNext]_pluginVars => [Rpc!RpcNext]_Rpc!rpcVars
    BY CallStepMaps
  <1> QED
    BY <1>1, <1>2, ProcInvariance, PhasesFollowPlaces, PTL
       DEF ProcSpec, ImplementsCalls, Rpc!RpcSpec

-----------------------------------------------------------------------------
(* The stack of artifacts. *)

\* The inode of a command is not in use before the command creates it; the two
\* names never share an inode; and what is reported is the item of a push that
\* is done.  A command takes nothing out before its change.
DiskInv ==
    /\ \A c \in Commands : cmd[c].at \in {"idle", "load", "edit", "create"} =>
                               items # c /\ tmp # c
    /\ items = tmp => items = NoInode
    /\ \A c \in kept : cmd[c].at = "done"
    /\ \A c \in Commands : cmd[c].at \in {"idle", "load", "edit"} => cmd[c].victims = {}

\* What a command that is between load and save has in hand, and where its
\* temporary file is.
SavingInv ==
    \A c \in Commands :
        /\ cmd[c].at = "edit" => cmd[c].list = kept
        /\ cmd[c].at \in {"create", "write", "rename"} =>
              cmd[c].list = (kept \union (IF cmd[c].op = "push" THEN {c} ELSE {})) \ cmd[c].victims
        /\ cmd[c].at \in {"write", "rename"} => tmp # NoInode /\ cmd[c].fd = tmp
        /\ cmd[c].at = "write" => body[tmp].form = "empty"
        /\ cmd[c].at = "rename" => body[tmp] = Whole(cmd[c].list)

\* A payload is there until the command that takes its item out deletes it.
PayloadInv ==
    /\ \A c \in Commands : cmd[c].op = "push" /\ (cmd[c].at = "load" \/ Saving(c)) =>
          stored[c] # "none" \/ c \in cmd[c].victims
    /\ \A i \in kept : stored[i] = "none" =>
          \E c \in Commands : i \in cmd[c].victims /\ cmd[c].at # "done"

OneSaves == \A c, d \in Commands : Saving(c) /\ Saving(d) => c = d
ListInv == Content.form # "garbled" /\ Content.list = kept

UncrossedInv == OneSaves /\ ListInv /\ SavingInv /\ PayloadInv
StackInv == StackTypeOK /\ DiskInv /\ (~crossed => UncrossedInv)

LEMMA GoesEffect ==
  ASSUME cmd \in [Commands -> CommandStates], NEW c \in Commands, NEW next \in CommandStates,
         Goes(c, next)
  PROVE  /\ cmd' \in [Commands -> CommandStates]
         /\ cmd'[c] = next
         /\ \A d \in Commands : d # c => cmd'[d] = cmd[d]
  BY DEF Goes

LEMMA EndsEffect ==
  ASSUME cmd \in [Commands -> CommandStates], NEW c \in Commands,
         NEW how \in {"done", "failed"}, Ends(c, how)
  PROVE  /\ cmd' \in [Commands -> CommandStates]
         /\ cmd'[c].at = how /\ cmd'[c].op = cmd[c].op /\ cmd'[c].victims = cmd[c].victims
         /\ \A d \in Commands : d # c => cmd'[d] = cmd[d]
  <1> DEFINE next == [cmd[c] EXCEPT !.at = how, !.list = {}, !.fd = NoInode]
  <1>0. cmd[c] \in CommandStates
    OBVIOUS
  <1>1. next \in CommandStates /\ next.at = how /\ next.op = cmd[c].op
        /\ next.victims = cmd[c].victims
    BY <1>0 DEF CommandStates
  <1>2. Goes(c, next)
    BY DEF Ends
  <1> HIDE DEF next
  <1> QED
    BY <1>1, <1>2, GoesEffect

\* A command that ends without a save leaves everything as it is.
LEMMA FailureKeeps ==
  ASSUME StackInv, NEW c \in Commands, Ends(c, "failed"), cmd[c].at = "load" \/ Saving(c),
         UNCHANGED <<diskVars, stored, pool, born, seconds, kept, crossed>>,
         turn' \in [Commands -> Nat]
  PROVE  StackInv'
  <1>0. cmd \in [Commands -> CommandStates]
    BY DEF StackInv, StackTypeOK
  <1>1. /\ cmd' \in [Commands -> CommandStates]
        /\ cmd'[c].at = "failed" /\ cmd'[c].op = cmd[c].op /\ cmd'[c].victims = cmd[c].victims
        /\ \A d \in Commands : d # c => cmd'[d] = cmd[d]
    BY <1>0, EndsEffect
  <1>2. StackTypeOK'
    BY <1>1 DEF StackInv, StackTypeOK, diskVars
  <1>3. DiskInv'
    BY <1>1 DEF StackInv, StackTypeOK, DiskInv, diskVars, Saving
  <1>4. ASSUME ~crossed PROVE UncrossedInv'
    <2>1. OneSaves'
      BY <1>1, <1>4 DEF StackInv, UncrossedInv, OneSaves, Saving
    <2>2. ListInv'
      BY <1>1, <1>4 DEF StackInv, UncrossedInv, ListInv, Content, diskVars
    <2>3. SavingInv'
      BY <1>1, <1>4 DEF StackInv, UncrossedInv, SavingInv, diskVars
    <2>4. PayloadInv'
      BY <1>1, <1>4 DEF StackInv, UncrossedInv, PayloadInv, Saving
    <2> QED
      BY <2>1, <2>2, <2>3, <2>4 DEF UncrossedInv
  <1> QED
    BY <1>2, <1>3, <1>4 DEF StackInv

\* A command that starts.
LEMMA StartKeeps ==
  ASSUME StackInv, NEW c \in Commands, NEW next \in CommandStates, Goes(c, next),
         cmd[c].at = "idle", next.at = "load", next.victims = {}, UNCHANGED <<diskVars, turn, seconds, kept, crossed>>,
         pool' \in [Commands -> Pools], born' \in [Commands -> 0 .. MaxSeconds],
         stored' \in [Commands -> {"blob", "path", "none"}],
         \A d \in Commands : d # c => stored'[d] = stored[d],
         next.op = "push" => stored'[c] # "none"
  PROVE  StackInv'
  <1>0. cmd \in [Commands -> CommandStates]
    BY DEF StackInv, StackTypeOK
  <1>1. /\ cmd' \in [Commands -> CommandStates]
        /\ cmd'[c] = next
        /\ \A d \in Commands : d # c => cmd'[d] = cmd[d]
    BY <1>0, GoesEffect
  <1>2. StackTypeOK'
    BY <1>1 DEF StackInv, StackTypeOK, diskVars
  <1>3. DiskInv'
    BY <1>1 DEF StackInv, StackTypeOK, DiskInv, diskVars
  <1>4. ASSUME ~crossed PROVE UncrossedInv'
    <2>1. OneSaves'
      BY <1>1, <1>4 DEF StackInv, UncrossedInv, OneSaves, Saving
    <2>2. ListInv'
      BY <1>1, <1>4 DEF StackInv, UncrossedInv, ListInv, Content, diskVars
    <2>3. SavingInv'
      BY <1>1, <1>4 DEF StackInv, UncrossedInv, SavingInv, diskVars
    <2>4. PayloadInv'
      <3>1. c \notin kept
        BY DEF StackInv, DiskInv
      <3>2. cmd[c].victims = {}
        BY DEF StackInv, DiskInv
      <3> QED
        BY <1>1, <1>4, <3>1, <3>2 DEF StackInv, StackTypeOK, UncrossedInv, PayloadInv, Saving
    <2> QED
      BY <2>1, <2>2, <2>3, <2>4 DEF UncrossedInv
  <1> QED
    BY <1>2, <1>3, <1>4 DEF StackInv

\* A change in memory: what goes was listed, and only its payloads are touched.
LEMMA EditKeeps ==
  ASSUME StackInv, NEW c \in Commands, NEW list \in SUBSET Commands, NEW gone \in SUBSET list,
         cmd[c].at = "edit", ToSave(c, list, gone),
         list = cmd[c].list \union (IF cmd[c].op = "push" THEN {c} ELSE {}),
         stored' \in [Commands -> {"blob", "path", "none"}],
         \A d \in Commands : d \notin gone => stored'[d] = stored[d],
         UNCHANGED <<diskVars, pool, born, turn, seconds, kept, crossed>>
  PROVE  StackInv'
  <1> DEFINE next == [cmd[c] EXCEPT !.at = "create", !.list = list \ gone, !.victims = gone]
  <1>0. cmd \in [Commands -> CommandStates] /\ cmd[c] \in CommandStates
    BY DEF StackInv, StackTypeOK
  <1>1. /\ next \in CommandStates /\ next.at = "create" /\ next.op = cmd[c].op
        /\ next.victims = gone /\ next.list = list \ gone
    BY <1>0 DEF CommandStates
  <1>2. Goes(c, next)
    BY DEF ToSave
  <1> HIDE DEF next
  <1>3. /\ cmd' \in [Commands -> CommandStates]
        /\ cmd'[c] = next
        /\ \A d \in Commands : d # c => cmd'[d] = cmd[d]
    BY <1>0, <1>1, <1>2, GoesEffect
  <1>4. StackTypeOK'
    BY <1>3 DEF StackInv, StackTypeOK, diskVars
  <1>5. DiskInv'
    BY <1>1, <1>3 DEF StackInv, StackTypeOK, DiskInv, diskVars
  <1>6. cmd[c].victims = {}
    BY <1>0 DEF StackInv, DiskInv
  <1>7. ASSUME ~crossed PROVE UncrossedInv'
    <2>0. UncrossedInv /\ cmd[c].list = kept
      BY <1>7 DEF StackInv, UncrossedInv, SavingInv
    <2>1. OneSaves'
      BY <1>1, <1>3, <2>0 DEF UncrossedInv, OneSaves, Saving
    <2>2. ListInv'
      BY <1>3, <2>0 DEF UncrossedInv, ListInv, Content, diskVars
    <2>3. SavingInv'
      BY <1>1, <1>3, <2>0 DEF UncrossedInv, SavingInv, diskVars
    <2>4. PayloadInv'
      <3>1. ASSUME NEW d \in Commands, cmd'[d].op = "push", cmd'[d].at = "load" \/ Saving(d)'
            PROVE  stored'[d] # "none" \/ d \in cmd'[d].victims
        <4>1. CASE d = c
          BY <1>1, <1>3, <1>6, <2>0, <3>1, <4>1 DEF UncrossedInv, PayloadInv, Saving
        <4>2. CASE d # c
          <5>1. d \notin kept
            BY <1>3, <3>1, <4>2 DEF StackInv, DiskInv, Saving
          <5> QED
            BY <1>3, <2>0, <3>1, <4>2, <5>1 DEF UncrossedInv, PayloadInv, Saving
        <4> QED
          BY <4>1, <4>2
      <3>2. ASSUME NEW i \in kept, stored'[i] = "none"
            PROVE  \E d \in Commands : i \in cmd'[d].victims /\ cmd'[d].at # "done"
        <4>0. i \in Commands
          BY DEF StackInv, StackTypeOK
        <4>1. CASE i \in gone
          BY <1>1, <1>3, <4>1
        <4>2. CASE i \notin gone
          <5>1. PICK d \in Commands : i \in cmd[d].victims /\ cmd[d].at # "done"
            BY <2>0, <3>2, <4>0, <4>2 DEF UncrossedInv, PayloadInv
          <5>2. d # c
            BY <1>6, <5>1
          <5> QED
            BY <1>3, <5>1, <5>2
        <4> QED
          BY <4>1, <4>2
      <3> QED
        BY <3>1, <3>2 DEF PayloadInv
    <2> QED
      BY <2>1, <2>2, <2>3, <2>4 DEF UncrossedInv
  <1> QED
    BY <1>4, <1>5, <1>7 DEF StackInv

LEMMA LoadKeeps ==
  ASSUME StackInv, NEW c \in Commands, Load(c)
  PROVE  StackInv'
  <1>0. /\ cmd \in [Commands -> CommandStates] /\ cmd[c] \in CommandStates
        /\ turn \in [Commands -> Nat] /\ Content \in Bodies
    BY DEF StackInv, StackTypeOK, Content, Empty, Bodies
  <1>1. CASE Content.form = "garbled"
    BY <1>0, <1>1, FailureKeeps DEF Load
  <1>2. CASE Content.form # "garbled"
    <2> DEFINE next == [cmd[c] EXCEPT !.at = "edit", !.list = Content.list]
    <2>1. /\ next \in CommandStates /\ next.at = "edit" /\ next.op = cmd[c].op
          /\ next.victims = cmd[c].victims /\ next.list = Content.list
      BY <1>0 DEF CommandStates, Bodies
    <2>2. Goes(c, next)
      BY <1>2 DEF Load
    <2> HIDE DEF next
    <2>3. /\ cmd' \in [Commands -> CommandStates]
          /\ cmd'[c] = next
          /\ \A d \in Commands : d # c => cmd'[d] = cmd[d]
      BY <1>0, <2>1, <2>2, GoesEffect
    <2>4. turn' \in [Commands -> Nat]
      <3> DEFINE loaded == {d \in Commands : turn[d] # 0}
      <3>1. Cardinality(loaded) \in Nat
        BY StackAssumption, FS_Subset, FS_CardinalityType
      <3> QED
        BY <1>0, <1>2, <3>1 DEF Load
    <2>5. StackTypeOK'
      BY <1>2, <2>3, <2>4 DEF Load, StackInv, StackTypeOK, diskVars
    <2>6. DiskInv'
      BY <2>1, <2>3 DEF Load, StackInv, StackTypeOK, DiskInv, diskVars
    <2>7. ASSUME ~crossed' PROVE UncrossedInv'
      <3>0. UncrossedInv /\ \A d \in Commands \ {c} : ~Saving(d)
        BY <1>2, <2>7 DEF Load, StackInv, StackTypeOK
      <3>1. OneSaves'
        BY <2>1, <2>3, <3>0 DEF OneSaves, Saving
      <3>2. ListInv'
        BY <3>0 DEF Load, UncrossedInv, ListInv, Content, diskVars
      <3>3. SavingInv'
        BY <2>1, <2>3, <3>0 DEF Load, UncrossedInv, SavingInv, ListInv, diskVars
      <3>4. PayloadInv'
        BY <2>1, <2>3, <3>0 DEF Load, UncrossedInv, PayloadInv, Saving
      <3> QED
        BY <3>1, <3>2, <3>3, <3>4 DEF UncrossedInv
    <2> QED
      BY <2>5, <2>6, <2>7 DEF StackInv
  <1> QED
    BY <1>1, <1>2

LEMMA CreateKeeps ==
  ASSUME StackInv, NEW c \in Commands, Create(c)
  PROVE  StackInv'
  <1> DEFINE i == IF tmp = NoInode THEN c ELSE tmp
             next == [cmd[c] EXCEPT !.at = "write", !.fd = i]
  <1>0. /\ cmd \in [Commands -> CommandStates] /\ cmd[c] \in CommandStates
        /\ i \in Commands /\ i # NoInode /\ i # items
        /\ cmd[c].at = "create" /\ body \in [Commands -> Bodies]
        /\ items \in Commands \union {NoInode}
    BY StackAssumption DEF Create, StackInv, StackTypeOK, DiskInv
  <1>1. /\ tmp' = i /\ body' = [body EXCEPT ![i] = Empty] /\ Goes(c, next)
    BY DEF Create
  <1> HIDE DEF i
  <1>2. /\ next \in CommandStates /\ next.at = "write" /\ next.op = cmd[c].op
        /\ next.victims = cmd[c].victims /\ next.list = cmd[c].list /\ next.fd = i
    BY <1>0 DEF CommandStates
  <1> HIDE DEF next
  <1>3. /\ cmd' \in [Commands -> CommandStates]
        /\ cmd'[c] = next
        /\ \A d \in Commands : d # c => cmd'[d] = cmd[d]
    BY <1>0, <1>1, <1>2, GoesEffect
  <1>4. /\ body' \in [Commands -> Bodies] /\ body'[i].form = "empty"
        /\ \A d \in Commands : d # i => body'[d] = body[d]
    BY <1>0, <1>1 DEF Empty, Bodies
  <1>5. StackTypeOK'
    BY <1>0, <1>1, <1>3, <1>4 DEF Create, StackInv, StackTypeOK, itemVars
  <1>6. DiskInv'
    <2>1. \A d \in Commands : cmd'[d].at \in {"idle", "load", "edit", "create"} => d # i
      BY <1>2, <1>3 DEF i, StackInv, DiskInv
    <2> QED
      BY <1>0, <1>1, <1>2, <1>3, <2>1 DEF Create, StackInv, StackTypeOK, DiskInv
  <1>7. ASSUME ~crossed PROVE UncrossedInv'
    <2>0. UncrossedInv /\ \A d \in Commands \ {c} : ~Saving(d)
      BY <1>0, <1>7 DEF StackInv, UncrossedInv, OneSaves, Saving
    <2>1. OneSaves'
      BY <1>2, <1>3, <2>0 DEF OneSaves, Saving
    <2>2. ListInv'
      <3>1. Content' = Content
        BY <1>0, <1>4 DEF Create, Content
      <3> QED
        BY <2>0, <3>1 DEF Create, UncrossedInv, ListInv
    <2>3. SavingInv'
      BY <1>0, <1>1, <1>2, <1>3, <1>4, <2>0 DEF Create, UncrossedInv, SavingInv, Saving
    <2>4. PayloadInv'
      BY <1>0, <1>2, <1>3, <2>0 DEF Create, itemVars, UncrossedInv, PayloadInv, Saving
    <2> QED
      BY <2>1, <2>2, <2>3, <2>4 DEF UncrossedInv
  <1> QED
    BY <1>5, <1>6, <1>7 DEF Create, StackInv

LEMMA WriteKeeps ==
  ASSUME StackInv, NEW c \in Commands, Write(c)
  PROVE  StackInv'
  <1> DEFINE i == cmd[c].fd
             next == [cmd[c] EXCEPT !.at = "rename"]
  <1>0. /\ cmd \in [Commands -> CommandStates] /\ cmd[c] \in CommandStates
        /\ cmd[c].at = "write" /\ body \in [Commands -> Bodies]
        /\ items \in Commands \union {NoInode}
    BY DEF Write, StackInv, StackTypeOK
  <1>1. PICK b \in {Whole(cmd[c].list)} \union
                   (IF body[i].form = "empty" THEN {} ELSE {Garbled}) :
          body' = [body EXCEPT ![i] = b]
    BY DEF Write
  <1>2. b \in Bodies
    BY <1>0, <1>1 DEF Whole, Garbled, Bodies, CommandStates
  <1>3. /\ next \in CommandStates /\ next.at = "rename" /\ next.op = cmd[c].op
        /\ next.victims = cmd[c].victims /\ next.list = cmd[c].list /\ next.fd = i
    BY <1>0 DEF CommandStates
  <1>4. Goes(c, next)
    BY DEF Write
  <1> HIDE DEF next
  <1>5. /\ cmd' \in [Commands -> CommandStates]
        /\ cmd'[c] = next
        /\ \A d \in Commands : d # c => cmd'[d] = cmd[d]
    BY <1>0, <1>3, <1>4, GoesEffect
  <1>6. /\ body' \in [Commands -> Bodies]
        /\ \A d \in Commands : d # i => body'[d] = body[d]
        /\ i \in Commands => body'[i] = b
    BY <1>0, <1>1, <1>2
  <1>7. StackTypeOK'
    BY <1>5, <1>6 DEF Write, StackInv, StackTypeOK, itemVars
  <1>8. DiskInv'
    BY <1>0, <1>3, <1>5 DEF Write, StackInv, StackTypeOK, DiskInv
  <1>9. ASSUME ~crossed PROVE UncrossedInv'
    <2>0. UncrossedInv /\ \A d \in Commands \ {c} : ~Saving(d)
      BY <1>0, <1>9 DEF StackInv, UncrossedInv, OneSaves, Saving
    <2>1. i = tmp /\ tmp # NoInode /\ body[i].form = "empty"
      BY <1>0, <2>0 DEF UncrossedInv, SavingInv
    <2>2. i \in Commands /\ i # items /\ body'[i] = Whole(cmd[c].list)
      BY <1>0, <1>1, <1>6, <2>1 DEF StackInv, StackTypeOK, DiskInv
    <2>3. OneSaves'
      BY <1>3, <1>5, <2>0 DEF OneSaves, Saving
    <2>4. ListInv'
      <3>1. Content' = Content
        BY <1>0, <1>6, <2>2 DEF Write, Content
      <3> QED
        BY <2>0, <3>1 DEF Write, UncrossedInv, ListInv
    <2>5. SavingInv'
      BY <1>0, <1>3, <1>5, <2>0, <2>1, <2>2 DEF Write, UncrossedInv, SavingInv, Saving
    <2>6. PayloadInv'
      BY <1>0, <1>3, <1>5, <2>0 DEF Write, itemVars, UncrossedInv, PayloadInv, Saving
    <2> QED
      BY <2>3, <2>4, <2>5, <2>6 DEF UncrossedInv
  <1> QED
    BY <1>7, <1>8, <1>9 DEF Write, StackInv

LEMMA RenameKeeps ==
  ASSUME StackInv, NEW c \in Commands, Rename(c)
  PROVE  StackInv'
  <1>0. /\ cmd \in [Commands -> CommandStates] /\ cmd[c].at = "rename"
        /\ turn \in [Commands -> Nat] /\ cmd[c] \in CommandStates
        /\ {items, tmp} \subseteq Commands \union {NoInode} /\ kept \subseteq Commands
    BY DEF Rename, StackInv, StackTypeOK
  <1>1. CASE tmp = NoInode
    <2>1. UNCHANGED <<diskVars, stored, pool, born, seconds, kept, crossed>> /\ turn' = turn
      BY <1>1 DEF Rename, diskVars, itemVars
    <2>2. Saving(c) /\ Ends(c, "failed")
      BY <1>0, <1>1 DEF Rename, Saving
    <2> QED
      BY <1>0, <2>1, <2>2, FailureKeeps
  <1>2. CASE tmp # NoInode
    <2>0. /\ items' = tmp /\ tmp' = NoInode /\ Ends(c, "done")
          /\ kept' = (kept \union (IF cmd[c].op = "push" THEN {c} ELSE {})) \ cmd[c].victims
      BY <1>2 DEF Rename, Complete
    <2>1. /\ cmd' \in [Commands -> CommandStates]
          /\ cmd'[c].at = "done" /\ cmd'[c].op = cmd[c].op /\ cmd'[c].victims = cmd[c].victims
          /\ \A d \in Commands : d # c => cmd'[d] = cmd[d]
      BY <1>0, <2>0, EndsEffect
    <2>2. kept' \subseteq kept \union {c}
      BY <2>0
    <2>3. StackTypeOK'
      BY <1>0, <2>0, <2>1, <2>2 DEF Rename, StackInv, StackTypeOK, itemVars
    <2>4. DiskInv'
      BY <1>0, <1>2, <2>0, <2>1, <2>2, StackAssumption
        DEF Rename, StackInv, StackTypeOK, DiskInv
    <2>5. ASSUME ~crossed PROVE UncrossedInv'
      <3>0. UncrossedInv /\ \A d \in Commands \ {c} : ~Saving(d)
        BY <1>0, <2>5 DEF StackInv, UncrossedInv, OneSaves, Saving
      <3>1. /\ body[tmp] = Whole(cmd[c].list)
            /\ cmd[c].list = (kept \union (IF cmd[c].op = "push" THEN {c} ELSE {})) \ cmd[c].victims
        BY <1>0, <3>0 DEF UncrossedInv, SavingInv
      <3>2. OneSaves'
        BY <2>1, <3>0 DEF OneSaves, Saving
      <3>3. ListInv'
        BY <1>2, <2>0, <3>1 DEF Rename, ListInv, Content, Whole
      <3>4. SavingInv'
        BY <2>1, <3>0 DEF SavingInv, Saving
      <3>5. PayloadInv'
        <4>1. ASSUME NEW d \in Commands, cmd'[d].op = "push", cmd'[d].at = "load" \/ Saving(d)'
              PROVE  stored'[d] # "none" \/ d \in cmd'[d].victims
          BY <2>1, <3>0, <4>1 DEF Rename, itemVars, UncrossedInv, PayloadInv, Saving
        <4>2. ASSUME NEW i \in kept', stored'[i] = "none"
              PROVE  \E d \in Commands : i \in cmd'[d].victims /\ cmd'[d].at # "done"
          <5>1. i \notin cmd[c].victims /\ stored[i] = "none"
            BY <2>0, <4>2 DEF Rename, itemVars
          <5>2. i \in kept
            BY <1>0, <2>0, <3>0, <4>2, <5>1 DEF UncrossedInv, PayloadInv, Saving
          <5>3. PICK d \in Commands : i \in cmd[d].victims /\ cmd[d].at # "done"
            BY <3>0, <5>1, <5>2 DEF UncrossedInv, PayloadInv
          <5> QED
            BY <2>1, <5>1, <5>3
        <4> QED
          BY <4>1, <4>2 DEF PayloadInv
      <3> QED
        BY <3>2, <3>3, <3>4, <3>5 DEF UncrossedInv
    <2> QED
      BY <2>3, <2>4, <2>5 DEF Rename, StackInv
  <1> QED
    BY <1>1, <1>2

LEMMA StackStep == StackInv /\ [StackNext]_stackVars => StackInv'
  <1> SUFFICES ASSUME StackInv, [StackNext]_stackVars PROVE StackInv'
    OBVIOUS
  <1>0. /\ cmd \in [Commands -> CommandStates] /\ pool \in [Commands -> Pools]
        /\ born \in [Commands -> 0 .. MaxSeconds] /\ seconds \in 0 .. MaxSeconds
        /\ stored \in [Commands -> {"blob", "path", "none"}] /\ turn \in [Commands -> Nat]
    BY DEF StackInv, StackTypeOK
  <1>1. CASE ClockTicks
    <2>1. seconds' \in 0 .. MaxSeconds
      BY <1>0, <1>1, StackAssumption DEF ClockTicks
    <2>2. StackTypeOK'
      BY <1>1, <2>1 DEF ClockTicks, StackInv, StackTypeOK, diskVars, itemVars
    <2> QED
      BY <1>1, <2>2 DEF ClockTicks, StackInv, DiskInv, UncrossedInv, OneSaves, ListInv, SavingInv,
                        PayloadInv, Saving, Content, diskVars, itemVars
  <1>2. ASSUME NEW c \in Commands, NEW payload \in {"blob", "path"}, NEW k \in Pools,
               StartPush(c, payload, k)
        PROVE  StackInv'
    <2> DEFINE next == [Idle EXCEPT !.op = "push", !.target = c, !.at = "load"]
    <2>1. next \in CommandStates /\ next.at = "load" /\ next.victims = {}
      BY DEF Idle, CommandStates
    <2>2. /\ pool' \in [Commands -> Pools] /\ born' \in [Commands -> 0 .. MaxSeconds]
          /\ stored' \in [Commands -> {"blob", "path", "none"}] /\ stored'[c] # "none"
          /\ \A d \in Commands : d # c => stored'[d] = stored[d]
      BY <1>0, <1>2 DEF StartPush
    <2>3. /\ cmd[c].at = "idle" /\ Goes(c, next)
          /\ UNCHANGED <<diskVars, turn, seconds, kept, crossed>>
      BY <1>2 DEF StartPush
    <2> HIDE DEF next
    <2> QED
      BY <2>1, <2>2, <2>3, StartKeeps
  <1>3. ASSUME NEW c \in Commands, NEW op \in {"pop", "remove", "move"},
               NEW i \in Commands \ {c}, StartOther(c, op, i)
        PROVE  StackInv'
    <2> DEFINE next == [Idle EXCEPT !.op = op, !.target = i, !.at = "load"]
    <2>1. next \in CommandStates /\ next.at = "load" /\ next.victims = {} /\ next.op # "push"
      BY DEF Idle, CommandStates
    <2>2. /\ cmd[c].at = "idle" /\ Goes(c, next)
          /\ UNCHANGED <<diskVars, turn, seconds, kept, crossed>> /\ UNCHANGED <<stored, pool, born>>
      BY <1>3 DEF StartOther, itemVars
    <2> HIDE DEF next
    <2> QED
      BY <1>0, <2>1, <2>2, StartKeeps
  <1>4. ASSUME NEW c \in Commands, NEW k \in Pools, StartPop(c, k) PROVE StackInv'
    <2> DEFINE next == [Idle EXCEPT !.op = "pop", !.target = c, !.at = "load"]
    <2>1. next \in CommandStates /\ next.at = "load" /\ next.victims = {} /\ next.op # "push"
      BY DEF Idle, CommandStates
    <2>2. /\ cmd[c].at = "idle" /\ Goes(c, next) /\ pool' \in [Commands -> Pools]
          /\ UNCHANGED <<diskVars, turn, seconds, kept, crossed>> /\ UNCHANGED <<stored, born>>
      BY <1>0, <1>4 DEF StartPop
    <2> HIDE DEF next
    <2> QED
      BY <1>0, <2>1, <2>2, StartKeeps
  <1>5. ASSUME NEW c \in Commands, EditPush(c) PROVE StackInv'
    <2> DEFINE list == cmd[c].list \union {c}
               gone == Evicted(list)
    <2>1. /\ list \in SUBSET Commands /\ gone \in SUBSET list
          /\ list = cmd[c].list \union (IF cmd[c].op = "push" THEN {c} ELSE {})
      BY <1>0, <1>5 DEF EditPush, Evicted, CommandStates
    <2>2. /\ cmd[c].at = "edit" /\ ToSave(c, list, gone) /\ DeleteBlobs(gone)
          /\ UNCHANGED <<diskVars, pool, born, turn, seconds, kept, crossed>>
      BY <1>5 DEF EditPush
    <2> HIDE DEF list, gone
    <2>3. /\ stored' \in [Commands -> {"blob", "path", "none"}]
          /\ \A d \in Commands : d \notin gone => stored'[d] = stored[d]
      BY <1>0, <2>2 DEF DeleteBlobs
    <2> QED
      BY <2>1, <2>2, <2>3, EditKeeps
  <1>6. ASSUME NEW c \in Commands, EditRemove(c) PROVE StackInv'
    <2>1. CASE Chosen(c) = {}
      <3>1. Saving(c) /\ Ends(c, "failed") /\ turn' = turn
            /\ UNCHANGED <<diskVars, stored, pool, born, seconds, kept, crossed>>
        BY <1>6, <2>1 DEF EditRemove, Saving
      <3> QED
        BY <1>0, <3>1, FailureKeeps
    <2>2. CASE Chosen(c) # {}
      <3> DEFINE list == cmd[c].list
                 gone == Chosen(c)
      <3>1. /\ list \in SUBSET Commands /\ gone \in SUBSET list
            /\ list = cmd[c].list \union (IF cmd[c].op = "push" THEN {c} ELSE {})
        BY <1>0, <1>6 DEF EditRemove, Chosen, Top, CommandStates
      <3>2. /\ cmd[c].at = "edit" /\ ToSave(c, list, gone) /\ DeleteBlobs(gone)
            /\ UNCHANGED <<diskVars, pool, born, turn, seconds, kept, crossed>>
        BY <1>6, <2>2 DEF EditRemove
      <3> HIDE DEF list, gone
      <3>3. /\ stored' \in [Commands -> {"blob", "path", "none"}]
            /\ \A d \in Commands : d \notin gone => stored'[d] = stored[d]
        BY <1>0, <3>2 DEF DeleteBlobs
      <3> QED
        BY <3>1, <3>2, <3>3, EditKeeps
    <2> QED
      BY <2>1, <2>2
  <1>7. ASSUME NEW c \in Commands, EditMove(c) PROVE StackInv'
    <2> DEFINE i == cmd[c].target
    <2>1. CASE Chosen(c) = {} \/ stored[i] = "none"
      <3>1. Saving(c) /\ Ends(c, "failed") /\ turn' = turn
            /\ UNCHANGED <<diskVars, stored, pool, born, seconds, kept, crossed>>
        BY <1>7, <2>1 DEF EditMove, Saving
      <3> QED
        BY <1>0, <3>1, FailureKeeps
    <2>2. CASE ~(Chosen(c) = {} \/ stored[i] = "none")
      <3> DEFINE list == cmd[c].list
                 gone == {i}
      <3>1. /\ list \in SUBSET Commands /\ gone \in SUBSET list
            /\ list = cmd[c].list \union (IF cmd[c].op = "push" THEN {c} ELSE {})
        BY <1>0, <1>7, <2>2 DEF EditMove, Chosen, CommandStates
      <3>2. /\ cmd[c].at = "edit" /\ ToSave(c, list, gone) /\ stored' = [stored EXCEPT ![i] = "none"]
            /\ UNCHANGED <<diskVars, pool, born, turn, seconds, kept, crossed>>
        BY <1>7, <2>2 DEF EditMove
      <3>3. /\ stored' \in [Commands -> {"blob", "path", "none"}]
            /\ \A d \in Commands : d \notin gone => stored'[d] = stored[d]
        BY <1>0, <3>2
      <3> HIDE DEF list, gone
      <3> QED
        BY <3>1, <3>2, <3>3, EditKeeps
    <2> QED
      BY <2>1, <2>2
  <1>8. ASSUME NEW c \in Commands, Die(c) PROVE StackInv'
    <2>1. /\ Ends(c, "failed") /\ (cmd[c].at = "load" \/ Saving(c)) /\ turn' = turn
          /\ UNCHANGED <<diskVars, stored, pool, born, seconds, kept, crossed>>
      BY <1>8 DEF Die, itemVars
    <2> QED
      BY <1>0, <2>1, FailureKeeps
  <1>9. CASE UNCHANGED stackVars
    BY <1>9 DEF stackVars, diskVars, itemVars, StackInv, StackTypeOK, DiskInv, UncrossedInv, OneSaves,
                ListInv, SavingInv, PayloadInv, Saving, Content
  <1> QED
    BY <1>1, <1>2, <1>3, <1>4, <1>5, <1>6, <1>7, <1>8, <1>9, LoadKeeps, CreateKeeps, WriteKeeps,
       RenameKeeps DEF StackNext

LEMMA StackStart == StackInit => StackInv
  <1> SUFFICES ASSUME StackInit PROVE StackInv
    OBVIOUS
  <1>1. /\ MaxSeconds \in Nat /\ NoInode \notin Commands
        /\ (CHOOSE k \in Pools : TRUE) \in Pools
    BY StackAssumption
  <1>2. Idle \in CommandStates /\ Empty \in Bodies /\ Idle.at = "idle" /\ Idle.victims = {}
        /\ Content = Empty /\ Empty.form = "empty" /\ Empty.list = {}
    BY DEF Idle, CommandStates, Empty, Bodies, StackInit, Content
  <1>3. \A c \in Commands : cmd[c] = Idle
    BY DEF StackInit
  <1>4. StackTypeOK
    <2>1. /\ born \in [Commands -> 0 .. MaxSeconds] /\ seconds \in 0 .. MaxSeconds
          /\ turn \in [Commands -> Nat]
      BY <1>1 DEF StackInit
    <2>2. /\ body \in [Commands -> Bodies] /\ cmd \in [Commands -> CommandStates]
          /\ pool \in [Commands -> Pools] /\ stored \in [Commands -> {"blob", "path", "none"}]
      BY <1>1, <1>2 DEF StackInit
    <2> QED
      BY <2>1, <2>2 DEF StackInit, StackTypeOK
  <1>5. DiskInv
    BY <1>1, <1>2, <1>3 DEF StackInit, DiskInv
  <1>6. UncrossedInv
    BY <1>2, <1>3 DEF StackInit, UncrossedInv, OneSaves, ListInv, SavingInv, PayloadInv, Saving
  <1> QED
    BY <1>4, <1>5, <1>6 DEF StackInv

LEMMA StackInvariance == StackSpec => []StackInv
  BY StackStart, StackStep, PTL DEF StackSpec

\* Types, for any number of commands, pools of any capacity, any clock.
THEOREM StackTypeCorrect == StackSpec => []StackTypeOK
  <1>1. StackInv => StackTypeOK
    BY DEF StackInv
  <1> QED
    BY <1>1, StackInvariance, PTL

\* As long as no two commands cross, items.json lists what the completed ones
\* left, and a payload is missing only where a command died between its change
\* and its save.
THEOREM StackIsTrue == StackSpec => []StackIsAsReported
  <1>1. StackInv => StackIsAsReported
    BY DEF StackInv, UncrossedInv, ListInv, PayloadInv, StackIsAsReported
  <1> QED
    BY <1>1, StackInvariance, PTL

-----------------------------------------------------------------------------
(* The capacity of the pools, whatever commands cross. *)

\* A list that may be saved: no pool is above its capacity, and whoever is
\* listed has its place among the commands that loaded.
Within(list, kind, place) ==
    /\ \A i \in list : place[i] # 0
    /\ \A k \in Pools : Cardinality({i \in list : kind[i] = k}) <= PoolCap

Loaded == {d \in Commands : turn[d] # 0}

\* A command gets its place when it loads, once, and no two get the same one.
OrderInv ==
    /\ \A c \in Commands : /\ cmd[c].at \in {"idle", "load"} => turn[c] = 0
                           /\ Saving(c) => turn[c] # 0
    /\ \A c, d \in Commands : turn[c] # 0 /\ turn[c] = turn[d] => c = d
    /\ \A c \in Commands : turn[c] <= Cardinality(Loaded)

\* The lists on the disk and in the commands' hands.
ListsInv ==
    \A c \in Commands : Within(body[c].list, pool, turn) /\ Within(cmd[c].list, pool, turn)

CapInv == StackTypeOK /\ OrderInv /\ ListsInv

LEMMA EmptyWithin ==
  ASSUME NEW kind, NEW place
  PROVE  Within({}, kind, place)
  <1>1. \A k \in Pools : {i \in {} : kind[i] = k} = {}
    OBVIOUS
  <1> QED
    BY <1>1, FS_EmptySet, StackAssumption DEF Within

\* What is taken out of a list leaves it within the capacity.
LEMMA PartWithin ==
  ASSUME NEW list \in SUBSET Commands, NEW part \in SUBSET list, NEW kind, NEW place,
         Within(list, kind, place)
  PROVE  Within(part, kind, place)
  <1> SUFFICES ASSUME NEW k \in Pools
               PROVE  Cardinality({i \in part : kind[i] = k}) <= PoolCap
    BY DEF Within
  <1> DEFINE all == {i \in list : kind[i] = k}
             some == {i \in part : kind[i] = k}
  <1>1. IsFiniteSet(all) /\ some \in SUBSET all
    BY StackAssumption, FS_Subset
  <1>2. Cardinality(all) <= PoolCap
    BY DEF Within
  <1>3. Cardinality(some) <= Cardinality(all) /\ Cardinality(some) \in Nat /\ Cardinality(all) \in Nat
    BY <1>1, FS_Subset, FS_CardinalityType
  <1> HIDE DEF all, some
  <1>4. Cardinality(some) <= PoolCap
    BY <1>2, <1>3, StackAssumption
  <1> QED
    BY <1>4 DEF some

\* Commands that are not in the list may change their pool and get a place.
LEMMA SameWithin ==
  ASSUME NEW list \in SUBSET Commands, NEW kind, NEW place, NEW kindNext, NEW placeNext,
         Within(list, kind, place),
         \A i \in list : kindNext[i] = kind[i] /\ placeNext[i] = place[i]
  PROVE  Within(list, kindNext, placeNext)
  <1>1. \A k \in Pools : {i \in list : kindNext[i] = k} = {i \in list : kind[i] = k}
    OBVIOUS
  <1> QED
    BY <1>1 DEF Within

\* enforce_cap does what it is for. Of two items of a pool that both stay, one
\* comes before the other, so that they have different numbers of items before
\* them; and these numbers are below the capacity.
LEMMA EvictionCaps ==
  ASSUME NEW list \in SUBSET Commands, pool \in [Commands -> Pools],
         born \in [Commands -> 0 .. MaxSeconds], turn \in [Commands -> Nat],
         \A i, j \in list : i # j => turn[i] # turn[j],
         NEW k \in Pools
  PROVE  Cardinality({j \in list \ Evicted(list) : pool[j] = k}) <= PoolCap
  <1> DEFINE stay == {j \in list \ Evicted(list) : pool[j] = k}
             Ahead(j) == {i \in list : pool[i] = pool[j] /\ Before(i, j)}
             rank == [j \in stay |-> Cardinality(Ahead(j))]
  <1>1. IsFiniteSet(list) /\ IsFiniteSet(stay)
    BY StackAssumption, FS_Subset
  <1>2. \A j \in list : IsFiniteSet(Ahead(j)) /\ Cardinality(Ahead(j)) \in Nat
    <2> SUFFICES ASSUME NEW j \in list
                 PROVE  IsFiniteSet(Ahead(j)) /\ Cardinality(Ahead(j)) \in Nat
      OBVIOUS
    <2>1. Ahead(j) \in SUBSET list
      OBVIOUS
    <2> QED
      BY <1>1, <2>1, FS_Subset, FS_CardinalityType
  <1>3. \A j \in stay : Cardinality(Ahead(j)) \in 0 .. PoolCap - 1
    <2> SUFFICES ASSUME NEW j \in stay PROVE Cardinality(Ahead(j)) \in 0 .. PoolCap - 1
      OBVIOUS
    <2>1. j \in list /\ ~(PoolCap <= Cardinality(Ahead(j)))
      BY DEF Evicted
    <2> HIDE DEF Ahead
    <2> QED
      BY <1>2, <2>1, StackAssumption
  <1>4. ASSUME NEW x \in stay, NEW y \in stay, Before(x, y)
        PROVE  Cardinality(Ahead(x)) # Cardinality(Ahead(y))
    <2>1. /\ born[x] \in Int /\ born[y] \in Int /\ turn[x] \in Int /\ turn[y] \in Int
          /\ \A i \in list : born[i] \in Int /\ turn[i] \in Int
      OBVIOUS
    <2>2. x \notin Ahead(x)
      BY <2>1 DEF Before
    <2>3. Ahead(x) \union {x} \in SUBSET Ahead(y)
      BY <1>4, <2>1 DEF Before
    <2>4. x \in list /\ y \in list
      OBVIOUS
    <2> HIDE DEF Ahead, stay
    <2>5. Cardinality(Ahead(x) \union {x}) = Cardinality(Ahead(x)) + 1
      BY <1>2, <2>2, <2>4, FS_AddElement
    <2>6. Cardinality(Ahead(x) \union {x}) <= Cardinality(Ahead(y))
      BY <1>2, <2>3, <2>4, FS_Subset
    <2> QED
      BY <1>2, <2>4, <2>5, <2>6
  <1>5. ASSUME NEW x \in stay, NEW y \in stay, x # y
        PROVE  rank[x] # rank[y]
    <2>1. /\ born[x] \in Int /\ born[y] \in Int /\ turn[x] \in Int /\ turn[y] \in Int
          /\ turn[x] # turn[y]
      BY <1>5
    <2>2. Before(x, y) \/ Before(y, x)
      BY <2>1 DEF Before
    <2> HIDE DEF Ahead, stay
    <2> QED
      BY <1>4, <2>2
  <1>6. rank \in [stay -> 0 .. PoolCap - 1]
    <2> HIDE DEF Ahead, stay
    <2> QED
      BY <1>3
  <1>7. IsFiniteSet(0 .. PoolCap - 1) /\ Cardinality(0 .. PoolCap - 1) = PoolCap
    BY StackAssumption, FS_Interval
  <1>8. Cardinality(stay) \in Nat
    BY <1>1, FS_CardinalityType
  <1> HIDE DEF rank, stay, Ahead
  <1>9. ~(PoolCap < Cardinality(stay))
    <2> DEFINE ranks == 0 .. PoolCap - 1
    <2>1. /\ IsFiniteSet(ranks) /\ Cardinality(ranks) = PoolCap /\ rank \in [stay -> ranks]
      BY <1>6, <1>7
    <2> HIDE DEF ranks
    <2>2. ASSUME PoolCap < Cardinality(stay)
          PROVE  \E x, y \in stay : x # y /\ rank[x] = rank[y]
      <3>1. Cardinality(ranks) < Cardinality(stay)
        BY <2>1, <2>2
      <3> QED
        BY <1>1, <2>1, <3>1, FS_PigeonHole
    <2> QED
      BY <1>5, <2>2
  <1>10. Cardinality(stay) <= PoolCap
    BY <1>8, <1>9, StackAssumption
  <1> QED
    BY <1>10 DEF stay

\* A step that leaves the places and the pools of the loaded commands alone and
\* writes no list but one that was within the capacity.
LEMMA ListsKeep ==
  ASSUME CapInv, StackTypeOK', NEW c \in Commands,
         \A i \in Loaded : pool'[i] = pool[i] /\ turn'[i] = turn[i],
         OrderInv',
         Within(cmd'[c].list, pool', turn'),
         \A d \in Commands : d # c => cmd'[d] = cmd[d],
         \A i \in Commands : Within(body'[i].list, pool', turn') \/ body'[i] = body[i]
  PROVE  CapInv'
  <1>1. ASSUME NEW list \in SUBSET Commands, Within(list, pool, turn)
        PROVE  Within(list, pool', turn')
    <2>1. \A i \in list : pool'[i] = pool[i] /\ turn'[i] = turn[i]
      BY <1>1 DEF Within, Loaded
    <2> QED
      BY <1>1, <2>1, SameWithin
  <1>2. ASSUME NEW d \in Commands PROVE Within(cmd'[d].list, pool', turn')
    <2>1. cmd[d].list \in SUBSET Commands /\ Within(cmd[d].list, pool, turn)
      BY DEF CapInv, ListsInv, StackTypeOK, CommandStates
    <2> QED
      BY <1>1, <2>1
  <1>3. ASSUME NEW d \in Commands PROVE Within(body'[d].list, pool', turn')
    <2>1. body[d].list \in SUBSET Commands /\ Within(body[d].list, pool, turn)
      BY DEF CapInv, ListsInv, StackTypeOK, Bodies
    <2> QED
      BY <1>1, <2>1
  <1> QED
    BY <1>2, <1>3 DEF CapInv, ListsInv

\* The places stay, and with them their order, as long as no command goes back
\* to where it has none.
LEMMA OrderKeeps ==
  ASSUME OrderInv, turn' = turn,
         \A d \in Commands : /\ cmd'[d].at \in {"idle", "load"} => cmd[d].at \in {"idle", "load"}
                             /\ Saving(d)' => Saving(d)
  PROVE  OrderInv'
  <1>1. Loaded' = Loaded
    BY DEF Loaded
  <1> QED
    BY <1>1 DEF OrderInv

\* A command's step that changes neither pools nor places, when what it has in
\* hand and what it writes are within the capacity.
LEMMA CommandKeepsCap ==
  ASSUME CapInv, StackTypeOK', NEW c \in Commands, UNCHANGED <<pool, turn>>,
         \A i \in Commands : Within(body'[i].list, pool, turn) \/ body'[i] = body[i],
         \A d \in Commands : d # c => cmd'[d] = cmd[d],
         cmd'[c].at \in {"idle", "load"} => cmd[c].at \in {"idle", "load"},
         Saving(c)' => Saving(c),
         Within(cmd'[c].list, pool, turn)
  PROVE  CapInv'
  <1>1. OrderInv'
    <2>1. \A d \in Commands : /\ cmd'[d].at \in {"idle", "load"} => cmd[d].at \in {"idle", "load"}
                              /\ Saving(d)' => Saving(d)
      BY DEF Saving
    <2> QED
      BY <2>1, OrderKeeps DEF CapInv
  <1> QED
    BY <1>1, ListsKeep

LEMMA EndKeepsCap ==
  ASSUME CapInv, StackTypeOK', NEW c \in Commands, NEW how \in {"done", "failed"}, Ends(c, how),
         UNCHANGED <<body, pool, turn>>
  PROVE  CapInv'
  <1>0. cmd \in [Commands -> CommandStates]
    BY DEF CapInv, StackTypeOK
  <1>1. /\ cmd'[c].at = how /\ \A d \in Commands : d # c => cmd'[d] = cmd[d]
    BY <1>0, EndsEffect
  <1>2. cmd'[c].list = {}
    BY <1>0 DEF Ends, Goes, CommandStates
  <1>3. Within(cmd'[c].list, pool, turn)
    BY <1>2, EmptyWithin
  <1> QED
    BY <1>1, <1>3, CommandKeepsCap DEF Saving

LEMMA StartKeepsCap ==
  ASSUME CapInv, StackTypeOK', NEW c \in Commands, NEW next \in CommandStates, Goes(c, next),
         cmd[c].at = "idle", next.at = "load", next.list = {}, UNCHANGED <<body, turn>>,
         \A d \in Commands : d # c => pool'[d] = pool[d]
  PROVE  CapInv'
  <1>0. cmd \in [Commands -> CommandStates]
    BY DEF CapInv, StackTypeOK
  <1>1. cmd'[c] = next /\ \A d \in Commands : d # c => cmd'[d] = cmd[d]
    BY <1>0, GoesEffect
  <1>2. OrderInv'
    <2>1. \A d \in Commands : /\ cmd'[d].at \in {"idle", "load"} => cmd[d].at \in {"idle", "load"}
                              /\ Saving(d)' => Saving(d)
      BY <1>1 DEF Saving
    <2> QED
      BY <2>1, OrderKeeps DEF CapInv
  <1>3. \A i \in Loaded : pool'[i] = pool[i] /\ turn'[i] = turn[i]
    BY DEF CapInv, OrderInv, Loaded
  <1>4. Within(cmd'[c].list, pool', turn')
    BY <1>1, EmptyWithin
  <1> QED
    BY <1>1, <1>2, <1>3, <1>4, ListsKeep

LEMMA ToSaveKeepsCap ==
  ASSUME CapInv, StackTypeOK', NEW c \in Commands, NEW list \in SUBSET Commands,
         NEW gone \in SUBSET list, cmd[c].at = "edit", ToSave(c, list, gone),
         UNCHANGED <<body, pool, turn>>, Within(list \ gone, pool, turn)
  PROVE  CapInv'
  <1> DEFINE next == [cmd[c] EXCEPT !.at = "create", !.list = list \ gone, !.victims = gone]
  <1>0. cmd \in [Commands -> CommandStates] /\ cmd[c] \in CommandStates
    BY DEF CapInv, StackTypeOK
  <1>1. next \in CommandStates /\ next.at = "create" /\ next.list = list \ gone
    BY <1>0 DEF CommandStates
  <1>2. Goes(c, next)
    BY DEF ToSave
  <1> HIDE DEF next
  <1>3. cmd'[c] = next /\ \A d \in Commands : d # c => cmd'[d] = cmd[d]
    BY <1>0, <1>1, <1>2, GoesEffect
  <1> QED
    BY <1>1, <1>3, CommandKeepsCap DEF Saving

LEMMA LoadKeepsCap ==
  ASSUME CapInv, StackTypeOK', NEW c \in Commands, Load(c)
  PROVE  CapInv'
  <1>0. /\ cmd \in [Commands -> CommandStates] /\ cmd[c] \in CommandStates
        /\ turn \in [Commands -> Nat] /\ Content.list \in SUBSET Commands
    BY DEF CapInv, StackTypeOK, Content, Empty, Bodies
  <1>1. CASE Content.form = "garbled"
    BY <1>1, EndKeepsCap DEF Load, diskVars
  <1>2. CASE Content.form # "garbled"
    <2> DEFINE next == [cmd[c] EXCEPT !.at = "edit", !.list = Content.list]
               place == 1 + Cardinality(Loaded)
    <2>1. next \in CommandStates /\ next.at = "edit" /\ next.list = Content.list
      BY <1>0 DEF CommandStates
    <2>2. /\ cmd[c].at = "load" /\ Goes(c, next) /\ turn' = [turn EXCEPT ![c] = place]
          /\ UNCHANGED <<body, pool>>
      BY <1>2 DEF Load, diskVars, Loaded
    <2>3. cmd'[c].at = "edit" /\ cmd'[c].list = Content.list
          /\ \A d \in Commands : d # c => cmd'[d] = cmd[d]
      <3> HIDE DEF next
      <3> QED
        BY <1>0, <2>1, <2>2, GoesEffect
    <2>4. turn[c] = 0 /\ Loaded \in SUBSET Commands /\ c \notin Loaded
      BY <2>2 DEF CapInv, OrderInv, Loaded
    <2>5. IsFiniteSet(Loaded) /\ Cardinality(Loaded) \in Nat
      BY <2>4, StackAssumption, FS_Subset, FS_CardinalityType
    <2>6. turn'[c] = place /\ \A d \in Commands : d # c => turn'[d] = turn[d]
      BY <1>0, <2>2
    <2>7. Loaded' = Loaded \union {c}
      BY <2>4, <2>5, <2>6 DEF Loaded
    <2>8. Cardinality(Loaded') = place
      BY <2>4, <2>5, <2>7, FS_AddElement
    <2>9. \A d \in Commands : d # c => turn[d] \in Nat /\ turn[d] < place
      <3> HIDE DEF place
      <3>1. \A d \in Commands : turn[d] \in Nat /\ turn[d] <= Cardinality(Loaded)
        BY <1>0 DEF CapInv, OrderInv
      <3> QED
        BY <2>5, <3>1 DEF place
    <2>10. OrderInv'
      <3>1. place # 0 /\ place \in Nat
        BY <2>5
      <3> HIDE DEF place
      <3>2. ASSUME NEW d \in Commands
            PROVE  /\ cmd'[d].at \in {"idle", "load"} => turn'[d] = 0
                   /\ Saving(d)' => turn'[d] # 0
        BY <2>3, <2>6, <3>1 DEF CapInv, OrderInv, Saving
      <3>3. ASSUME NEW d \in Commands, NEW e \in Commands, turn'[d] # 0, turn'[d] = turn'[e]
            PROVE  d = e
        BY <2>6, <2>9, <3>1, <3>3 DEF CapInv, OrderInv
      <3>4. ASSUME NEW d \in Commands PROVE turn'[d] <= Cardinality(Loaded)'
        BY <2>6, <2>8, <2>9, <3>1
      <3> QED
        BY <3>2, <3>3, <3>4 DEF OrderInv
    <2>11. \A i \in Loaded : pool'[i] = pool[i] /\ turn'[i] = turn[i]
      BY <2>2, <2>4, <2>6
    <2>12. Within(Content.list, pool, turn)
      <3>1. CASE items = NoInode
        BY <3>1, EmptyWithin DEF Content, Empty
      <3>2. CASE items # NoInode
        <4>1. items \in Commands
          BY <3>2 DEF CapInv, StackTypeOK
        <4> QED
          BY <3>2, <4>1 DEF Content, CapInv, ListsInv
      <3> QED
        BY <3>1, <3>2
    <2>13. Within(cmd'[c].list, pool', turn')
      <3>1. \A i \in Content.list : pool'[i] = pool[i] /\ turn'[i] = turn[i]
        BY <1>0, <2>11, <2>12 DEF Within, Loaded
      <3> QED
        BY <1>0, <2>3, <2>12, <3>1, SameWithin
    <2> QED
      BY <2>2, <2>3, <2>10, <2>11, <2>13, ListsKeep
  <1> QED
    BY <1>1, <1>2

LEMMA EditKeepsCap ==
  ASSUME CapInv, StackTypeOK', NEW c \in Commands, EditPush(c) \/ EditRemove(c) \/ EditMove(c)
  PROVE  CapInv'
  <1>0. /\ cmd[c].list \in SUBSET Commands /\ Within(cmd[c].list, pool, turn)
        /\ pool \in [Commands -> Pools] /\ born \in [Commands -> 0 .. MaxSeconds]
        /\ turn \in [Commands -> Nat]
    BY DEF CapInv, ListsInv, StackTypeOK, CommandStates
  <1>1. CASE EditPush(c)
    <2> DEFINE list == cmd[c].list \union {c}
               gone == Evicted(list)
    <2>1. /\ list \in SUBSET Commands /\ gone \in SUBSET list
      BY <1>0 DEF Evicted
    <2>2. /\ cmd[c].at = "edit" /\ ToSave(c, list, gone) /\ UNCHANGED <<body, pool, turn>>
      BY <1>1 DEF EditPush, diskVars
    <2>3. \A i \in list : turn[i] # 0
      BY <1>0, <2>2 DEF Within, CapInv, OrderInv, Saving
    <2>4. \A i, j \in list : i # j => turn[i] # turn[j]
      BY <2>1, <2>3 DEF CapInv, OrderInv
    <2> HIDE DEF list
    <2>5. \A k \in Pools : Cardinality({j \in list \ gone : pool[j] = k}) <= PoolCap
      BY <1>0, <2>1, <2>4, EvictionCaps
    <2>6. Within(list \ gone, pool, turn)
      BY <2>3, <2>5 DEF Within
    <2> HIDE DEF gone
    <2> QED
      BY <2>1, <2>2, <2>6, ToSaveKeepsCap
  <1>2. ASSUME NEW gone \in SUBSET cmd[c].list, cmd[c].at = "edit", ToSave(c, cmd[c].list, gone),
               UNCHANGED <<body, pool, turn>>
        PROVE  CapInv'
    <2>1. Within(cmd[c].list \ gone, pool, turn)
      BY <1>0, PartWithin
    <2> QED
      BY <1>0, <1>2, <2>1, ToSaveKeepsCap
  <1>3. CASE EditRemove(c)
    <2>1. CASE Chosen(c) = {}
      BY <1>3, <2>1, EndKeepsCap DEF EditRemove, diskVars
    <2>2. CASE Chosen(c) # {}
      <3>1. Chosen(c) \in SUBSET cmd[c].list
        BY DEF Chosen, Top
      <3> QED
        BY <1>2, <1>3, <2>2, <3>1 DEF EditRemove, diskVars
    <2> QED
      BY <2>1, <2>2
  <1>4. CASE EditMove(c)
    <2> DEFINE i == cmd[c].target
    <2>1. CASE Chosen(c) = {} \/ stored[i] = "none"
      BY <1>4, <2>1, EndKeepsCap DEF EditMove, diskVars
    <2>2. CASE ~(Chosen(c) = {} \/ stored[i] = "none")
      <3>1. {i} \in SUBSET cmd[c].list
        BY <1>4, <2>2 DEF Chosen, EditMove
      <3>2. cmd[c].at = "edit" /\ ToSave(c, cmd[c].list, {i}) /\ UNCHANGED <<body, pool, turn>>
        BY <1>4, <2>2 DEF EditMove, diskVars
      <3> QED
        BY <1>2, <3>1, <3>2
    <2> QED
      BY <2>1, <2>2
  <1> QED
    BY <1>1, <1>3, <1>4

\* A command that saves writes its own list, or leaves a text that is no list.
LEMMA SaveKeepsCap ==
  ASSUME CapInv, StackTypeOK', NEW c \in Commands, Create(c) \/ Write(c) \/ Rename(c)
  PROVE  CapInv'
  <1>0. /\ cmd \in [Commands -> CommandStates] /\ cmd[c] \in CommandStates
        /\ body \in [Commands -> Bodies] /\ cmd[c].list \in SUBSET Commands
        /\ Within(cmd[c].list, pool, turn)
    BY DEF CapInv, ListsInv, StackTypeOK, CommandStates
  <1>1. CASE Create(c)
    <2>1. \A i \in Commands : Within(body'[i].list, pool, turn) \/ body'[i] = body[i]
      <3>1. \A i \in Commands : body'[i] = Empty \/ body'[i] = body[i]
        BY <1>0, <1>1 DEF Create
      <3>2. Within(Empty.list, pool, turn)
        BY EmptyWithin DEF Empty
      <3> QED
        BY <3>1, <3>2
    <2>2. /\ cmd'[c].list = cmd[c].list /\ cmd'[c].at = "write"
          /\ \A d \in Commands : d # c => cmd'[d] = cmd[d]
      BY <1>0, <1>1 DEF Create, Goes, CommandStates
    <2> QED
      BY <1>0, <1>1, <2>1, <2>2, CommandKeepsCap DEF Create, itemVars, Saving
  <1>2. CASE Write(c)
    <2>1. \A i \in Commands : Within(body'[i].list, pool, turn) \/ body'[i] = body[i]
      <3>1. \A i \in Commands : body'[i] \in {Whole(cmd[c].list), Garbled, body[i]}
        BY <1>0, <1>2 DEF Write
      <3>2. Within(Whole(cmd[c].list).list, pool, turn) /\ Within(Garbled.list, pool, turn)
        BY <1>0, EmptyWithin DEF Whole, Garbled
      <3> QED
        BY <3>1, <3>2
    <2>2. /\ cmd'[c].list = cmd[c].list /\ cmd'[c].at = "rename"
          /\ \A d \in Commands : d # c => cmd'[d] = cmd[d]
      BY <1>0, <1>2 DEF Write, Goes, CommandStates
    <2> QED
      BY <1>0, <1>2, <2>1, <2>2, CommandKeepsCap DEF Write, itemVars, Saving
  <1>3. CASE Rename(c)
    BY <1>3, EndKeepsCap DEF Rename, itemVars
  <1> QED
    BY <1>1, <1>2, <1>3

LEMMA CapStep == CapInv /\ StackTypeOK' /\ [StackNext]_stackVars => CapInv'
  <1> SUFFICES ASSUME CapInv, StackTypeOK', [StackNext]_stackVars PROVE CapInv'
    OBVIOUS
  <1>0. pool \in [Commands -> Pools]
    BY DEF CapInv, StackTypeOK
  <1>1. CASE ClockTicks \/ UNCHANGED stackVars
    <2>1. UNCHANGED <<body, pool, turn, cmd>>
      BY <1>1 DEF ClockTicks, stackVars, diskVars, itemVars
    <2> QED
      <3>1. OrderInv'
        BY <2>1, OrderKeeps DEF CapInv, Saving
      <3>2. ListsInv'
        BY <2>1 DEF CapInv, ListsInv, Within
      <3> QED
        BY <3>1, <3>2 DEF CapInv
  <1>2. ASSUME NEW c \in Commands, NEW payload \in {"blob", "path"}, NEW k \in Pools,
               StartPush(c, payload, k)
        PROVE  CapInv'
    <2> DEFINE next == [Idle EXCEPT !.op = "push", !.target = c, !.at = "load"]
    <2>1. next \in CommandStates /\ next.at = "load" /\ next.list = {}
      BY DEF Idle, CommandStates
    <2>2. /\ cmd[c].at = "idle" /\ Goes(c, next) /\ UNCHANGED <<body, turn>>
          /\ \A d \in Commands : d # c => pool'[d] = pool[d]
      BY <1>0, <1>2 DEF StartPush, diskVars
    <2> HIDE DEF next
    <2> QED
      BY <2>1, <2>2, StartKeepsCap
  <1>3. ASSUME NEW c \in Commands, NEW op \in {"pop", "remove", "move"},
               NEW i \in Commands \ {c}, StartOther(c, op, i)
        PROVE  CapInv'
    <2> DEFINE next == [Idle EXCEPT !.op = op, !.target = i, !.at = "load"]
    <2>1. next \in CommandStates /\ next.at = "load" /\ next.list = {}
      BY DEF Idle, CommandStates
    <2>2. /\ cmd[c].at = "idle" /\ Goes(c, next) /\ UNCHANGED <<body, turn, pool>>
      BY <1>3 DEF StartOther, diskVars, itemVars
    <2> HIDE DEF next
    <2> QED
      BY <2>1, <2>2, StartKeepsCap
  <1>4. ASSUME NEW c \in Commands, NEW k \in Pools, StartPop(c, k) PROVE CapInv'
    <2> DEFINE next == [Idle EXCEPT !.op = "pop", !.target = c, !.at = "load"]
    <2>1. next \in CommandStates /\ next.at = "load" /\ next.list = {}
      BY DEF Idle, CommandStates
    <2>2. /\ cmd[c].at = "idle" /\ Goes(c, next) /\ UNCHANGED <<body, turn>>
          /\ \A d \in Commands : d # c => pool'[d] = pool[d]
      BY <1>0, <1>4 DEF StartPop, diskVars
    <2> HIDE DEF next
    <2> QED
      BY <2>1, <2>2, StartKeepsCap
  <1>5. ASSUME NEW c \in Commands, Die(c) PROVE CapInv'
    BY <1>5, EndKeepsCap DEF Die, diskVars, itemVars
  <1> QED
    BY <1>1, <1>2, <1>3, <1>4, <1>5, LoadKeepsCap, EditKeepsCap, SaveKeepsCap DEF StackNext

\* However commands cross, die and write over each other, no pool of the list
\* that items.json holds is above its capacity: enforce_cap cuts whatever list
\* is about to be saved, and a text that is not one command's list does not
\* parse.
THEOREM PoolsStayCapped == StackSpec => []PoolsAreCapped
  <1>1. StackInit => CapInv
    <2> SUFFICES ASSUME StackInit PROVE OrderInv /\ ListsInv
      BY StackStart DEF StackInv, CapInv
    <2>1. \A c \in Commands : /\ body[c].list = {} /\ cmd[c].list = {} /\ cmd[c].at = "idle"
                              /\ turn[c] = 0
      BY DEF StackInit, Empty, Idle
    <2>2. Loaded = {} /\ Cardinality(Loaded) = 0
      BY <2>1, FS_EmptySet DEF Loaded
    <2>3. OrderInv
      BY <2>1, <2>2 DEF OrderInv, Saving
    <2>4. ListsInv
      BY <2>1, EmptyWithin DEF ListsInv
    <2> QED
      BY <2>3, <2>4
  <1>2. CapInv => PoolsAreCapped
    <2> SUFFICES ASSUME CapInv PROVE Within(Content.list, pool, turn)
      BY DEF PoolsAreCapped, Within
    <2>1. CASE items = NoInode
      BY <2>1, EmptyWithin DEF Content, Empty
    <2>2. CASE items # NoInode
      <3>1. items \in Commands
        BY <2>2 DEF CapInv, StackTypeOK
      <3> QED
        BY <2>2, <3>1 DEF Content, CapInv, ListsInv
    <2> QED
      BY <2>1, <2>2
  <1> QED
    BY <1>1, <1>2, CapStep, StackTypeCorrect, PTL DEF StackSpec
=============================================================================
