------------------------ MODULE AiplaneBridgeProofs -------------------------
(***************************************************************************)
(* Proofs about AiplaneBridge, for any requests, classes and channel       *)
(* bounds.  Every step of the bridge is a step of the scheduler or leaves  *)
(* it alone, so what AiplaneSchedulerProofs shows of the scheduler holds   *)
(* under the bridge.                                                       *)
(***************************************************************************)
EXTENDS AiplaneBridge, AiplaneSchedulerProofs

\* The bridge drives the scheduler by its own operations.
LEMMA BridgeStepsSchedule == BridgeNext => [Next]_vars
  <1> SUFFICES ASSUME BridgeNext PROVE [Next]_vars
    OBVIOUS
  <1>1. \A c \in Classes : c \in Priorities
    BY ClassesAssumption
  <1>2. CASE \E r \in Requests : RefuseRun(r) \/ ReceiveSleeping(r) \/ TakeAnswer(r)
    BY <1>2 DEF RefuseRun, ReceiveSleeping, TakeAnswer
  <1>3. CASE \E r \in Requests, c \in Classes :
               ReceiveRun(r, c) \/ SleepEnds(r, c) \/ LocalCall(r, c)
    BY <1>1, <1>3 DEF ReceiveRun, SleepEnds, LocalCall, Next
  <1>4. CASE \E r \in Requests, named \in BOOLEAN : HandleCancel(r, named)
    BY <1>4 DEF HandleCancel, Next
  <1>5. CASE \E r \in Requests : LocalUnblock(r) \/ Wake(r)
    BY <1>5 DEF LocalUnblock, Wake, Next
  <1>6. CASE CancelReturns
    BY <1>6 DEF CancelReturns
  <1>7. CASE SchedulerThreads
    BY <1>7 DEF SchedulerThreads, Next
  <1> QED
    BY <1>2, <1>3, <1>4, <1>5, <1>6, <1>7 DEF BridgeNext, Handlers

\* What a caller of the bridge sees of the scheduler is a behaviour of it.
LEMMA BridgeRunsScheduler == BridgeSpec => Spec
  <1>1. BridgeInit => Init
    BY DEF BridgeInit
  <1>2. [BridgeNext]_allVars => [Next]_vars
    <2> SUFFICES ASSUME UNCHANGED allVars PROVE UNCHANGED vars
      BY BridgeStepsSchedule
    <2> QED
      BY DEF allVars
  <1> QED
    BY <1>1, <1>2, PTL DEF BridgeSpec, Spec

\* The scheduler's invariants under the bridge.
SchedulerInv == TypeOK /\ RequestInOnePlace /\ PollInv

LEMMA SchedulerKeepsInv == BridgeSpec => []SchedulerInv
  BY BridgeRunsScheduler, TypeCorrect, NothingLost, PollKept, PTL DEF SchedulerInv

\* The whole plane, handlers, cancel registry, parked and local calls
\* included, is the one-at-a-time service: no interleaving of the handlers
\* has two backend calls overlap, runs a request twice or answers it twice.
THEOREM BridgeImplementsService == BridgeSpec => ImplementsService
  BY BridgeRunsScheduler, SchedulerImplementsService, PTL

-----------------------------------------------------------------------------
(* Types. *)

\* A return sends one of the response codes of the protocol.
Codes == {"Ok", "Cancelled", "Overloaded", "Internal", "BadRequest"}

LEMMA ReportIsTyped ==
    ASSUME NEW resp \in Responses \ {"none"}, NEW code \in ReplyCodes(resp)
    PROVE  /\ code \in {"Ok", "Cancelled", "Overloaded", "Internal"}
           /\ code = "Ok" => resp = "Ok"
           /\ code = "Cancelled" => resp = "Cancelled"
           /\ code = "Overloaded" => resp = "Overloaded"
  BY DEF ReplyCodes, Responses

\* What a handler's return changes.
LEMMA ReturnEffect ==
    ASSUME BridgeTypeOK, NEW r \in Requests, NEW code, Return(r, code)
    PROVE  /\ \A q \in Requests :
                 /\ task'[q] = IF q = r THEN "replied" ELSE task[q]
                 /\ reply'[q] = IF q = r THEN code ELSE reply[q]
           /\ mapped' = mapped \ {r} /\ kinds' = kinds \ {r}
           /\ runtime' = "free"
           /\ code \in Codes =>
                 /\ task' \in [Requests -> {"none", "sleeping", "parked",
                                            "waiting", "replied"}]
                 /\ reply' \in [Requests -> Codes \union {"none"}]
  BY DEF Return, BridgeTypeOK, Codes

\* What a handler that goes on changes.
LEMMA AfterAdmitEffect ==
    ASSUME BridgeTypeOK, TypeOK', RequestInOnePlace',
           NEW r \in Requests, AfterAdmit(r)
    PROVE  \/ /\ \A q \in Requests :
                    task'[q] = IF q = r THEN IF place'[r] = "queued"
                                             THEN "waiting" ELSE "parked"
                                        ELSE task[q]
              /\ task' \in [Requests -> {"none", "sleeping", "parked",
                                         "waiting", "replied"}]
              /\ reply' = reply
              /\ mapped' = mapped \union {r} /\ kinds' = kinds \union {r}
              /\ runtime' = IF place'[r] = "queued" THEN "free" ELSE "parked"
           \/ \E code \in {"Ok", "Cancelled", "Overloaded", "Internal"} :
                 /\ Return(r, code)
                 /\ code = "Ok" => response'[r] = "Ok"
                 /\ code = "Cancelled" => response'[r] = "Cancelled"
                 /\ code = "Overloaded" => response'[r] = "Overloaded"
  <1>1. CASE place'[r] # "done" /\ ~ Report(r, response'[r])
    BY <1>1 DEF AfterAdmit, BridgeTypeOK
  <1>2. CASE place'[r] = "done" /\ Report(r, response'[r])
    <2>1. response'[r] \in Responses \ {"none"}
      BY <1>2 DEF RequestInOnePlace, TypeOK
    <2>2. PICK code \in ReplyCodes(response'[r]) : Return(r, code)
      BY <1>2 DEF Report
    <2> QED
      BY <2>1, <2>2, ReportIsTyped
  <1> QED
    BY <1>1, <1>2 DEF AfterAdmit, BridgeTypeOK

\* The bridge's own state keeps its types.
LEMMA BridgeStepTypeOK ==
    ASSUME BridgeTypeOK, TypeOK', RequestInOnePlace, RequestInOnePlace',
           [BridgeNext]_allVars
    PROVE  BridgeTypeOK'
  <1> USE DEF Codes
  <1>1. ASSUME NEW r \in Requests, RefuseRun(r) PROVE BridgeTypeOK'
    BY <1>1, ReturnEffect DEF RefuseRun, BridgeTypeOK
  <1>2. ASSUME NEW r \in Requests, ReceiveSleeping(r) PROVE BridgeTypeOK'
    BY <1>2 DEF ReceiveSleeping, BridgeTypeOK
  <1>3. ASSUME NEW r \in Requests, AfterAdmit(r), UNCHANGED acked
        PROVE  BridgeTypeOK'
    <2>1. CASE \E code \in {"Ok", "Cancelled", "Overloaded", "Internal"} :
                 Return(r, code)
      BY <1>3, <2>1, ReturnEffect DEF BridgeTypeOK
    <2>2. CASE ~\E code \in {"Ok", "Cancelled", "Overloaded", "Internal"} :
                 Return(r, code)
      BY <1>3, <2>2, AfterAdmitEffect DEF BridgeTypeOK
    <2> QED
      BY <2>1, <2>2
  <1>4. ASSUME NEW r \in Requests, NEW c \in Classes, SleepEnds(r, c)
        PROVE  BridgeTypeOK'
    <2>1. CASE Return(r, "Cancelled")
      BY <1>4, <2>1, ReturnEffect DEF SleepEnds, BridgeTypeOK
    <2>2. CASE AfterAdmit(r)
      BY <1>4, <2>2, <1>3 DEF SleepEnds
    <2> QED
      BY <1>4, <2>1, <2>2 DEF SleepEnds
  <1>5. ASSUME NEW r \in Requests, TakeAnswer(r) PROVE BridgeTypeOK'
    <2>1. CASE Return(r, "Cancelled")
      BY <1>5, <2>1, ReturnEffect DEF TakeAnswer, BridgeTypeOK
    <2>2. CASE response[r] # "none" /\ Report(r, response[r])
      <3>1. response[r] \in Responses \ {"none"}
        BY <2>2 DEF BridgeTypeOK, TypeOK
      <3>2. PICK code \in ReplyCodes(response[r]) : Return(r, code)
        BY <2>2 DEF Report
      <3> QED
        BY <1>5, <3>1, <3>2, ReportIsTyped, ReturnEffect
           DEF TakeAnswer, BridgeTypeOK
    <2> QED
      BY <1>5, <2>1, <2>2 DEF TakeAnswer
  <1>6. ASSUME NEW r \in Requests, NEW named \in BOOLEAN, HandleCancel(r, named)
        PROVE  BridgeTypeOK'
    BY <1>6 DEF HandleCancel, BridgeTypeOK
  <1>7. CASE CancelReturns
    BY <1>7 DEF CancelReturns, BridgeTypeOK
  <1>8. CASE UNCHANGED bridgeVars
    BY <1>8 DEF bridgeVars, BridgeTypeOK
  <1>9. CASE UNCHANGED allVars
    BY <1>8, <1>9 DEF allVars
  <1> QED
    BY <1>1, <1>2, <1>3, <1>4, <1>5, <1>6, <1>7, <1>8, <1>9
       DEF BridgeNext, Handlers, ReceiveRun, Wake, LocalCall, LocalUnblock,
           SchedulerThreads

\* The bridge and the scheduler under it are type-correct.
THEOREM BridgeTypeCorrect == BridgeSpec => []BridgeTypeOK
  <1>1. BridgeInit => BridgeTypeOK
    BY InitTypeOK DEF BridgeInit, BridgeTypeOK
  <1>2. SchedulerInv /\ SchedulerInv' /\ BridgeTypeOK /\ [BridgeNext]_allVars
           => BridgeTypeOK'
    BY BridgeStepTypeOK DEF SchedulerInv
  <1> QED
    BY <1>1, <1>2, SchedulerKeepsInv, PTL DEF BridgeSpec

-----------------------------------------------------------------------------
(* Answers of the scheduler. *)

\* What a step may do to the answer of r: it stays as it is once it is there,
\* Cancelled needs a tripped token, and Overloaded is for a request that was
\* never pulled ahead of.
AnswerStep(r) ==
    /\ response[r] # "none" =>
          response'[r] = response[r] /\ overtaken'[r] = overtaken[r]
    /\ response'[r] = "Cancelled" /\ response[r] = "none" => r \in tripped
    /\ response'[r] = "Overloaded" /\ response[r] = "none" => overtaken'[r] = 0

LEMMA AnswersAreFinal ==
    ASSUME TypeOK, RequestInOnePlace, PollInv, [Next]_vars, NEW r \in Requests
    PROVE  AnswerStep(r)
  <1> USE DEF callerVars, dispatcherVars, watchdogVars
  <1>1. response[r] # "none" <=> place[r] = "done"
    BY DEF RequestInOnePlace
  <1>2. CASE UNCHANGED <<response, overtaken>>
    BY <1>2 DEF AnswerStep
  <1>3. ASSUME NEW q \in Requests, NEW c \in Priorities, Admit(q, c)
        PROVE  AnswerStep(r)
    <2>1. UNCHANGED overtaken /\ place[q] = "idle" /\ overtaken[q] = 0
      BY <1>3 DEF Admit, PollInv
    <2>2. \/ UNCHANGED response
          \/ Answer(q, "Overloaded") \/ Answer(q, "Gone")
      BY <1>3 DEF Admit, Send, TrySend, Enqueue
    <2>3. \/ response'[r] = response[r]
          \/ r = q /\ response'[r] \in {"Overloaded", "Gone"}
      BY <2>2 DEF Answer, TypeOK
    <2> QED
      BY <1>1, <2>1, <2>3 DEF AnswerStep
  <1>4. ASSUME NEW q \in Requests, Unblock(q) PROVE AnswerStep(r)
    <2>1. UNCHANGED overtaken /\ place[q] = "blocked"
      BY <1>4 DEF Unblock
    <2>2. response'[r] = response[r] \/ (r = q /\ response'[r] = "Gone")
      BY <1>4 DEF Unblock, Enqueue, Answer, TypeOK
    <2> QED
      BY <1>1, <2>1, <2>2 DEF AnswerStep
  <1>5. ASSUME NEW c \in Priorities, Pull(c) PROVE AnswerStep(r)
    <2>1. UNCHANGED response
      BY <1>5 DEF Pull
    <2>2. overtaken[r] \in Nat
      BY DEF TypeOK
    <2>3. r \notin Passed(c) => overtaken'[r] = overtaken[r]
      BY <1>5, <2>2 DEF Pull
    <2>4. response[r] # "none" => r \notin Passed(c)
      BY <1>1 DEF Passed
    <2> QED
      BY <2>1, <2>3, <2>4 DEF AnswerStep
  <1>6. ASSUME NEW C \in SUBSET Priorities, DropChannels(C, {}),
               UNCHANGED overtaken
        PROVE  AnswerStep(r)
    BY <1>1, <1>6 DEF DropChannels, AnswerStep
  <1>7. CASE Start
    BY <1>1, <1>7 DEF Start, Answer, AnswerStep, RequestInOnePlace,
       TakenIsCurrent, TypeOK
  <1>8. ASSUME NEW o \in Outcomes, Finish(o) PROVE AnswerStep(r)
    BY <1>1, <1>8 DEF Finish, Answer, AnswerStep, RequestInOnePlace,
       TakenIsCurrent, TypeOK, Outcomes
  <1>9. CASE Panic
    <2>1. r = current => place[r] = "taken"
      BY DEF RequestInOnePlace, TakenIsCurrent
    <2> QED
      BY <1>1, <1>9, <2>1 DEF Panic, DropChannels, AnswerStep
  <1>10. CASE Tick
    BY <1>2, <1>6, <1>10 DEF Tick
  <1>11. CASE Select
    BY <1>5, <1>6, <1>11 DEF Select, DispatcherOnly, Priorities
  <1>12. ASSUME NEW c \in Priorities, TryRecv(c) PROVE AnswerStep(r)
    BY <1>2, <1>5, <1>12 DEF TryRecv
  <1> QED
    BY <1>2, <1>3, <1>4, <1>7, <1>8, <1>9, <1>10, <1>11, <1>12
       DEF Next, Dispatch, Watchdog, TripToken, DropScheduler, Elapse, Decide,
           Fire, vars

-----------------------------------------------------------------------------
(* The entries of a request, and its reply. *)

\* Only aiplane.cancel trips a token of the bridge; a parked handler holds
\* the runtime's thread, so it is the only one and no cancel of it is handled
\* before it goes on.
TaskInv(r) ==
    /\ r \in mapped <=> task[r] \in {"sleeping", "parked", "waiting"}
    /\ r \in kinds <=> r \in mapped
    /\ reply[r] = "none" <=> task[r] # "replied"
    /\ r \in acked <=> r \in tripped
    /\ r \in acked => task[r] # "none"
    /\ task[r] = "parked" => runtime = "parked" /\ r \notin acked
    /\ \A q \in Requests : task[r] = "parked" /\ task[q] = "parked" => r = q

\* A reply agrees with the answer behind it, which is final.
ReplyInv(r) ==
    /\ r \in acked => reply[r] \in {"none", "Cancelled"}
    /\ reply[r] = "Ok" => response[r] = "Ok"
    /\ reply[r] = "Overloaded" => response[r] = "Overloaded"
    /\ reply[r] = "Cancelled" => r \in acked
    /\ response[r] = "Cancelled" => r \in acked
    /\ response[r] = "Overloaded" => overtaken[r] = 0

BridgeInv == \A r \in Requests : TaskInv(r) /\ ReplyInv(r)

\* A step that leaves the bridge alone.
LEMMA QuietBridge ==
    ASSUME BridgeInv, UNCHANGED bridgeVars, UNCHANGED tripped,
           \A r \in Requests : AnswerStep(r)
    PROVE  BridgeInv'
  <1> SUFFICES ASSUME NEW r \in Requests PROVE TaskInv(r)' /\ ReplyInv(r)'
    BY DEF BridgeInv
  <1> USE DEF bridgeVars
  <1>1. TaskInv(r) /\ ReplyInv(r) /\ AnswerStep(r)
    BY DEF BridgeInv
  <1>2. TaskInv(r)'
    BY <1>1 DEF TaskInv
  <1>3. ReplyInv(r)'
    BY <1>1 DEF ReplyInv, AnswerStep, TaskInv
  <1> QED
    BY <1>2, <1>3

\* A handler returns: not against a cancel that was acknowledged, and with a
\* code that the answer supports.
LEMMA ReturnKeepsInv ==
    ASSUME BridgeTypeOK, BridgeInv, NEW r \in Requests, NEW code \in Codes,
           Return(r, code), UNCHANGED <<tripped, acked>>,
           \A q \in Requests : AnswerStep(q),
           runtime = "free" \/ task[r] = "parked",
           code # "Cancelled" => r \notin tripped,
           code = "Cancelled" => r \in tripped,
           code = "Ok" => response'[r] = "Ok",
           code = "Overloaded" => response'[r] = "Overloaded"
    PROVE  BridgeInv'
  <1> SUFFICES ASSUME NEW q \in Requests PROVE TaskInv(q)' /\ ReplyInv(q)'
    BY DEF BridgeInv
  <1>1. TaskInv(q) /\ ReplyInv(q) /\ AnswerStep(q)
    BY DEF BridgeInv
  <1>2. \A p \in Requests : task'[p] = IF p = r THEN "replied" ELSE task[p]
    BY ReturnEffect
  <1>3. /\ reply'[q] = IF q = r THEN code ELSE reply[q]
        /\ mapped' = mapped \ {r} /\ kinds' = kinds \ {r} /\ runtime' = "free"
    BY ReturnEffect
  <1>4. q # r => task[q] # "parked"
    BY <1>1 DEF TaskInv
  <1>5. code \in Codes \ {"none"}
    BY DEF Codes
  <1>6. TaskInv(q)'
    BY <1>1, <1>2, <1>3, <1>4, <1>5 DEF TaskInv
  <1>7. ReplyInv(q)'
    <2>1. CASE q = r
      BY <1>1, <1>3, <2>1 DEF TaskInv, ReplyInv, AnswerStep
    <2>2. CASE q # r
      BY <1>1, <1>3, <2>2 DEF TaskInv, ReplyInv, AnswerStep
    <2> QED
      BY <2>1, <2>2
  <1> QED
    BY <1>6, <1>7

\* A handler goes on after a call of admit, with a token that is not tripped.
LEMMA AfterAdmitKeepsInv ==
    ASSUME BridgeTypeOK, TypeOK', RequestInOnePlace', BridgeInv,
           NEW r \in Requests, AfterAdmit(r), UNCHANGED <<tripped, acked>>,
           \A q \in Requests : AnswerStep(q),
           task[r] # "replied", r \notin tripped,
           runtime = "free" \/ task[r] = "parked"
    PROVE  BridgeInv'
  <1>1. CASE \E code \in {"Ok", "Cancelled", "Overloaded", "Internal"} :
               /\ Return(r, code)
               /\ code = "Ok" => response'[r] = "Ok"
               /\ code = "Cancelled" => response'[r] = "Cancelled"
               /\ code = "Overloaded" => response'[r] = "Overloaded"
    <2>1. TaskInv(r) /\ ReplyInv(r) /\ AnswerStep(r)
      BY DEF BridgeInv
    <2>2. response'[r] # "Cancelled"
      BY <2>1 DEF TaskInv, ReplyInv, AnswerStep
    <2> QED
      BY <1>1, <2>2, ReturnKeepsInv DEF Codes
  <1>2. CASE /\ \A q \in Requests :
                   task'[q] = IF q = r THEN IF place'[r] = "queued"
                                            THEN "waiting" ELSE "parked"
                                       ELSE task[q]
             /\ reply' = reply
             /\ mapped' = mapped \union {r} /\ kinds' = kinds \union {r}
             /\ runtime' = IF place'[r] = "queued" THEN "free" ELSE "parked"
    <2> SUFFICES ASSUME NEW q \in Requests PROVE TaskInv(q)' /\ ReplyInv(q)'
      BY DEF BridgeInv
    <2>1. TaskInv(q) /\ ReplyInv(q) /\ AnswerStep(q)
      BY DEF BridgeInv
    <2>2. \A p \in Requests : p # r => task[p] # "parked"
      BY DEF BridgeInv, TaskInv
    <2>3. TaskInv(q)'
      <3>1. CASE q = r
        BY <1>2, <2>1, <2>2, <3>1 DEF TaskInv
      <3>2. CASE q # r
        BY <1>2, <2>1, <2>2, <3>2 DEF TaskInv
      <3> QED
        BY <3>1, <3>2
    <2>4. ReplyInv(q)'
      BY <1>2, <2>1 DEF TaskInv, ReplyInv, AnswerStep
    <2> QED
      BY <2>3, <2>4
  <1> QED
    BY <1>1, <1>2, AfterAdmitEffect

\* Every step of the handlers and of the scheduler keeps the invariant.
LEMMA StepBridgeInv ==
    ASSUME BridgeTypeOK, SchedulerInv, SchedulerInv', BridgeInv,
           [BridgeNext]_allVars
    PROVE  BridgeInv'
  <1> USE DEF callerVars, dispatcherVars, watchdogVars
  <1>1. \A q \in Requests : AnswerStep(q)
    <2>1. [Next]_vars
      BY BridgeStepsSchedule DEF allVars
    <2> QED
      BY <2>1, AnswersAreFinal DEF SchedulerInv
  <1>2. /\ TypeOK /\ RequestInOnePlace /\ TypeOK' /\ RequestInOnePlace'
        /\ \A q \in Requests : TaskInv(q) /\ ReplyInv(q)
    BY DEF SchedulerInv, BridgeInv
  <1>3. ASSUME NEW r \in Requests, RefuseRun(r) PROVE BridgeInv'
    <2>1. Return(r, "BadRequest") /\ task[r] = "none" /\ runtime = "free"
          /\ UNCHANGED <<tripped, acked>>
      BY <1>3 DEF RefuseRun, Fresh, vars
    <2>2. r \notin tripped /\ "BadRequest" \in Codes
      BY <1>2, <2>1 DEF TaskInv, Codes
    <2> QED
      BY <1>1, <2>1, <2>2, ReturnKeepsInv
  <1>4. ASSUME NEW r \in Requests, ReceiveSleeping(r) PROVE BridgeInv'
    <2> SUFFICES ASSUME NEW q \in Requests PROVE TaskInv(q)' /\ ReplyInv(q)'
      BY DEF BridgeInv
    <2>1. /\ \A p \in Requests : task'[p] = IF p = r THEN "sleeping" ELSE task[p]
          /\ mapped' = mapped \union {r} /\ kinds' = kinds \union {r}
          /\ UNCHANGED <<reply, runtime, acked, tripped>>
          /\ task[r] = "none"
      BY <1>4 DEF ReceiveSleeping, Fresh, BridgeTypeOK, vars
    <2>2. TaskInv(q)'
      BY <1>2, <2>1 DEF TaskInv
    <2>3. ReplyInv(q)'
      BY <1>1, <1>2, <2>1 DEF TaskInv, ReplyInv, AnswerStep
    <2> QED
      BY <2>2, <2>3
  <1>5. ASSUME NEW r \in Requests, NEW c \in Classes, ReceiveRun(r, c)
        PROVE  BridgeInv'
    <2>1. /\ AfterAdmit(r) /\ task[r] = "none" /\ runtime = "free"
          /\ UNCHANGED <<tripped, acked>>
      BY <1>5 DEF ReceiveRun, Fresh, Admit
    <2>2. r \notin tripped
      BY <1>2, <2>1 DEF TaskInv
    <2> QED
      BY <1>1, <1>2, <2>1, <2>2, AfterAdmitKeepsInv
  <1>6. ASSUME NEW r \in Requests, NEW c \in Classes, SleepEnds(r, c)
        PROVE  BridgeInv'
    <2>1. CASE r \in tripped
      <3>1. /\ Return(r, "Cancelled") /\ runtime = "free" /\ "Cancelled" \in Codes
            /\ UNCHANGED <<tripped, acked>>
        BY <1>6, <2>1 DEF SleepEnds, vars, Codes
      <3> QED
        BY <1>1, <2>1, <3>1, ReturnKeepsInv
    <2>2. CASE r \notin tripped
      <3>1. /\ AfterAdmit(r) /\ runtime = "free" /\ task[r] = "sleeping"
            /\ UNCHANGED <<tripped, acked>>
        BY <1>6, <2>2 DEF SleepEnds, Admit
      <3> QED
        BY <1>1, <1>2, <2>2, <3>1, AfterAdmitKeepsInv
    <2> QED
      BY <2>1, <2>2
  <1>7. ASSUME NEW r \in Requests, Wake(r) PROVE BridgeInv'
    <2>1. /\ AfterAdmit(r) /\ task[r] = "parked"
          /\ UNCHANGED <<tripped, acked>>
      BY <1>7 DEF Wake, Unblock
    <2>2. r \notin tripped
      BY <1>2, <2>1 DEF TaskInv
    <2> QED
      BY <1>1, <1>2, <2>1, <2>2, AfterAdmitKeepsInv
  <1>8. ASSUME NEW r \in Requests, TakeAnswer(r) PROVE BridgeInv'
    <2>1. runtime = "free" /\ UNCHANGED <<tripped, acked, response>>
      BY <1>8 DEF TakeAnswer, vars
    <2>2. CASE r \in tripped
      <3>1. Return(r, "Cancelled") /\ "Cancelled" \in Codes
        BY <1>8, <2>2 DEF TakeAnswer, Codes
      <3> QED
        BY <1>1, <2>1, <2>2, <3>1, ReturnKeepsInv
    <2>3. CASE r \notin tripped
      <3>1. response[r] \in Responses \ {"none"} /\ Report(r, response[r])
        BY <1>2, <1>8, <2>3 DEF TakeAnswer, TypeOK
      <3>2. PICK code \in ReplyCodes(response[r]) : Return(r, code)
        BY <3>1 DEF Report
      <3>3. /\ code \in Codes
            /\ code = "Ok" => response[r] = "Ok"
            /\ code = "Cancelled" => response[r] = "Cancelled"
            /\ code = "Overloaded" => response[r] = "Overloaded"
        BY <3>1, ReportIsTyped DEF Codes
      <3>4. response[r] # "Cancelled"
        BY <1>2, <2>3 DEF TaskInv, ReplyInv
      <3> QED
        BY <1>1, <2>1, <2>3, <3>2, <3>3, <3>4, ReturnKeepsInv
    <2> QED
      BY <2>2, <2>3
  <1>9. ASSUME NEW r \in Requests, NEW named \in BOOLEAN, HandleCancel(r, named)
        PROVE  BridgeInv'
    <2> SUFFICES ASSUME NEW q \in Requests PROVE TaskInv(q)' /\ ReplyInv(q)'
      BY DEF BridgeInv
    <2>1. UNCHANGED <<task, reply, mapped, kinds>> /\ runtime = "free"
      BY <1>9 DEF HandleCancel
    <2>2. \/ r \in mapped /\ tripped' = tripped \union {r}
             /\ acked' = acked \union {r}
          \/ UNCHANGED <<tripped, acked>>
      BY <1>9 DEF HandleCancel, TripToken, vars
    <2>3. UNCHANGED <<response, overtaken>>
      BY <1>9 DEF HandleCancel, TripToken, vars
    <2>4. TaskInv(q)'
      BY <1>2, <2>1, <2>2 DEF TaskInv
    <2>5. ReplyInv(q)'
      BY <1>2, <2>1, <2>2, <2>3 DEF TaskInv, ReplyInv
    <2> QED
      BY <2>4, <2>5
  <1>10. CASE CancelReturns
    <2> SUFFICES ASSUME NEW q \in Requests PROVE TaskInv(q)' /\ ReplyInv(q)'
      BY DEF BridgeInv
    <2>1. /\ UNCHANGED <<task, reply, mapped, kinds, acked, tripped, response,
                         overtaken>>
          /\ runtime = "cancelling"
      BY <1>10 DEF CancelReturns, vars
    <2> QED
      BY <1>2, <2>1 DEF TaskInv, ReplyInv
  <1>11. CASE UNCHANGED bridgeVars /\ UNCHANGED tripped
    BY <1>1, <1>11, QuietBridge
  <1>12. ASSUME NEW r \in Requests, NEW c \in Classes, LocalCall(r, c)
         PROVE  BridgeInv'
    BY <1>11, <1>12 DEF LocalCall, Admit
  <1>13. ASSUME NEW r \in Requests, LocalUnblock(r) PROVE BridgeInv'
    BY <1>11, <1>13 DEF LocalUnblock, Unblock
  <1>14. CASE SchedulerThreads
    BY <1>11, <1>14
       DEF SchedulerThreads, Dispatch, TryRecv, Select, Pull, Start, Finish,
           Panic, Elapse, Watchdog, Tick, Decide, Fire
  <1>15. CASE UNCHANGED allVars
    BY <1>11, <1>15 DEF allVars, vars
  <1> QED
    BY <1>3, <1>4, <1>5, <1>6, <1>7, <1>8, <1>9, <1>10, <1>12, <1>13, <1>14,
       <1>15
       DEF BridgeNext, Handlers

LEMMA BridgeInvHolds == BridgeSpec => [](BridgeInv /\ SchedulerInv)
  <1>1. BridgeInit => BridgeInv
    <2> SUFFICES ASSUME BridgeInit, NEW r \in Requests
                 PROVE  TaskInv(r) /\ ReplyInv(r)
      BY DEF BridgeInv
    <2>1. /\ task[r] = "none" /\ reply[r] = "none" /\ mapped = {} /\ kinds = {}
          /\ acked = {} /\ tripped = {} /\ response[r] = "none"
      BY DEF BridgeInit, Init
    <2> QED
      BY <2>1 DEF TaskInv, ReplyInv
  <1>2. BridgeTypeOK /\ SchedulerInv /\ SchedulerInv' /\ BridgeInv
           /\ [BridgeNext]_allVars => BridgeInv'
    BY StepBridgeInv
  <1> QED
    BY <1>1, <1>2, BridgeTypeCorrect, SchedulerKeepsInv, PTL DEF BridgeSpec

\* No exit path of the two handlers leaks an entry of cancel_registry or of
\* inflight_kinds, and none drops one early.
THEOREM NoEntryLeaks == BridgeSpec => []EntriesFollowTheTask
  <1>1. BridgeInv => EntriesFollowTheTask
    BY DEF BridgeInv, TaskInv, EntriesFollowTheTask
  <1> QED
    BY <1>1, BridgeInvHolds, PTL

\* A request whose aiplane.cancel was acknowledged is replied to as Cancelled
\* or not yet: the parked handler cannot be cancelled, the others look at the
\* token before the answer.
THEOREM AckIsBinding == BridgeSpec => []AckedCancelIsHonoured
  <1>1. BridgeInv /\ BridgeTypeOK => AckedCancelIsHonoured
    BY DEF BridgeInv, ReplyInv, AckedCancelIsHonoured, BridgeTypeOK
  <1> QED
    BY <1>1, BridgeInvHolds, BridgeTypeCorrect, PTL

\* A reply tells the truth about the run behind it.
THEOREM RepliesAreTrue == BridgeSpec => []ReplyMatchesRun
  <1>1. BridgeInv /\ SchedulerInv => ReplyMatchesRun
    <2> SUFFICES ASSUME BridgeInv, SchedulerInv, NEW r \in Requests
                 PROVE  /\ reply[r] = "Ok" => response[r] = "Ok"
                        /\ reply[r] = "Overloaded" =>
                              response[r] = "Overloaded" /\ overtaken[r] = 0
                                 /\ r # current
                        /\ reply[r] = "Cancelled" => r \in acked
                        /\ response[r] = "Cancelled" => r \in acked
      BY DEF ReplyMatchesRun
    <2>1. ReplyInv(r)
      BY DEF BridgeInv
    <2>2. response[r] = "Overloaded" => r # current
      BY DEF SchedulerInv, RequestInOnePlace, TakenIsCurrent
    <2> QED
      BY <2>1, <2>2 DEF ReplyInv
  <1> QED
    BY <1>1, BridgeInvHolds, PTL
=============================================================================
