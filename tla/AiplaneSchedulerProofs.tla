----------------------- MODULE AiplaneSchedulerProofs -----------------------
(***************************************************************************)
(* Proofs about AiplaneScheduler, for any set of requests and any channel  *)
(* bounds: its type invariant, that no request is lost or duplicated, that *)
(* it implements ComputeService, that each run is escaped at most once and *)
(* that priority inversion is bounded by one pull.                         *)
(***************************************************************************)
EXTENDS AiplaneScheduler, TLAPS

\* What the two ends of a bounded channel do to its contents.
LEMMA AppendIsBounded ==
    ASSUME NEW S, NEW s \in Seq(S), NEW x \in S, NEW n \in Nat, ~(Len(s) >= n)
    PROVE  Append(s, x) \in Seq(S) /\ Len(Append(s, x)) <= n
  OBVIOUS

\* A receive from a nonempty channel yields one of its requests.
LEMMA TailIsBounded ==
    ASSUME NEW S, NEW s \in Seq(S), s # <<>>, NEW n \in Nat, Len(s) <= n
    PROVE  Head(s) \in S /\ Tail(s) \in Seq(S) /\ Len(Tail(s)) <= n
  OBVIOUS

\* A class has a rank between 1 and 4, and Batch alone has the last one.
LEMMA RankInRange ==
    ASSUME NEW c \in Priorities
    PROVE  Rank[c] \in 1 .. 4 /\ (c # "Batch" => Rank[c] \in 1 .. 3)
  BY DEF Rank, Priorities

\* The scheduler starts type-correct (Scheduler::start: empty channels).
LEMMA InitTypeOK == Init => TypeOK
  BY NoReqAssumption, CapAssumption
     DEF Init, TypeOK, Priorities, Places, Responses

\* The channels of TypeOK.
Channels(q) ==
    /\ q \in [Priorities -> Seq(Requests)]
    /\ \A c \in Priorities : Len(q[c]) <= Cap[c]

\* A send into a channel with room keeps every channel within its bound.
LEMMA EnqueueKeepsChannels ==
    ASSUME TypeOK, NEW r \in Requests, NEW c \in Priorities, ~Full(c), Enqueue(r, c)
    PROVE  Channels(queue')
  <1> DEFINE q == Append(queue[c], r)
  <1>1. q \in Seq(Requests) /\ Len(q) <= Cap[c]
    BY AppendIsBounded, CapAssumption DEF TypeOK, Full
  <1>2. queue' = [queue EXCEPT ![c] = q]
    BY DEF Enqueue
  <1> HIDE DEF q
  <1> QED
    BY <1>1, <1>2 DEF TypeOK, Channels

\* A receive keeps the channels typed and yields a request.
LEMMA PullKeepsChannels ==
    ASSUME TypeOK, NEW c \in Priorities, Pull(c)
    PROVE  Channels(queue') /\ Head(queue[c]) \in Requests
  <1> DEFINE q == Tail(queue[c])
  <1>1. q \in Seq(Requests) /\ Len(q) <= Cap[c] /\ Head(queue[c]) \in Requests
    BY TailIsBounded, CapAssumption DEF TypeOK, Pull
  <1>2. queue' = [queue EXCEPT ![c] = q]
    BY DEF Pull
  <1> HIDE DEF q
  <1> QED
    BY <1>1, <1>2 DEF TypeOK, Channels

\* The drop of some channels keeps the others typed.
LEMMA DropKeepsChannels ==
    ASSUME TypeOK, NEW C, NEW D, DropChannels(C, D)
    PROVE  Channels(queue')
  <1>1. \A c \in Priorities :
          /\ queue[c] \in Seq(Requests) /\ Len(queue[c]) <= Cap[c]
          /\ <<>> \in Seq(Requests) /\ Len(<<>>) <= Cap[c]
    BY CapAssumption DEF TypeOK
  <1>2. queue' = [c \in Priorities |-> IF c \in C THEN <<>> ELSE queue[c]]
    BY DEF DropChannels
  <1> QED
    BY <1>1, <1>2 DEF Channels

\* Answering a request keeps the types of its place and its response.
LEMMA AnswerKeepsTypes ==
    ASSUME TypeOK, NEW r, NEW resp \in Responses, Answer(r, resp)
    PROVE  place' \in [Requests -> Places] /\ response' \in [Requests -> Responses]
  BY DEF TypeOK, Answer, Places

\* The drop of channels keeps the types of places and responses.
LEMMA DropKeepsTypes ==
    ASSUME TypeOK, NEW C, NEW D, DropChannels(C, D)
    PROVE  place' \in [Requests -> Places] /\ response' \in [Requests -> Responses]
  BY DEF TypeOK, DropChannels, Places, Responses

\* What admit and a parked send may do keeps the types it touches.
LEMMA AdmissionKeepsTypes ==
    ASSUME TypeOK, NEW r \in Requests, NEW c \in Priorities,
           TrySend(r, c) \/ Send(r, c)
    PROVE  /\ Channels(queue')
           /\ place' \in [Requests -> Places]
           /\ response' \in [Requests -> Responses]
  <1>1. CASE ~Full(c) /\ Enqueue(r, c)
    <2>1. Channels(queue')
      BY <1>1, EnqueueKeepsChannels
    <2> QED
      BY <1>1, <2>1 DEF TypeOK, Enqueue, Places
  <1>2. CASE UNCHANGED queue /\ \E resp \in {"Overloaded", "Gone"} : Answer(r, resp)
    BY <1>2, AnswerKeepsTypes DEF TypeOK, Channels, Responses
  <1>3. CASE /\ place' = [place EXCEPT ![r] = "blocked"]
             /\ UNCHANGED <<queue, response>>
    BY <1>3 DEF TypeOK, Channels, Places
  <1> QED
    BY <1>1, <1>2, <1>3 DEF TrySend, Send

\* A receive by the dispatcher preserves the type invariant.
LEMMA PullKeepsTypes ==
    ASSUME TypeOK, NEW c \in Priorities, Pull(c)
    PROVE  TypeOK'
  <1>1. Channels(queue') /\ Head(queue[c]) \in Requests
    BY PullKeepsChannels
  <1>2. overtaken' \in [Requests -> Nat]
    BY DEF TypeOK, Pull
  <1>3. /\ place' \in [Requests -> Places]
        /\ current' \in Requests \union {NoRequest}
    BY <1>1 DEF TypeOK, Pull, Places
  <1> QED
    BY <1>1, <1>2, <1>3 DEF TypeOK, Pull, Channels, callerVars, watchdogVars

\* Every step of callers, dispatcher and watchdog preserves TypeOK.
LEMMA StepTypeOK == TypeOK /\ [Next]_vars => TypeOK'
  <1> SUFFICES ASSUME TypeOK, [Next]_vars
               PROVE  TypeOK'
    OBVIOUS
  <1> USE DEF callerVars, dispatcherVars, watchdogVars
  <1>1. CASE \E r \in Requests, c \in Priorities : Admit(r, c)
    <2> PICK r \in Requests, c \in Priorities : Admit(r, c)
      BY <1>1
    <2>1. /\ Channels(queue')
          /\ place' \in [Requests -> Places]
          /\ response' \in [Requests -> Responses]
      BY AdmissionKeepsTypes DEF Admit
    <2> QED
      BY <2>1 DEF TypeOK, Admit, Channels
  <1>2. CASE \E r \in Requests : Unblock(r)
    <2> PICK r \in Requests : Unblock(r)
      BY <1>2
    <2>1. class[r] \in Priorities
      BY DEF TypeOK
    <2>2. TrySend(r, class[r]) \/ Send(r, class[r])
      BY DEF Unblock, TrySend, Send
    <2>3. /\ Channels(queue')
          /\ place' \in [Requests -> Places]
          /\ response' \in [Requests -> Responses]
      BY <2>1, <2>2, AdmissionKeepsTypes
    <2> QED
      BY <2>3 DEF TypeOK, Unblock, Channels
  <1>3. CASE \E r \in Requests : TripToken(r)
    BY <1>3 DEF TypeOK, TripToken
  <1>4. CASE DropScheduler
    BY <1>4 DEF TypeOK, DropScheduler
  <1>5. CASE \E c \in Priorities : TryRecv(c)
    <2> PICK c \in Priorities : TryRecv(c)
      BY <1>5
    <2>1. CASE Pull(c)
      BY <2>1, PullKeepsTypes
    <2>2. CASE ~Pull(c)
      <3>1. Rank[c] = polled /\ (pc' = "select" \/ UNCHANGED pc)
        BY <2>2 DEF TryRecv
      <3>2. polled' \in 1 .. 4
        BY <2>2, RankInRange DEF TypeOK, TryRecv
      <3>3. UNCHANGED <<callerVars, queue, place, response, current, inflight,
                        watchdogVars, overtaken>>
        BY <2>2 DEF TryRecv
      <3> QED
        BY <3>1, <3>2, <3>3 DEF TypeOK
    <2> QED
      BY <2>1, <2>2
  <1>6. CASE Select
    <2>1. CASE \E c \in Priorities : Pull(c)
      BY <2>1, PullKeepsTypes
    <2>2. CASE ~\E c \in Priorities : Pull(c)
      <3>1. /\ pc' = "exited"
            /\ DropChannels(DispatcherOnly, {})
            /\ UNCHANGED <<callerVars, polled, current, inflight, watchdogVars,
                           overtaken>>
        BY <1>6, <2>2 DEF Select
      <3>2. /\ Channels(queue')
            /\ place' \in [Requests -> Places]
            /\ response' \in [Requests -> Responses]
        BY <3>1, DropKeepsChannels, DropKeepsTypes
      <3> QED
        BY <3>1, <3>2 DEF TypeOK, Channels
    <2> QED
      BY <2>1, <2>2
  <1>7. CASE Start
    <2>1. /\ place' \in [Requests -> Places]
          /\ response' \in [Requests -> Responses]
      BY <1>7, AnswerKeepsTypes DEF TypeOK, Start, Responses
    <2>2. /\ pc' \in {"poll", "running"} /\ polled' \in 1 .. 4
          /\ current' \in {current, NoRequest} /\ inflight' \in {current, inflight}
      BY <1>7 DEF TypeOK, Start, BackToPolling
    <2>3. UNCHANGED <<callerVars, queue, watchdogVars, overtaken>>
      BY <1>7 DEF Start
    <2> QED
      BY <2>1, <2>2, <2>3 DEF TypeOK
  <1>8. CASE \E o \in Outcomes : Finish(o)
    <2> PICK o \in Outcomes : Finish(o)
      BY <1>8
    <2>1. /\ place' \in [Requests -> Places]
          /\ response' \in [Requests -> Responses]
      BY AnswerKeepsTypes DEF Finish, Outcomes, Responses
    <2> QED
      BY <2>1 DEF TypeOK, Finish, BackToPolling
  <1>9. CASE Panic
    <2>1. /\ Channels(queue')
          /\ place' \in [Requests -> Places]
          /\ response' \in [Requests -> Responses]
      BY <1>9, DropKeepsChannels, DropKeepsTypes DEF Panic
    <2> QED
      BY <1>9, <2>1 DEF TypeOK, Panic, Channels
  <1>10. CASE \E r \in Requests : Elapse(r)
    BY <1>10 DEF TypeOK, Elapse
  <1>11. CASE Tick
    <2>1. /\ Channels(queue')
          /\ place' \in [Requests -> Places]
          /\ response' \in [Requests -> Responses]
      BY <1>11, DropKeepsChannels, DropKeepsTypes DEF Tick, TypeOK, Channels
    <2> QED
      BY <1>11, <2>1 DEF TypeOK, Tick, Channels
  <1>12. CASE Decide
    BY <1>12 DEF TypeOK, Decide
  <1>13. CASE Fire
    <2>1. escapes' \in [Requests -> Nat]
      <3>1. CASE watch.info \in Requests
        BY <1>13, <3>1 DEF TypeOK, Fire
      <3>2. CASE watch.info \notin Requests
        BY <1>13, <3>2 DEF TypeOK, Fire
      <3> QED
        BY <3>1, <3>2
    <2> QED
      BY <1>13, <2>1 DEF TypeOK, Fire
  <1>14. CASE UNCHANGED vars
    BY <1>14 DEF TypeOK, vars
  <1> QED
    BY <1>1, <1>2, <1>3, <1>4, <1>5, <1>6, <1>7, <1>8, <1>9, <1>10, <1>11,
       <1>12, <1>13, <1>14
       DEF Next, Dispatch, Watchdog

\* The type invariant holds in every reachable state: in particular no
\* channel outgrows its bound, whatever the bounds are.
THEOREM TypeCorrect == Spec => []TypeOK
  BY InitTypeOK, StepTypeOK, PTL DEF Spec
-----------------------------------------------------------------------------
(* No request is lost or duplicated. *)

\* The last conjunct of RequestInOnePlace.
AnsweredIsDone == \A r \in Requests : place[r] = "done" <=> response[r] # "none"

\* A send by a caller that holds r puts r, once, at the end of its channel.
LEMMA EnqueueKeepsPlace ==
    ASSUME TypeOK, RequestInOnePlace, NEW r \in Requests, NEW c \in Priorities,
           place[r] \in {"idle", "blocked"}, Enqueue(r, c),
           class' = [class EXCEPT ![r] = c], UNCHANGED <<pc, current>>
    PROVE  RequestInOnePlace'
  <1>1. /\ place' = [place EXCEPT ![r] = "queued"]
        /\ response' = response
        /\ queue' = [queue EXCEPT ![c] = Append(queue[c], r)]
    BY DEF Enqueue
  <1>2. /\ \A q \in Requests : q # r => place'[q] = place[q] /\ class'[q] = class[q]
        /\ place'[r] = "queued" /\ class'[r] = c
        /\ \A q \in Requests : class[q] \in Priorities
    BY <1>1 DEF TypeOK
  <1>3. \A d \in Priorities : Len(queue[d]) \in Nat
    BY DEF TypeOK
  <1>4. /\ Len(queue'[c]) = Len(queue[c]) + 1
        /\ \A i \in 1 .. Len(queue[c]) : queue'[c][i] = queue[c][i]
        /\ queue'[c][Len(queue[c]) + 1] = r
        /\ \A d \in Priorities \ {c} : queue'[d] = queue[d]
    BY <1>1 DEF TypeOK
  <1>5. \A d \in Priorities : \A i \in 1 .. Len(queue[d]) :
           /\ queue[d][i] \in Requests /\ queue[d][i] # r
           /\ place[queue[d][i]] = "queued" /\ class[queue[d][i]] = d
    BY DEF TypeOK, RequestInOnePlace, QueuedOnce
  <1>6. \A d \in Priorities : \A i \in 1 .. Len(queue'[d]) :
           \/ i \in 1 .. Len(queue[d]) /\ queue'[d][i] = queue[d][i]
           \/ d = c /\ i = Len(queue[c]) + 1 /\ queue'[d][i] = r
    BY <1>3, <1>4
  <1>7. QueuedOnce'
    <2>1. \A d \in Priorities : \A i \in 1 .. Len(queue'[d]) :
             place'[queue'[d][i]] = "queued" /\ class'[queue'[d][i]] = d
      BY <1>2, <1>5, <1>6
    <2>2. \A d \in Priorities : \A i, j \in 1 .. Len(queue'[d]) :
             queue'[d][i] = queue'[d][j] => i = j
      <3>1. \A d \in Priorities : \A i, j \in 1 .. Len(queue[d]) :
               queue[d][i] = queue[d][j] => i = j
        BY DEF RequestInOnePlace, QueuedOnce
      <3> QED
        BY <1>5, <1>6, <3>1
    <2>3. ASSUME NEW q \in Requests, place'[q] = "queued"
          PROVE  \E i \in 1 .. Len(queue'[class'[q]]) : queue'[class'[q]][i] = q
      <3>1. CASE q = r
        BY <1>2, <1>3, <1>4, <3>1
      <3>2. CASE q # r
        <4>1. place[q] = "queued" /\ class'[q] = class[q] /\ class[q] \in Priorities
          BY <1>2, <2>3, <3>2
        <4>2. PICK i \in 1 .. Len(queue[class[q]]) : queue[class[q]][i] = q
          BY <4>1 DEF RequestInOnePlace, QueuedOnce
        <4>3. i \in 1 .. Len(queue'[class[q]]) /\ queue'[class[q]][i] = q
          BY <1>3, <1>4, <4>1, <4>2
        <4> QED
          BY <4>1, <4>3
      <3> QED
        BY <3>1, <3>2
    <2> QED
      BY <2>1, <2>2, <2>3 DEF QueuedOnce
  <1>8. TakenIsCurrent'
    BY <1>2 DEF RequestInOnePlace, TakenIsCurrent
  <1>9. AnsweredIsDone'
    BY <1>1, <1>2 DEF RequestInOnePlace, AnsweredIsDone
  <1> QED
    BY <1>7, <1>8, <1>9 DEF RequestInOnePlace, AnsweredIsDone

\* A request that is in no channel and not taken may change hands without
\* touching the channels: admit's errors and a parked send.
LEMMA CallerKeepsPlace ==
    ASSUME TypeOK, RequestInOnePlace, NEW r \in Requests, NEW c \in Priorities,
           place[r] \in {"idle", "blocked"}, UNCHANGED <<queue, pc, current>>,
           class' = [class EXCEPT ![r] = c],
           \/ \E resp \in Responses \ {"none"} : Answer(r, resp)
           \/ place' = [place EXCEPT ![r] = "blocked"] /\ UNCHANGED response
    PROVE  RequestInOnePlace'
  <1> USE DEF TypeOK, RequestInOnePlace
  <1>1. \A d \in Priorities : \A i \in 1 .. Len(queue[d]) :
           queue[d][i] \in Requests /\ queue[d][i] # r
    BY DEF QueuedOnce
  <1>2. place' = [place EXCEPT ![r] = place'[r]] /\ place'[r] \in {"blocked", "done"}
    BY DEF Answer
  <1>3. \A q \in Requests : q # r => place'[q] = place[q] /\ class'[q] = class[q]
    BY <1>2
  <1>4. QueuedOnce'
    <2>1. QueuedOnce /\ queue' = queue
      OBVIOUS
    <2>2. \A q \in Requests : place'[q] = "queued" => place[q] = "queued" /\ q # r
      BY <1>2, <1>3
    <2> HIDE DEF TypeOK, RequestInOnePlace
    <2> QED
      BY <1>1, <1>3, <2>1, <2>2 DEF QueuedOnce
  <1>5. TakenIsCurrent'
    BY <1>2 DEF TakenIsCurrent
  <1>6. AnsweredIsDone'
    BY DEF Answer, AnsweredIsDone
  <1> QED
    BY <1>4, <1>5, <1>6 DEF AnsweredIsDone

\* A receive hands the oldest request of one channel to the dispatcher.
LEMMA PullKeepsPlace ==
    ASSUME TypeOK, RequestInOnePlace, NEW c \in Priorities, Pull(c),
           pc \in {"poll", "select"}
    PROVE  RequestInOnePlace'
  <1> DEFINE r == Head(queue[c])
  <1>1. /\ place' = [place EXCEPT ![r] = "taken"] /\ response' = response
        /\ queue' = [queue EXCEPT ![c] = Tail(queue[c])]
        /\ current' = r /\ pc' = "pulled" /\ class' = class
    BY DEF Pull, callerVars
  <1>2. /\ Len(queue[c]) >= 1 /\ r = queue[c][1] /\ r \in Requests
        /\ Len(queue'[c]) = Len(queue[c]) - 1
        /\ \A i \in 1 .. Len(queue'[c]) : queue'[c][i] = queue[c][i + 1]
        /\ \A d \in Priorities \ {c} : queue'[d] = queue[d]
        /\ \A d \in Priorities : Len(queue[d]) \in Nat
    BY <1>1 DEF TypeOK, Pull
  <1> HIDE DEF r
  <1>3. \A d \in Priorities : \A i \in 1 .. Len(queue[d]) :
           /\ queue[d][i] \in Requests
           /\ place[queue[d][i]] = "queued" /\ class[queue[d][i]] = d
    BY DEF TypeOK, RequestInOnePlace, QueuedOnce
  <1>4. \A d \in Priorities : \A i, j \in 1 .. Len(queue[d]) :
           queue[d][i] = queue[d][j] => i = j
    BY DEF RequestInOnePlace, QueuedOnce
  <1>5. place[r] = "queued" /\ class[r] = c
    BY <1>2, <1>3
  <1>6. /\ \A q \in Requests : q # r => place'[q] = place[q]
        /\ place'[r] = "taken"
    BY <1>1, <1>2 DEF TypeOK
  <1>7. \A d \in Priorities \ {c} : \A i \in 1 .. Len(queue[d]) : queue[d][i] # r
    BY <1>3, <1>5
  <1>8. \A i \in 1 .. Len(queue'[c]) :
           /\ i + 1 \in 1 .. Len(queue[c])
           /\ queue'[c][i] = queue[c][i + 1] /\ queue[c][i + 1] # r
    BY <1>2, <1>4
  <1>9. QueuedOnce'
    <2>1. \A d \in Priorities : \A i \in 1 .. Len(queue'[d]) :
             place'[queue'[d][i]] = "queued" /\ class'[queue'[d][i]] = d
      <3> TAKE d \in Priorities
      <3>1. CASE d = c
        <4> TAKE i \in 1 .. Len(queue'[d])
        <4>1. /\ queue'[d][i] \in Requests \ {r}
              /\ place[queue'[d][i]] = "queued" /\ class[queue'[d][i]] = d
          BY <1>3, <1>8, <3>1
        <4> QED
          BY <1>1, <1>6, <4>1
      <3>2. CASE d # c
        BY <1>1, <1>2, <1>3, <1>6, <1>7, <3>2
      <3> QED
        BY <3>1, <3>2
    <2>2. \A d \in Priorities : \A i, j \in 1 .. Len(queue'[d]) :
             queue'[d][i] = queue'[d][j] => i = j
      <3> TAKE d \in Priorities
      <3>1. CASE d = c
        <4> TAKE i, j \in 1 .. Len(queue'[d])
        <4>1. queue[c][i + 1] = queue[c][j + 1] => i + 1 = j + 1
          BY <1>4, <1>8, <3>1
        <4>2. i \in Int /\ j \in Int
          OBVIOUS
        <4> QED
          BY <1>8, <3>1, <4>1, <4>2
      <3>2. CASE d # c
        BY <1>2, <1>4, <3>2
      <3> QED
        BY <3>1, <3>2
    <2>3. ASSUME NEW q \in Requests, place'[q] = "queued"
          PROVE  \E i \in 1 .. Len(queue'[class'[q]]) : queue'[class'[q]][i] = q
      <3>1. /\ place[q] = "queued" /\ q # r
            /\ class'[q] = class[q] /\ class[q] \in Priorities
        BY <1>1, <1>6, <2>3 DEF TypeOK
      <3>2. PICK i \in 1 .. Len(queue[class[q]]) : queue[class[q]][i] = q
        BY <3>1 DEF RequestInOnePlace, QueuedOnce
      <3>3. CASE class[q] # c
        BY <1>2, <3>1, <3>2, <3>3
      <3>4. CASE class[q] = c
        <4>1. i # 1
          BY <1>2, <3>1, <3>2, <3>4
        <4>2. i - 1 \in 1 .. Len(queue'[c]) /\ (i - 1) + 1 = i
          BY <1>2, <3>2, <3>4, <4>1
        <4>3. queue'[c][i - 1] = q
          BY <1>2, <3>2, <3>4, <4>2
        <4> QED
          BY <3>1, <3>4, <4>2, <4>3
      <3> QED
        BY <3>3, <3>4
    <2> QED
      BY <2>1, <2>2, <2>3 DEF QueuedOnce
  <1>10. TakenIsCurrent'
    BY <1>1, <1>2, <1>6, NoReqAssumption DEF RequestInOnePlace, TakenIsCurrent
  <1>11. AnsweredIsDone'
    BY <1>1, <1>5, <1>6 DEF RequestInOnePlace, AnsweredIsDone
  <1> QED
    BY <1>9, <1>10, <1>11 DEF RequestInOnePlace, AnsweredIsDone

\* The dispatcher answers the request it holds and lets go of it.
LEMMA AnswerKeepsPlace ==
    ASSUME TypeOK, RequestInOnePlace, pc \in {"pulled", "running"},
           NEW resp \in Responses \ {"none"}, Answer(current, resp),
           BackToPolling, UNCHANGED <<queue, class>>
    PROVE  RequestInOnePlace'
  <1> USE DEF TypeOK, RequestInOnePlace, Answer, BackToPolling
  <1>1. current \in Requests /\ place[current] = "taken"
    BY DEF TakenIsCurrent
  <1>2. QueuedOnce'
    BY <1>1 DEF QueuedOnce
  <1>3. TakenIsCurrent'
    BY <1>1, NoReqAssumption DEF TakenIsCurrent
  <1>4. AnsweredIsDone'
    BY <1>1 DEF AnsweredIsDone
  <1> QED
    BY <1>2, <1>3, <1>4 DEF AnsweredIsDone

\* The drop of channels, and of the request in the dispatcher's hands, answers
\* exactly what they held.
LEMMA DropKeepsPlace ==
    ASSUME TypeOK, RequestInOnePlace, NEW C \in SUBSET Priorities, NEW D,
           DropChannels(C, D), D = {current} \ {NoRequest}, UNCHANGED class,
           pc' = "exited", current' = NoRequest
    PROVE  RequestInOnePlace'
  <1> DEFINE lost == D \union {r \in Requests : place[r] = "queued" /\ class[r] \in C}
  <1> USE DEF TypeOK, RequestInOnePlace
  <1>1. /\ queue' = [c \in Priorities |-> IF c \in C THEN <<>> ELSE queue[c]]
        /\ place' = [r \in Requests |-> IF r \in lost THEN "done" ELSE place[r]]
        /\ response' = [r \in Requests |-> IF r \in lost THEN "Dropped" ELSE response[r]]
    BY DEF DropChannels
  <1>2. /\ \A r \in Requests : r \in lost <=>
             (place[r] = "taken" \/ (place[r] = "queued" /\ class[r] \in C))
    BY NoReqAssumption DEF TakenIsCurrent
  <1> HIDE DEF lost
  <1>3. QueuedOnce'
    <2>1. \A d \in Priorities : \A i \in 1 .. Len(queue[d]) : queue[d][i] \in Requests
      OBVIOUS
    <2>2. QueuedOnce /\ \A q \in Requests : class[q] \in Priorities
      OBVIOUS
    <2>3. \A q \in Requests : place'[q] = "queued" <=>
             place[q] = "queued" /\ class[q] \notin C
      BY <1>1, <1>2
    <2>4. \A d \in Priorities :
             IF d \in C THEN queue'[d] = <<>> ELSE queue'[d] = queue[d]
      BY <1>1
    <2>5. \A d \in Priorities : \A i \in 1 .. Len(queue'[d]) : d \notin C
      BY <2>4
    <2> HIDE DEF TypeOK, RequestInOnePlace
    <2>6. \A d \in Priorities : \A i \in 1 .. Len(queue'[d]) :
             place'[queue'[d][i]] = "queued" /\ class'[queue'[d][i]] = d
      BY <2>1, <2>2, <2>3, <2>4, <2>5 DEF QueuedOnce
    <2>7. \A d \in Priorities : \A i, j \in 1 .. Len(queue'[d]) :
             queue'[d][i] = queue'[d][j] => i = j
      BY <2>2, <2>4, <2>5 DEF QueuedOnce
    <2>8. \A q \in Requests : place'[q] = "queued" =>
             \E i \in 1 .. Len(queue'[class'[q]]) : queue'[class'[q]][i] = q
      BY <2>2, <2>3, <2>4 DEF QueuedOnce
    <2> QED
      BY <2>6, <2>7, <2>8 DEF QueuedOnce
  <1>4. TakenIsCurrent'
    BY <1>1, <1>2, NoReqAssumption DEF TakenIsCurrent
  <1>5. AnsweredIsDone'
    BY <1>1 , <1>2 DEF AnsweredIsDone
  <1> QED
    BY <1>3, <1>4, <1>5 DEF AnsweredIsDone

\* A step that moves no request.
LEMMA StutterKeepsPlace ==
    ASSUME RequestInOnePlace, UNCHANGED <<queue, class, place, response, current>>,
           pc' = pc \/ {pc, pc'} \subseteq {"poll", "select", "exited"}
                    \/ {pc, pc'} \subseteq {"pulled", "running"}
    PROVE  RequestInOnePlace'
  BY DEF RequestInOnePlace, QueuedOnce, TakenIsCurrent

\* Between calls the dispatcher holds nothing.
LEMMA IdleHoldsNothing ==
    ASSUME RequestInOnePlace, pc \notin {"pulled", "running"}
    PROVE  current = NoRequest
  BY DEF RequestInOnePlace, TakenIsCurrent

\* RequestInOnePlace is inductive relative to TypeOK.
LEMMA StepPlace == TypeOK /\ RequestInOnePlace /\ [Next]_vars => RequestInOnePlace'
  <1> SUFFICES ASSUME TypeOK, RequestInOnePlace, [Next]_vars
               PROVE  RequestInOnePlace'
    OBVIOUS
  <1> USE DEF callerVars, dispatcherVars
  <1>1. CASE \E r \in Requests, c \in Priorities : Admit(r, c)
    <2> PICK r \in Requests, c \in Priorities : Admit(r, c)
      BY <1>1
    <2>1. /\ class' = [class EXCEPT ![r] = c] /\ place[r] = "idle"
          /\ UNCHANGED <<pc, current>> /\ (Send(r, c) \/ TrySend(r, c))
      BY DEF Admit
    <2>2. CASE Enqueue(r, c)
      BY <2>1, <2>2, EnqueueKeepsPlace
    <2>3. CASE ~Enqueue(r, c)
      <3>1. /\ UNCHANGED queue
            /\ \/ Answer(r, "Overloaded") \/ Answer(r, "Gone")
               \/ place' = [place EXCEPT ![r] = "blocked"] /\ UNCHANGED response
        BY <2>1, <2>3 DEF Send, TrySend
      <3> QED
        BY <2>1, <3>1, CallerKeepsPlace DEF Responses
    <2> QED
      BY <2>2, <2>3
  <1>2. CASE \E r \in Requests : Unblock(r)
    <2> PICK r \in Requests : Unblock(r)
      BY <1>2
    <2>1. class = [class EXCEPT ![r] = class[r]] /\ class[r] \in Priorities
      BY DEF TypeOK
    <2>2. /\ UNCHANGED <<class, pc, current>> /\ place[r] = "blocked"
          /\ Enqueue(r, class[r]) \/ (Answer(r, "Gone") /\ UNCHANGED queue)
      BY DEF Unblock
    <2> QED
      BY <2>1, <2>2, EnqueueKeepsPlace, CallerKeepsPlace DEF Responses
  <1>3. CASE \E r \in Requests : TripToken(r)
    BY <1>3, StutterKeepsPlace DEF TripToken
  <1>4. CASE DropScheduler
    BY <1>4, StutterKeepsPlace DEF DropScheduler
  <1>5. CASE \E c \in Priorities : TryRecv(c)
    <2> PICK c \in Priorities : TryRecv(c)
      BY <1>5
    <2>1. CASE Pull(c)
      BY <2>1, PullKeepsPlace DEF TryRecv
    <2>2. CASE ~Pull(c)
      BY <2>2, StutterKeepsPlace DEF TryRecv
    <2> QED
      BY <2>1, <2>2
  <1>6. CASE Select
    <2>1. CASE \E c \in Priorities : Pull(c)
      BY <1>6, <2>1, PullKeepsPlace DEF Select
    <2>2. CASE ~\E c \in Priorities : Pull(c)
      <3>1. /\ pc' = "exited" /\ DropChannels(DispatcherOnly, {})
            /\ UNCHANGED <<class, current>>
        BY <1>6, <2>2 DEF Select
      <3>2. current = NoRequest
        BY <1>6, IdleHoldsNothing DEF Select
      <3>3. DispatcherOnly \in SUBSET Priorities
        BY DEF DispatcherOnly, Priorities
      <3> QED
        BY <3>1, <3>2, <3>3, DropKeepsPlace
    <2> QED
      BY <2>1, <2>2
  <1>7. CASE Start
    <2>1. CASE current \in tripped
      BY <1>7, <2>1, AnswerKeepsPlace DEF Start, Responses
    <2>2. CASE current \notin tripped
      BY <1>7, <2>2, StutterKeepsPlace DEF Start
    <2> QED
      BY <2>1, <2>2
  <1>8. CASE \E o \in Outcomes : Finish(o)
    BY <1>8, AnswerKeepsPlace DEF Finish, Outcomes, Responses
  <1>9. CASE Panic
    <2>1. current # NoRequest
      BY <1>9 DEF Panic, RequestInOnePlace, TakenIsCurrent
    <2>2. DispatcherOnly \in SUBSET Priorities
      BY DEF DispatcherOnly, Priorities
    <2> QED
      BY <1>9, <2>1, <2>2, DropKeepsPlace DEF Panic
  <1>10. CASE \E r \in Requests : Elapse(r)
    BY <1>10, StutterKeepsPlace DEF Elapse
  <1>11. CASE Tick
    <2>1. CASE pc = "exited"
      <3>1. DropChannels(Priorities, {}) /\ UNCHANGED <<class, pc, current>>
        BY <1>11, <2>1 DEF Tick
      <3> QED
        BY <2>1, <3>1, IdleHoldsNothing, DropKeepsPlace
    <2>2. CASE pc # "exited"
      BY <1>11, <2>2, StutterKeepsPlace DEF Tick
    <2> QED
      BY <2>1, <2>2
  <1>12. CASE Decide
    BY <1>12, StutterKeepsPlace DEF Decide
  <1>13. CASE Fire
    BY <1>13, StutterKeepsPlace DEF Fire
  <1>14. CASE UNCHANGED vars
    BY <1>14, StutterKeepsPlace DEF vars
  <1> QED
    BY <1>1, <1>2, <1>3, <1>4, <1>5, <1>6, <1>7, <1>8, <1>9, <1>10, <1>11,
       <1>12, <1>13, <1>14
       DEF Next, Dispatch, Watchdog

\* No request is lost, duplicated or answered twice, for any requests and
\* any channel bounds, across cancellation, panic and shutdown.
THEOREM NothingLost == Spec => []RequestInOnePlace
  <1>1. Init => RequestInOnePlace
    BY NoReqAssumption
       DEF Init, RequestInOnePlace, QueuedOnce, TakenIsCurrent
  <1> QED
    BY <1>1, TypeCorrect, StepPlace, PTL DEF Spec
-----------------------------------------------------------------------------
(* The scheduler implements ComputeService. *)

\* A step that changes no stage and no answer stutters.
LEMMA SameStages ==
    ASSUME \A q \in Requests : Stage(q)' = Stage(q), response' = response
    PROVE  UNCHANGED Service!serviceVars
  BY DEF Service!serviceVars

\* A request of the caller's is queued or parked.
LEMMA SubmitMaps ==
    ASSUME TypeOK, NEW r \in Requests, place[r] = "idle",
           NEW p \in {"queued", "blocked"}, place' = [place EXCEPT ![r] = p],
           UNCHANGED <<pc, response>>
    PROVE  Service!Submit(r)
  <1>1. \A q \in Requests : Stage(q)' = IF q = r THEN "pending" ELSE Stage(q)
    BY DEF TypeOK, Stage, Places
  <1>2. Stage(r) = "new"
    BY DEF Stage
  <1> QED
    BY <1>1, <1>2 DEF Service!Submit

\* A send that was parked goes through.
LEMMA UnblockMaps ==
    ASSUME TypeOK, NEW r \in Requests, place[r] = "blocked",
           place' = [place EXCEPT ![r] = "queued"], UNCHANGED <<pc, response>>
    PROVE  UNCHANGED Service!serviceVars
  <1>1. \A q \in Requests : Stage(q)' = Stage(q)
    BY DEF TypeOK, Stage, Places
  <1> QED
    BY <1>1, SameStages

\* Requests answered with a refusal are given up.
LEMMA RefusalMaps ==
    ASSUME TypeOK, RequestInOnePlace, NEW S \in SUBSET Requests,
           \A r \in S : place[r] # "done",
           NEW resp \in Responses \ (Outcomes \union {"none"}),
           place' = [r \in Requests |-> IF r \in S THEN "done" ELSE place[r]],
           response' = [r \in Requests |-> IF r \in S THEN resp ELSE response[r]],
           \A r \in Requests \ S : place[r] = "taken" => pc' = pc
    PROVE  Service!GiveUp(S)
  <1>1. \A q \in Requests : Stage(q)' = IF q \in S THEN "answered" ELSE Stage(q)
    BY DEF TypeOK, Stage, Places
  <1>2. \A q \in S : Stage(q) # "answered"
    BY DEF TypeOK, Stage, Places
  <1> QED
    BY <1>1, <1>2 DEF Service!GiveUp

\* admit's error or a dropped token: one request is given up.
LEMMA AnswerMaps ==
    ASSUME TypeOK, RequestInOnePlace, NEW r \in Requests, place[r] # "done",
           NEW resp \in Responses \ (Outcomes \union {"none"}), Answer(r, resp),
           \A q \in Requests \ {r} : place[q] = "taken" => pc' = pc
    PROVE  Service!GiveUp({r})
  <1>1. place' = [q \in Requests |-> IF q \in {r} THEN "done" ELSE place[q]]
    BY DEF TypeOK, Answer
  <1>2. response' = [q \in Requests |-> IF q \in {r} THEN resp ELSE response[q]]
    BY DEF TypeOK, Answer
  <1> QED
    BY <1>1, <1>2, RefusalMaps

\* A drop of channels gives up what they hold.
LEMMA DropMaps ==
    ASSUME TypeOK, RequestInOnePlace, NEW C, NEW D \in SUBSET Requests,
           \A r \in D : place[r] = "taken", DropChannels(C, D),
           \A r \in Requests \ D : place[r] = "taken" => pc' = pc
    PROVE  \E S \in SUBSET Requests : Service!GiveUp(S)
  <1> DEFINE S == D \union {r \in Requests : place[r] = "queued" /\ class[r] \in C}
  <1>1. \A r \in S : place[r] # "done"
    OBVIOUS
  <1>2. \A r \in Requests \ S : place[r] = "taken" => pc' = pc
    OBVIOUS
  <1>3. "Dropped" \in Responses \ (Outcomes \union {"none"})
    BY DEF Responses, Outcomes
  <1>4. /\ place' = [r \in Requests |-> IF r \in S THEN "done" ELSE place[r]]
        /\ response' = [r \in Requests |-> IF r \in S THEN "Dropped" ELSE response[r]]
    BY DEF DropChannels
  <1>5. S \in SUBSET Requests
    OBVIOUS
  <1> HIDE DEF S
  <1>6. Service!GiveUp(S)
    BY <1>1, <1>2, <1>3, <1>4, <1>5, RefusalMaps
  <1> QED
    BY <1>5, <1>6

\* A pulled request is still pending: nothing runs while the dispatcher polls.
LEMMA PullMaps ==
    ASSUME TypeOK, RequestInOnePlace, NEW c \in Priorities, Pull(c),
           pc \in {"poll", "select"}
    PROVE  UNCHANGED Service!serviceVars
  <1> DEFINE r == Head(queue[c])
  <1>1. r \in Requests /\ place[r] = "queued"
    <2>1. 1 \in 1 .. Len(queue[c]) /\ r = queue[c][1] /\ r \in Requests
      BY DEF TypeOK, Pull
    <2> QED
      BY <2>1 DEF RequestInOnePlace, QueuedOnce
  <1>2. place' = [place EXCEPT ![r] = "taken"] /\ pc' = "pulled" /\ response' = response
    BY DEF Pull
  <1> HIDE DEF r
  <1>3. \A q \in Requests : Stage(q)' = Stage(q)
    BY <1>1, <1>2 DEF TypeOK, Stage, Places
  <1> QED
    BY <1>2, <1>3, SameStages

\* The backend is called: nothing else runs, since the dispatcher holds one
\* request.
LEMMA StartMaps ==
    ASSUME TypeOK, RequestInOnePlace, Start
    PROVE  Service!ServiceNext
  <1>1. current \in Requests /\ place[current] = "taken"
    BY DEF Start, TypeOK, RequestInOnePlace, TakenIsCurrent
  <1>2. \A q \in Requests \ {current} : place[q] # "taken"
    BY DEF RequestInOnePlace, TakenIsCurrent
  <1>3. CASE current \in tripped
    <2>1. Answer(current, "Cancelled")
      BY <1>3 DEF Start
    <2>2. "Cancelled" \in Responses \ (Outcomes \union {"none"})
      BY DEF Responses, Outcomes
    <2>3. Service!GiveUp({current})
      BY <1>1, <1>2, <2>1, <2>2, AnswerMaps
    <2> QED
      BY <1>1, <2>3 DEF Service!ServiceNext
  <1>4. CASE current \notin tripped
    <2>1. pc = "pulled" /\ pc' = "running" /\ UNCHANGED <<place, response>>
      BY <1>4 DEF Start
    <2>2. \A q \in Requests : Stage(q)' = IF q = current THEN "running" ELSE Stage(q)
      BY <1>1, <1>2, <2>1 DEF Stage
    <2>3. Stage(current) = "pending" /\ \A q \in Requests : Stage(q) # "running"
      BY <1>1, <2>1 DEF Stage
    <2>4. Service!Run(current)
      BY <1>1, <2>1, <2>2, <2>3 DEF Service!Run
    <2> QED
      BY <1>1, <2>4 DEF Service!ServiceNext
  <1> QED
    BY <1>3, <1>4

\* The backend returns: the run completes with its outcome.
LEMMA FinishMaps ==
    ASSUME TypeOK, RequestInOnePlace, NEW o \in Outcomes, Finish(o)
    PROVE  Service!ServiceNext
  <1>1. current \in Requests /\ place[current] = "taken" /\ pc = "running"
    BY DEF Finish, TypeOK, RequestInOnePlace, TakenIsCurrent
  <1>2. \A q \in Requests \ {current} : place[q] # "taken"
    BY DEF RequestInOnePlace, TakenIsCurrent
  <1>3. /\ place' = [place EXCEPT ![current] = "done"]
        /\ response' = [response EXCEPT ![current] = o]
    BY DEF Finish, Answer
  <1>4. \A q \in Requests : Stage(q)' = IF q = current THEN "answered" ELSE Stage(q)
    BY <1>1, <1>2, <1>3 DEF Stage, TypeOK, Places
  <1>5. Stage(current) = "running"
    BY <1>1 DEF Stage
  <1>6. Service!Complete(current)
    BY <1>1, <1>3, <1>4, <1>5 DEF Service!Complete
  <1> QED
    BY <1>1, <1>6 DEF Service!ServiceNext

\* The step of a caller: it submits, is refused, or a parked send goes on.
LEMMA CallerMaps ==
    ASSUME TypeOK, RequestInOnePlace, NEW r \in Requests,
           \/ \E c \in Priorities : Admit(r, c)
           \/ Unblock(r)
    PROVE  [Service!ServiceNext]_(Service!serviceVars)
  <1>1. {"Overloaded", "Gone"} \subseteq Responses \ (Outcomes \union {"none"})
    BY DEF Responses, Outcomes
  <1>2. CASE place[r] = "idle" /\ \E c \in Priorities : TrySend(r, c) \/ Send(r, c)
    <2>1. pc' = pc
      BY <1>2 DEF Admit, Unblock, dispatcherVars
    <2>2. CASE \E resp \in {"Overloaded", "Gone"} : Answer(r, resp)
      <3>1. Service!GiveUp({r})
        BY <1>1, <1>2, <2>1, <2>2, AnswerMaps
      <3> QED
        BY <3>1 DEF Service!ServiceNext
    <2>3. CASE \E p \in {"queued", "blocked"} :
                 place' = [place EXCEPT ![r] = p] /\ response' = response
      <3>1. Service!Submit(r)
        BY <1>2, <2>1, <2>3, SubmitMaps
      <3> QED
        BY <3>1 DEF Service!ServiceNext
    <2> QED
      BY <1>2, <2>2, <2>3 DEF TrySend, Send, Enqueue
  <1>3. CASE Unblock(r)
    <2>1. pc' = pc /\ place[r] = "blocked"
      BY <1>3 DEF Unblock, dispatcherVars
    <2>2. CASE Answer(r, "Gone")
      <3>1. Service!GiveUp({r})
        BY <1>1, <2>1, <2>2, AnswerMaps
      <3> QED
        BY <3>1 DEF Service!ServiceNext
    <2>3. CASE Enqueue(r, class[r])
      BY <2>1, <2>3, UnblockMaps DEF Enqueue
    <2> QED
      BY <1>3, <2>2, <2>3 DEF Unblock
  <1> QED
    BY <1>2, <1>3 DEF Admit

\* Every step of the scheduler is a step of the service or none at all.
LEMMA StepMaps ==
    TypeOK /\ RequestInOnePlace /\ [Next]_vars
        => [Service!ServiceNext]_(Service!serviceVars)
  <1> SUFFICES ASSUME TypeOK, RequestInOnePlace, [Next]_vars
               PROVE  [Service!ServiceNext]_(Service!serviceVars)
    OBVIOUS
  <1> DEFINE Same == UNCHANGED <<place, response, pc>>
  <1>1. ASSUME Same PROVE UNCHANGED Service!serviceVars
    <2>1. \A q \in Requests : Stage(q)' = Stage(q)
      BY <1>1 DEF Stage
    <2> QED
      BY <1>1, <2>1, SameStages
  <1>2. CASE \E r \in Requests : Unblock(r) \/ \E c \in Priorities : Admit(r, c)
    BY <1>2, CallerMaps
  <1>3. CASE (\E r \in Requests : TripToken(r) \/ Elapse(r)) \/ DropScheduler
    BY <1>1, <1>3 DEF TripToken, Elapse, DropScheduler, dispatcherVars
  <1>4. CASE \E c \in Priorities : TryRecv(c)
    <2> PICK c \in Priorities : TryRecv(c)
      BY <1>4
    <2>1. CASE Pull(c)
      BY <2>1, PullMaps DEF TryRecv
    <2>2. CASE ~Pull(c)
      <3>1. /\ pc = "poll" /\ pc' \in {"poll", "select"}
            /\ UNCHANGED <<place, response>>
        BY <2>2 DEF TryRecv
      <3>2. \A q \in Requests : Stage(q)' = Stage(q)
        BY <3>1 DEF Stage
      <3> QED
        BY <3>1, <3>2, SameStages
    <2> QED
      BY <2>1, <2>2
  <1>5. CASE Select
    <2>1. CASE \E c \in Priorities : Pull(c)
      BY <1>5, <2>1, PullMaps DEF Select
    <2>2. CASE DropChannels(DispatcherOnly, {})
      <3>1. \A r \in Requests : place[r] # "taken"
        BY <1>5, NoReqAssumption DEF Select, RequestInOnePlace, TakenIsCurrent
      <3> QED
        BY <2>2, <3>1, DropMaps DEF Service!ServiceNext
    <2> QED
      BY <1>5, <2>1, <2>2 DEF Select
  <1>6. CASE Start
    BY <1>6, StartMaps
  <1>7. CASE \E o \in Outcomes : Finish(o)
    BY <1>7, FinishMaps
  <1>8. CASE Panic
    <2>1. current \in Requests /\ place[current] = "taken"
      BY <1>8 DEF Panic, TypeOK, RequestInOnePlace, TakenIsCurrent
    <2>2. \A q \in Requests \ {current} : place[q] # "taken"
      BY DEF RequestInOnePlace, TakenIsCurrent
    <2>3. DropChannels(DispatcherOnly, {current})
      BY <1>8 DEF Panic
    <2> QED
      BY <2>1, <2>2, <2>3, DropMaps DEF Service!ServiceNext
  <1>9. CASE Tick
    <2>1. CASE DropChannels(Priorities, {})
      BY <1>9, <2>1, DropMaps DEF Tick, dispatcherVars, Service!ServiceNext
    <2> QED
      BY <1>1, <1>9, <2>1 DEF Tick, dispatcherVars
  <1>10. CASE Decide \/ Fire
    BY <1>1, <1>10 DEF Decide, Fire, dispatcherVars
  <1>11. CASE UNCHANGED vars
    BY <1>1, <1>11 DEF vars, dispatcherVars
  <1> QED
    BY <1>2, <1>3, <1>4, <1>5, <1>6, <1>7, <1>8, <1>9, <1>10, <1>11
       DEF Next, Dispatch, Watchdog

\* The scheduler implements the one-at-a-time service, for every set of
\* requests and every bound of the channels: two backend calls never overlap
\* and a request is answered once, with a result only if it ran.
THEOREM SchedulerImplementsService == Spec => ImplementsService
  <1>1. Init => Service!ServiceInit
    BY DEF Init, Service!ServiceInit, Stage
  <1> QED
    BY <1>1, TypeCorrect, NothingLost, StepMaps, PTL
       DEF Spec, ImplementsService, Service!ServiceSpec

-----------------------------------------------------------------------------
(* Each run is escaped at most once. *)

\* The backend was called for r.
Dispatched(r) == place[r] = "done" \/ (pc = "running" /\ r = current)

\* The slot names the run in progress; a dispatcher that has exited may leave
\* the name of a request it dropped.
SlotIsCurrent ==
    /\ pc = "running" => inflight = current
    /\ pc \in {"poll", "select", "pulled"} => inflight = NoRequest
    /\ pc = "exited" /\ inflight # NoRequest => place[inflight] = "done"

\* What the watchdog has in hand, or has cancelled, was dispatched.  Whatever
\* was cancelled before the present snapshot, and is not what it shows, is
\* answered by now; and what is about to be cancelled is not last_cancelled.
EscapeInv ==
    /\ SlotIsCurrent
    /\ watch.info # NoRequest <=> watch.pc \in {"snapped", "fire"}
    /\ watch.info # NoRequest => Dispatched(watch.info)
    /\ watch.pc = "fire" => watch.info # watch.last
    /\ \A r \in Requests :
          /\ escapes[r] <= 1
          /\ escapes[r] = 1 => Dispatched(r)
          /\ escapes[r] = 1 /\ r # watch.last => place[r] = "done" /\ r # watch.info
          /\ escapes[r] = 1 /\ watch.info # NoRequest /\ r # watch.info
                => place[r] = "done"

\* A step in which no request leaves "done" or the dispatcher's hands, and the
\* slot and the watchdog keep what they have, keeps EscapeInv.
LEMMA QuietKeepsEscapes ==
    ASSUME TypeOK, EscapeInv, UNCHANGED <<watch, escapes, inflight>>,
           \A r \in Requests : place[r] = "done" => place'[r] = "done",
           \/ pc' = pc /\ current' = current
           \/ {pc, pc'} \subseteq {"poll", "select", "pulled"}
           \/ pc # "running" /\ pc' = "exited"
    PROVE  EscapeInv'
  BY DEF TypeOK, EscapeInv, SlotIsCurrent, Dispatched

\* What the watchdog's snapshot and the cancelled requests owe to a step that
\* changes neither of them.
LEMMA QuietWatchdog ==
    ASSUME TypeOK, EscapeInv, UNCHANGED <<watch, escapes>>, SlotIsCurrent',
           \A r \in Requests : place[r] = "done" => place'[r] = "done",
           \A r \in Requests : Dispatched(r) => Dispatched(r)'
    PROVE  EscapeInv'
  BY DEF TypeOK, EscapeInv

\* A receive takes a request that was queued.
LEMMA PullKeepsEscapes ==
    ASSUME TypeOK, RequestInOnePlace, EscapeInv, NEW c \in Priorities, Pull(c),
           pc \in {"poll", "select"}
    PROVE  EscapeInv'
  <1>1. /\ queue[c] \in Seq(Requests) /\ queue[c] # <<>>
        /\ Head(queue[c]) = queue[c][1] /\ 1 \in 1 .. Len(queue[c])
    BY DEF TypeOK, Pull
  <1>2. place[Head(queue[c])] = "queued"
    BY <1>1 DEF RequestInOnePlace, QueuedOnce
  <1>3. \A r \in Requests : place[r] = "done" => place'[r] = "done"
    BY <1>2 DEF Pull, TypeOK
  <1> QED
    BY <1>3, QuietWatchdog
       DEF Pull, EscapeInv, SlotIsCurrent, Dispatched, watchdogVars

\* EscapeInv is inductive relative to TypeOK and RequestInOnePlace.
LEMMA StepEscapes ==
    TypeOK /\ RequestInOnePlace /\ EscapeInv /\ [Next]_vars => EscapeInv'
  <1> SUFFICES ASSUME TypeOK, RequestInOnePlace, EscapeInv, [Next]_vars
               PROVE  EscapeInv'
    OBVIOUS
  <1> USE DEF callerVars, dispatcherVars, watchdogVars
  <1>1. CASE \E r \in Requests, c \in Priorities : Admit(r, c)
    <2> PICK r \in Requests, c \in Priorities : Admit(r, c)
      BY <1>1
    <2>1. \A q \in Requests : place[q] = "done" => place'[q] = "done"
      BY DEF Admit, Send, TrySend, Enqueue, Answer, TypeOK
    <2> QED
      BY <2>1, QuietKeepsEscapes DEF Admit
  <1>2. CASE \E r \in Requests : Unblock(r)
    <2> PICK r \in Requests : Unblock(r)
      BY <1>2
    <2>1. \A q \in Requests : place[q] = "done" => place'[q] = "done"
      BY DEF Unblock, Enqueue, Answer, TypeOK
    <2> QED
      BY <2>1, QuietKeepsEscapes DEF Unblock
  <1>3. CASE \E r \in Requests : TripToken(r)
    BY <1>3, QuietKeepsEscapes DEF TripToken
  <1>4. CASE DropScheduler
    BY <1>4, QuietKeepsEscapes DEF DropScheduler
  <1>5. CASE \E c \in Priorities : TryRecv(c)
    <2> PICK c \in Priorities : TryRecv(c)
      BY <1>5
    <2>1. CASE Pull(c)
      BY <2>1, PullKeepsEscapes DEF TryRecv
    <2>2. CASE ~Pull(c)
      BY <2>2, QuietKeepsEscapes DEF TryRecv
    <2> QED
      BY <2>1, <2>2
  <1>6. CASE Select
    <2>1. CASE \E c \in Priorities : Pull(c)
      BY <1>6, <2>1, PullKeepsEscapes DEF Select
    <2>2. CASE ~\E c \in Priorities : Pull(c)
      BY <1>6, <2>2, QuietKeepsEscapes DEF Select, DropChannels
    <2> QED
      BY <2>1, <2>2
  <1>7. CASE Start
    <2>1. CASE current \in tripped
      <3>1. \A r \in Requests : place[r] = "done" => place'[r] = "done"
        BY <1>7, <2>1 DEF Start, Answer, TypeOK
      <3> QED
        BY <1>7, <2>1, <3>1, QuietWatchdog
           DEF Start, BackToPolling, EscapeInv, SlotIsCurrent, Dispatched
    <2>2. CASE current \notin tripped
      BY <1>7, <2>2, QuietWatchdog
         DEF Start, EscapeInv, SlotIsCurrent, Dispatched
    <2> QED
      BY <2>1, <2>2
  <1>8. CASE \E o \in Outcomes : Finish(o)
    <2>1. /\ \A r \in Requests : place[r] = "done" => place'[r] = "done"
          /\ current \in Requests => place'[current] = "done"
      BY <1>8 DEF Finish, Answer, TypeOK
    <2>2. SlotIsCurrent'
      BY <1>8 DEF Finish, BackToPolling, SlotIsCurrent
    <2> QED
      BY <1>8, <2>1, <2>2, QuietWatchdog DEF Finish, Dispatched
  <1>9. CASE Panic
    <2>1. /\ \A r \in Requests : place[r] = "done" => place'[r] = "done"
          /\ current \in Requests => place'[current] = "done"
      BY <1>9 DEF Panic, DropChannels, TypeOK
    <2>2. SlotIsCurrent'
      BY <1>9, <2>1 DEF Panic, SlotIsCurrent, EscapeInv, TypeOK
    <2> QED
      BY <1>9, <2>1, <2>2, QuietWatchdog DEF Panic, Dispatched
  <1>10. CASE \E r \in Requests : Elapse(r)
    BY <1>10, QuietKeepsEscapes DEF Elapse
  <1>11. CASE Tick
    <2>1. CASE pc = "exited"
      <3>1. \A r \in Requests : place[r] = "done" => place'[r] = "done"
        BY <1>11, <2>1 DEF Tick, DropChannels
      <3>2. /\ watch.pc = "sleep" /\ watch.info = NoRequest
            /\ watch'.pc = "exited" /\ watch'.info = watch.info /\ watch'.last = watch.last
        BY <1>11, <2>1 DEF Tick, TypeOK, EscapeInv
      <3>3. UNCHANGED <<pc, current, inflight, escapes>>
        BY <1>11, <2>1 DEF Tick
      <3> QED
        BY <2>1, <3>1, <3>2, <3>3 DEF TypeOK, EscapeInv, SlotIsCurrent, Dispatched
    <2>2. CASE pc # "exited"
      <3>1. /\ watch.info = NoRequest
            /\ watch'.info = inflight /\ watch'.last = watch.last
            /\ watch'.pc = IF inflight = NoRequest THEN "sleep" ELSE "snapped"
            /\ UNCHANGED <<pc, current, inflight, escapes, place>>
        BY <1>11, <2>2 DEF Tick, TypeOK, EscapeInv
      <3>2. inflight # NoRequest => pc = "running" /\ inflight = current
        BY <2>2 DEF EscapeInv, SlotIsCurrent, TypeOK
      <3>3. \A r \in Requests : pc = "running" /\ place[r] = "done" => r # current
        BY DEF RequestInOnePlace, TakenIsCurrent
      <3> QED
        BY <3>1, <3>2, <3>3 DEF TypeOK, EscapeInv, SlotIsCurrent, Dispatched
    <2> QED
      BY <2>1, <2>2
  <1>12. CASE Decide
    <2>1. /\ watch'.last = watch.last
          /\ UNCHANGED <<pc, current, inflight, escapes, place>>
          /\ \/ /\ watch.info # watch.last
                /\ watch.pc = "snapped" /\ watch'.pc = "fire" /\ watch'.info = watch.info
             \/ watch'.pc = "sleep" /\ watch'.info = NoRequest
      BY <1>12 DEF Decide, MustEscape, TypeOK
    <2> QED
      BY <2>1, NoReqAssumption DEF EscapeInv, SlotIsCurrent, Dispatched
  <1>13. CASE Fire
    <2>1. /\ watch.pc = "fire" /\ watch.info \in Requests
          /\ escapes[watch.info] = 0
      BY <1>13 DEF Fire, EscapeInv, TypeOK
    <2>2. \A r \in Requests :
             escapes'[r] = IF r = watch.info THEN 1 ELSE escapes[r]
      BY <1>13, <2>1 DEF Fire, TypeOK
    <2>3. /\ watch'.pc = "sleep" /\ watch'.info = NoRequest /\ watch'.last = watch.info
          /\ UNCHANGED <<pc, current, inflight, place>>
      BY <1>13 DEF Fire
    <2> QED
      BY <2>1, <2>2, <2>3, NoReqAssumption DEF EscapeInv, SlotIsCurrent, Dispatched
  <1>14. CASE UNCHANGED vars
    BY <1>14, QuietKeepsEscapes DEF vars
  <1> QED
    BY <1>1, <1>2, <1>3, <1>4, <1>5, <1>6, <1>7, <1>8, <1>9, <1>10, <1>11,
       <1>12, <1>13, <1>14
       DEF Next, Dispatch, Watchdog

\* No run gets a second hard escape from hard_escape_loop, and nothing that was
\* not dispatched gets one, however stale the watchdog's snapshot is.
THEOREM EscapedOnce == Spec => []OneEscapePerRun
  <1>1. Init => EscapeInv
    BY NoReqAssumption DEF Init, EscapeInv, SlotIsCurrent, Dispatched
  <1>2. TypeOK /\ RequestInOnePlace /\ EscapeInv => OneEscapePerRun
    BY DEF EscapeInv, Dispatched, OneEscapePerRun, RequestInOnePlace, TakenIsCurrent
  <1> QED
    BY <1>1, <1>2, TypeCorrect, NothingLost, StepEscapes, PTL DEF Spec

-----------------------------------------------------------------------------
(* Priority inversion is bounded by one pull. *)

\* A request that has been passed once and still waits will be polled before
\* anything of a lower class: the drain has not gone beyond its class.
PollInv ==
    \A r \in Requests :
        /\ overtaken[r] <= 1
        /\ place[r] \in {"idle", "blocked"} => overtaken[r] = 0
        /\ place[r] = "queued" /\ overtaken[r] = 1 =>
              /\ pc # "select"
              /\ pc = "poll" => polled <= Rank[class[r]]

\* A step of a caller, of the watchdog or of a run that has begun: nobody is
\* passed, and a request that becomes queued was idle or blocked.
LEMMA NobodyPassed ==
    ASSUME TypeOK, PollInv, UNCHANGED overtaken,
           \A r \in Requests : place'[r] \in {"idle", "blocked"}
                                  => place[r] \in {"idle", "blocked"},
           \A r \in Requests : place'[r] = "queued" =>
              \/ place[r] \in {"idle", "blocked"}
              \/ place[r] = "queued" /\ class'[r] = class[r],
           \/ UNCHANGED <<pc, polled>>
           \/ pc' \in {"pulled", "running", "exited"}
           \/ pc' = "poll" /\ polled' = 1 /\ class' \in [Requests -> Priorities]
    PROVE  PollInv'
  <1> SUFFICES ASSUME NEW r \in Requests
               PROVE  /\ overtaken[r] <= 1
                      /\ place'[r] \in {"idle", "blocked"} => overtaken[r] = 0
                      /\ place'[r] = "queued" /\ overtaken[r] = 1 =>
                            /\ pc' # "select"
                            /\ pc' = "poll" => polled' <= Rank[class'[r]]
    BY DEF PollInv
  <1>1. CASE place'[r] = "queued" /\ overtaken[r] = 1
    <2>0. place[r] \notin {"idle", "blocked"}
      BY <1>1 DEF PollInv
    <2>1. place[r] = "queued" /\ class'[r] = class[r] /\ class[r] \in Priorities
      BY <1>1, <2>0 DEF TypeOK
    <2>2. 1 <= Rank[class[r]]
      BY <2>1, RankInRange
    <2> QED
      BY <1>1, <2>1, <2>2 DEF PollInv
  <1> QED
    BY <1>1 DEF PollInv

\* A pull passes those that wait in a higher class, and none of them has been
\* passed before.
LEMMA PullPassesOnce ==
    ASSUME TypeOK, PollInv, NEW c \in Priorities, Pull(c),
           pc = "select" \/ (pc = "poll" /\ Rank[c] = polled)
    PROVE  PollInv'
  <1>1. Head(queue[c]) \in Requests
    BY PullKeepsChannels
  <1>2. ASSUME NEW r \in Requests
        PROVE  /\ overtaken'[r] = overtaken[r] + (IF r \in Passed(c) THEN 1 ELSE 0)
               /\ place'[r] = IF r = Head(queue[c]) THEN "taken" ELSE place[r]
               /\ pc' = "pulled"
    BY <1>1 DEF Pull, TypeOK
  <1>3. ASSUME NEW r \in Requests, r \in Passed(c)
        PROVE  overtaken[r] = 0 /\ place[r] = "queued"
    <2>1. place[r] = "queued" /\ Rank[class[r]] < Rank[c] /\ class[r] \in Priorities
      BY <1>3 DEF Passed, Outranks, TypeOK
    <2>2. Rank[class[r]] \in 1 .. 4 /\ Rank[c] \in 1 .. 4
      BY <2>1, RankInRange
    <2>3. overtaken[r] \in Nat /\ overtaken[r] <= 1 /\ overtaken[r] # 1
      BY <2>1, <2>2 DEF PollInv, TypeOK
    <2> QED
      BY <2>1, <2>3
  <1> SUFFICES ASSUME NEW r \in Requests
               PROVE  /\ overtaken'[r] <= 1
                      /\ place'[r] \in {"idle", "blocked"} => overtaken'[r] = 0
    BY <1>2 DEF PollInv
  <1>4. overtaken[r] \in Nat /\ overtaken[r] <= 1
    BY DEF PollInv, TypeOK
  <1>5. place[r] \in {"idle", "blocked"} => overtaken[r] = 0
    BY DEF PollInv
  <1> QED
    BY <1>2, <1>3, <1>4, <1>5

\* PollInv is inductive relative to TypeOK and RequestInOnePlace.
LEMMA StepPoll ==
    TypeOK /\ RequestInOnePlace /\ PollInv /\ [Next]_vars => PollInv'
  <1> SUFFICES ASSUME TypeOK, RequestInOnePlace, PollInv, [Next]_vars
               PROVE  PollInv'
    OBVIOUS
  <1> USE DEF callerVars, dispatcherVars, watchdogVars
  <1>1. CASE \E r \in Requests, c \in Priorities : Admit(r, c)
    <2> PICK r \in Requests, c \in Priorities : Admit(r, c)
      BY <1>1
    <2>1. \A q \in Requests :
            /\ place'[q] = place[q] \/ (q = r /\ place[q] = "idle")
            /\ q # r => class'[q] = class[q]
      BY DEF Admit, Send, TrySend, Enqueue, Answer, TypeOK
    <2> QED
      BY <2>1, NobodyPassed DEF Admit
  <1>2. CASE \E r \in Requests : Unblock(r)
    <2> PICK r \in Requests : Unblock(r)
      BY <1>2
    <2>1. \A q \in Requests : place'[q] = place[q] \/ (q = r /\ place[q] = "blocked")
      BY DEF Unblock, Enqueue, Answer, TypeOK
    <2> QED
      BY <2>1, NobodyPassed DEF Unblock
  <1>3. CASE \E r \in Requests : TripToken(r)
    BY <1>3, NobodyPassed DEF TripToken
  <1>4. CASE DropScheduler
    BY <1>4, NobodyPassed DEF DropScheduler
  <1>5. CASE \E c \in Priorities : TryRecv(c)
    <2> PICK c \in Priorities : TryRecv(c)
      BY <1>5
    <2>1. CASE Pull(c)
      BY <2>1, PullPassesOnce DEF TryRecv
    <2>2. CASE ~Pull(c)
      <3>1. /\ pc = "poll" /\ polled = Rank[c] /\ queue[c] = <<>>
            /\ UNCHANGED <<class, place, overtaken>>
            /\ \/ c = "Batch" /\ pc' = "select"
               \/ c # "Batch" /\ pc' = "poll" /\ polled' = polled + 1
        BY <2>2 DEF TryRecv
      <3>2. ASSUME NEW r \in Requests, place[r] = "queued", overtaken[r] = 1
            PROVE  Rank[c] < Rank[class[r]]
        <4>1. class[r] # c /\ class[r] \in Priorities
          BY <3>1, <3>2 DEF RequestInOnePlace, QueuedOnce, TypeOK
        <4>2. Rank[c] <= Rank[class[r]]
          BY <3>1, <3>2 DEF PollInv
        <4> QED
          BY <4>1, <4>2 DEF Rank, Priorities
      <3>3. Rank[c] \in 1 .. 4 /\ \A r \in Requests : Rank[class[r]] \in 1 .. 4
        BY RankInRange DEF TypeOK
      <3>4. c = "Batch" => Rank[c] = 4
        BY DEF Rank
      <3> QED
        BY <3>1, <3>2, <3>3, <3>4 DEF PollInv
    <2> QED
      BY <2>1, <2>2
  <1>6. CASE Select
    <2>1. CASE \E c \in Priorities : Pull(c)
      BY <1>6, <2>1, PullPassesOnce DEF Select
    <2>2. CASE ~\E c \in Priorities : Pull(c)
      BY <1>6, <2>2, NobodyPassed DEF Select, DropChannels, TypeOK
    <2> QED
      BY <2>1, <2>2
  <1>7. CASE Start
    <2>1. CASE current \in tripped
      <3>1. \A r \in Requests : place'[r] \in {place[r], "done"}
        BY <1>7, <2>1 DEF Start, Answer, TypeOK
      <3> QED
        BY <1>7, <2>1, <3>1, NobodyPassed DEF Start, BackToPolling, TypeOK
    <2>2. CASE current \notin tripped
      BY <1>7, <2>2, NobodyPassed DEF Start
    <2> QED
      BY <2>1, <2>2
  <1>8. CASE \E o \in Outcomes : Finish(o)
    <2>1. \A r \in Requests : place'[r] \in {place[r], "done"}
      BY <1>8 DEF Finish, Answer, TypeOK
    <2> QED
      BY <1>8, <2>1, NobodyPassed DEF Finish, BackToPolling, TypeOK
  <1>9. CASE Panic
    BY <1>9, NobodyPassed DEF Panic, DropChannels, TypeOK
  <1>10. CASE \E r \in Requests : Elapse(r)
    BY <1>10, NobodyPassed DEF Elapse
  <1>11. CASE Tick
    <2>1. \A r \in Requests : place'[r] \in {place[r], "done"}
      BY <1>11 DEF Tick, DropChannels, TypeOK
    <2> QED
      BY <1>11, <2>1, NobodyPassed DEF Tick
  <1>12. CASE Decide
    BY <1>12, NobodyPassed DEF Decide
  <1>13. CASE Fire
    BY <1>13, NobodyPassed DEF Fire
  <1>14. CASE UNCHANGED vars
    BY <1>14, NobodyPassed DEF vars
  <1> QED
    BY <1>1, <1>2, <1>3, <1>4, <1>5, <1>6, <1>7, <1>8, <1>9, <1>10, <1>11,
       <1>12, <1>13, <1>14
       DEF Next, Dispatch, Watchdog

\* The strengthening is an invariant.
LEMMA PollKept == Spec => []PollInv
  <1>1. Init => PollInv
    <2> SUFFICES ASSUME Init, NEW r \in Requests
                 PROVE  /\ overtaken[r] <= 1 /\ overtaken[r] = 0
                        /\ place[r] = "idle"
      BY DEF PollInv
    <2> QED
      BY DEF Init
  <1> QED
    BY <1>1, TypeCorrect, NothingLost, StepPoll, PTL DEF Spec

\* While a request is queued, at most one run of a lower class is pulled ahead
\* of it, whatever arrives behind the drain and whatever select! picks.
THEOREM InversionIsBounded == Spec => []OvertakenAtMostOnce
  <1>1. PollInv => OvertakenAtMostOnce
    BY DEF PollInv, OvertakenAtMostOnce
  <1> QED
    BY <1>1, PollKept, PTL
=============================================================================
