---------------------------- MODULE AgentProofs -----------------------------
(***************************************************************************)
(* Proofs about the agent daemon, for any sessions, prompts, stops, calls  *)
(* and approvals: types, the index of the sessions, the consent store, and *)
(* the stream of a session's transcript to any number of tails.            *)
(***************************************************************************)
EXTENDS AgentDaemon, AgentTail, SequenceTheorems, TLAPS

-----------------------------------------------------------------------------
(* The child's mutex.  A type proof needs it: the line after a reply       *)
(* releases the queue, which must not be empty then.                       *)

\* t is queued for the mutex of its session, or holds it.
Waits(t) ==
    \/ t \in Prompts /\ prompt[t] \in {"queued", "sent"}
    \/ t \in Calls /\ call[t] = "queued"
    \/ t \in Stops /\ stop[t] = "queued"

\* Only tasks that wait are queued, each at its session and once; a prompt
\* whose request was sent holds the mutex.
MutexInv ==
    /\ \A s \in Sessions : \A i \in 1 .. Len(child[s]) :
          Waits(child[s][i]) /\ home[child[s][i]] = s
    /\ \A s \in Sessions : \A i, j \in 1 .. Len(child[s]) :
          child[s][i] = child[s][j] => i = j
    /\ \A p \in Prompts : prompt[p] = "sent" => Holds(home[p], p)

\* A task that waits, or will, has a session.
HomeInv ==
    /\ \A p \in Prompts : prompt[p] # "no" => home[p] \in Sessions
    /\ \A k \in Stops : stop[k] \in {"queued", "cancelled"} => home[k] \in Sessions
    /\ \A s \in Sessions : loop[s] \in Calls =>
          home[loop[s]] = s /\ call[loop[s]] \notin {"no", "asked"}

\* A call that the reader queued is queued once, at its session, and has not
\* been taken.
InboundInv ==
    /\ \A s \in Sessions : \A i \in 1 .. Len(inbound[s]) : inbound[s][i] \in Calls =>
          call[inbound[s][i]] = "asked" /\ home[inbound[s][i]] = s
    /\ \A s \in Sessions : \A i, j \in 1 .. Len(inbound[s]) :
          inbound[s][i] \in Calls /\ inbound[s][i] = inbound[s][j] => i = j

\* What the daemon decided on a call agrees with what its token delivered, and
\* a token in the store is of a call that is parked and not yet decided.
CallInv(c) ==
    /\ call[c] \in {"no", "asked", "notified", "parked"} => decision[c] = None
    /\ c \in store => call[c] = "parked" /\ waker[c] = None /\ <<c, "parked">> \in audit
    /\ waker[c] # None =>
          /\ call[c] \in {"parked", "decided", "queued", "answered"}
          /\ call[c] # "parked" =>
                decision[c] = IF waker[c] = "allow" THEN "allow" ELSE "deny"
          /\ <<c, "parked">> \in audit

\* A token that an approval did not see alive will not be alive again.
ApproveInv(a) ==
    /\ approve[a].at # "no" =>
          approve[a].token \in Calls /\ call[approve[a].token] \notin {"no", "asked"}
    /\ approve[a].at \in {"no", "looked"} => ~approve[a].ok
    /\ approve[a].at = "looked" /\ ~approve[a].seen =>
          approve[a].token \notin store \ expired
    /\ approve[a].ok => waker[approve[a].token] = "allow" /\ approve[a].seen
    /\ approve[a].ok /\ approve[a].at = "done" => <<approve[a].token, "approved">> \in audit
    /\ \A b \in Approvals : approve[a].ok /\ approve[b].ok /\
          approve[a].token = approve[b].token => a = b

\* A task joins the queue.
LEMMA EnqueueKeepsMutex ==
    ASSUME TypeOK, MutexInv, NEW s \in Sessions, NEW t \in Tasks, Enqueue(s, t),
           ~Waits(t), Waits(t)', home'[t] = s,
           \A u \in Tasks : Waits(u) => Waits(u)' /\ home'[u] = home[u],
           \A p \in Prompts : prompt'[p] = "sent" => prompt[p] = "sent"
    PROVE  MutexInv'
  <1>1. /\ child[s] \in Seq(Tasks) /\ child'[s] = Append(child[s], t)
        /\ \A q \in Sessions : q # s => child'[q] = child[q]
        /\ \A q \in Sessions : child[q] \in Seq(Tasks)
    BY DEF Enqueue, TypeOK
  <1>2. \A i \in 1 .. Len(child[s]) : child[s][i] # t
    BY DEF MutexInv
  <1>3. ASSUME NEW q \in Sessions, NEW i \in 1 .. Len(child'[q]), NEW u, u = child'[q][i]
        PROVE  Waits(u)' /\ home'[u] = q
    <2>1. CASE q = s /\ i = Len(child[s]) + 1
      <3>1. u = t
        BY <1>1, <1>3, <2>1
      <3> QED
        BY <2>1, <3>1
    <2>2. CASE i \in 1 .. Len(child[q])
      <3>1. u = child[q][i] /\ u \in Tasks
        BY <1>1, <1>3, <2>2
      <3>2. Waits(u) /\ home[u] = q
        BY <2>2, <3>1 DEF MutexInv
      <3> QED
        BY <3>1, <3>2
    <2> QED
      BY <1>1, <2>1, <2>2
  <1>4. ASSUME NEW q \in Sessions, NEW i \in 1 .. Len(child'[q]),
               NEW j \in 1 .. Len(child'[q]), child'[q][i] = child'[q][j]
        PROVE  i = j
    <2>1. CASE q = s
      <3>1. /\ i \in 1 .. Len(child[s]) + 1 /\ j \in 1 .. Len(child[s]) + 1
            /\ Append(child[s], t)[i] = Append(child[s], t)[j]
            /\ Len(child[s]) \in Nat
        BY <1>1, <1>4, <2>1
      <3>2. CASE i \in 1 .. Len(child[s]) /\ j \in 1 .. Len(child[s])
        <4>1. child[s][i] = child[s][j]
          BY <1>1, <3>1, <3>2
        <4> QED
          BY <3>2, <4>1 DEF MutexInv
      <3> QED
        BY <1>1, <1>2, <3>1, <3>2
    <2>2. CASE q # s
      BY <1>1, <1>4, <2>2 DEF MutexInv
    <2> QED
      BY <2>1, <2>2
  <1>5. ASSUME NEW p \in Prompts, prompt'[p] = "sent" PROVE Holds(home[p], p)'
    <2>1. prompt[p] = "sent" /\ Waits(p) /\ p \in Tasks /\ Holds(home[p], p)
      BY <1>5 DEF Waits, Tasks, MutexInv
    <2>2. home'[p] = home[p] /\ p # t
      BY <2>1
    <2>3. CASE home[p] = s
      <3>1. child[s] # <<>> /\ Head(child[s]) = p
        BY <2>1, <2>3 DEF Holds
      <3>2. child'[s] # <<>> /\ Head(child'[s]) = p
        BY <1>1, <3>1
      <3> QED
        BY <2>2, <2>3, <3>2 DEF Holds
    <2>4. CASE home[p] # s
      <3>1. child'[home[p]] = child[home[p]]
        BY <1>1, <2>4 DEF Enqueue, TypeOK
      <3> QED
        BY <2>1, <2>2, <3>1 DEF Holds
    <2> QED
      BY <2>3, <2>4
  <1> QED
    BY <1>3, <1>4, <1>5 DEF MutexInv

\* The holder leaves the queue.
LEMMA ReleaseKeepsMutex ==
    ASSUME TypeOK, MutexInv, NEW s \in Sessions, NEW t \in Tasks, Holds(s, t),
           Release(s), UNCHANGED home,
           \A u \in Tasks : u # t /\ Waits(u) => Waits(u)',
           \A p \in Prompts : prompt'[p] = "sent" => p # t /\ prompt[p] = "sent"
    PROVE  MutexInv'
  <1>1. /\ child[s] \in Seq(Tasks) /\ child[s] # <<>> /\ Head(child[s]) = t
        /\ child'[s] = Tail(child[s])
        /\ \A q \in Sessions : q # s => child'[q] = child[q]
        /\ \A q \in Sessions : child[q] \in Seq(Tasks)
    BY DEF Release, Holds, TypeOK
  <1>2. /\ Len(child[s]) \in Nat /\ Len(child'[s]) = Len(child[s]) - 1
        /\ \A i \in 1 .. Len(child'[s]) : child'[s][i] = child[s][i + 1]
        /\ child[s][1] = t
    BY <1>1
  <1>3. ASSUME NEW q \in Sessions, NEW i \in 1 .. Len(child'[q]), NEW u, u = child'[q][i]
        PROVE  Waits(u)' /\ home'[u] = q
    <2>1. CASE q = s
      <3>1. i \in 1 .. Len(child'[s]) /\ u = child'[s][i]
        BY <1>3, <2>1
      <3>2. /\ i + 1 \in 1 .. Len(child[s]) /\ 1 \in 1 .. Len(child[s]) /\ i + 1 # 1
            /\ u = child[s][i + 1]
        BY <1>2, <3>1
      <3>3. u \in Tasks /\ u # t /\ Waits(u) /\ home[u] = s
        BY <1>1, <1>2, <3>2 DEF MutexInv
      <3> QED
        BY <2>1, <3>3
    <2>2. CASE q # s
      <3>1. u = child[q][i] /\ i \in 1 .. Len(child[q]) /\ u \in Tasks
        BY <1>1, <1>3, <2>2
      <3>2. Waits(u) /\ home[u] = q
        BY <3>1 DEF MutexInv
      <3>3. home[t] = s
        BY <1>1, <1>2 DEF MutexInv
      <3> QED
        BY <2>2, <3>1, <3>2, <3>3
    <2> QED
      BY <2>1, <2>2
  <1>4. ASSUME NEW q \in Sessions, NEW i \in 1 .. Len(child'[q]),
               NEW j \in 1 .. Len(child'[q]), child'[q][i] = child'[q][j]
        PROVE  i = j
    <2>1. CASE q = s
      <3>1. /\ i + 1 \in 1 .. Len(child[s]) /\ j + 1 \in 1 .. Len(child[s])
            /\ child[s][i + 1] = child[s][j + 1]
        <4>1. /\ i \in 1 .. Len(child'[s]) /\ j \in 1 .. Len(child'[s])
              /\ child'[s][i] = child'[s][j]
          BY <1>4, <2>1
        <4> QED
          BY <1>2, <4>1
      <3>2. i + 1 = j + 1
        BY <3>1 DEF MutexInv
      <3> QED
        BY <3>2
    <2>2. CASE q # s
      BY <1>1, <1>4, <2>2 DEF MutexInv
    <2> QED
      BY <2>1, <2>2
  <1>5. ASSUME NEW p \in Prompts, prompt'[p] = "sent" PROVE Holds(home[p], p)'
    <2>1. p # t /\ Holds(home[p], p)
      BY <1>5 DEF MutexInv
    <2>2. home[p] # s
      BY <1>1, <2>1 DEF Holds
    <2>3. child'[home[p]] = child[home[p]]
      BY <2>2 DEF Release, TypeOK
    <2> QED
      BY <2>1, <2>3 DEF Holds
  <1> QED
    BY <1>3, <1>4, <1>5 DEF MutexInv

\* A step that leaves the queues alone.
LEMMA QuietMutex ==
    ASSUME TypeOK, MutexInv, UNCHANGED child,
           \A u \in Tasks : Waits(u) => Waits(u)' /\ home'[u] = home[u],
           \A p \in Prompts : prompt'[p] = "sent" =>
              prompt[p] = "sent" \/ (prompt[p] = "queued" /\ Holds(home[p], p))
    PROVE  MutexInv'
  <1>1. ASSUME NEW q \in Sessions, NEW i \in 1 .. Len(child'[q]), NEW u, u = child'[q][i]
        PROVE  Waits(u)' /\ home'[u] = q
    <2>1. u \in Tasks /\ Waits(u) /\ home[u] = q
      BY <1>1 DEF MutexInv, TypeOK
    <2> QED
      BY <2>1
  <1>2. ASSUME NEW p \in Prompts, prompt'[p] = "sent" PROVE Holds(home[p], p)'
    <2>1. Waits(p) /\ Holds(home[p], p) /\ p \in Tasks
      BY <1>2 DEF MutexInv, Waits, Tasks
    <2>2. home'[p] = home[p]
      BY <2>1
    <2> QED
      BY <2>1, <2>2 DEF Holds
  <1> QED
    BY <1>1, <1>2 DEF MutexInv

-----------------------------------------------------------------------------
(* The queue from the reader task to the inbound loop. *)

\* A step that leaves the queues alone.
LEMMA QuietInbound ==
    ASSUME TypeOK, InboundInv, UNCHANGED inbound,
           \A c \in Calls : call[c] = "asked" => call'[c] = "asked" /\ home'[c] = home[c]
    PROVE  InboundInv'
  BY DEF InboundInv

\* The loop takes the first message.
LEMMA TakesKeepsInbound ==
    ASSUME TypeOK, InboundInv, NEW s \in Sessions, NEW m, Takes(s, m), UNCHANGED home,
           \A c \in Calls : c # m /\ call[c] = "asked" => call'[c] = "asked"
    PROVE  /\ InboundInv'
           /\ m \in Calls => call[m] = "asked" /\ home[m] = s
  <1>1. /\ inbound[s] \in Seq(Calls \union {"closed"}) /\ inbound[s] # <<>>
        /\ Head(inbound[s]) = m /\ inbound'[s] = Tail(inbound[s])
        /\ \A q \in Sessions : q # s => inbound'[q] = inbound[q]
    BY DEF Takes, TypeOK
  <1>2. /\ Len(inbound[s]) \in Nat /\ Len(inbound'[s]) = Len(inbound[s]) - 1
        /\ \A i \in 1 .. Len(inbound'[s]) : inbound'[s][i] = inbound[s][i + 1]
        /\ inbound[s][1] = m /\ 1 \in 1 .. Len(inbound[s])
    BY <1>1
  <1>3. m \in Calls => call[m] = "asked" /\ home[m] = s
    BY <1>2 DEF InboundInv
  <1>4. ASSUME NEW q \in Sessions, NEW i \in 1 .. Len(inbound'[q]), NEW c \in Calls,
               c = inbound'[q][i]
        PROVE  call'[c] = "asked" /\ home'[c] = q
    <2>1. CASE q = s
      <3>1. i + 1 \in 1 .. Len(inbound[s]) /\ i + 1 # 1 /\ c = inbound[s][i + 1]
        <4>1. i \in 1 .. Len(inbound'[s]) /\ c = inbound'[s][i]
          BY <1>4, <2>1
        <4> QED
          BY <1>2, <4>1
      <3>2. c # m /\ call[c] = "asked" /\ home[c] = s
        BY <1>2, <3>1 DEF InboundInv
      <3> QED
        BY <2>1, <3>2
    <2>2. CASE q # s
      <3>1. call[c] = "asked" /\ home[c] = q
        BY <1>1, <1>4, <2>2 DEF InboundInv
      <3> QED
        BY <1>3, <2>2, <3>1
    <2> QED
      BY <2>1, <2>2
  <1>5. ASSUME NEW q \in Sessions, NEW i \in 1 .. Len(inbound'[q]),
               NEW j \in 1 .. Len(inbound'[q]), inbound'[q][i] \in Calls,
               inbound'[q][i] = inbound'[q][j]
        PROVE  i = j
    <2>1. CASE q = s
      <3>1. /\ i \in 1 .. Len(inbound'[s]) /\ j \in 1 .. Len(inbound'[s])
            /\ inbound'[s][i] = inbound'[s][j] /\ inbound'[s][i] \in Calls
        BY <1>5, <2>1
      <3>2. /\ i + 1 \in 1 .. Len(inbound[s]) /\ j + 1 \in 1 .. Len(inbound[s])
            /\ inbound[s][i + 1] = inbound[s][j + 1] /\ inbound[s][i + 1] \in Calls
        BY <1>2, <3>1
      <3>3. i + 1 = j + 1
        BY <3>2 DEF InboundInv
      <3> QED
        BY <3>3
    <2>2. CASE q # s
      BY <1>1, <1>5, <2>2 DEF InboundInv
    <2> QED
      BY <2>1, <2>2
  <1> QED
    BY <1>3, <1>4, <1>5 DEF InboundInv

\* The reader queues a call that was not asked before, or the end.
LEMMA ReaderKeepsInbound ==
    ASSUME TypeOK, InboundInv, NEW s \in Sessions, NEW m \in Calls \union {"closed"},
           inbound' = [inbound EXCEPT ![s] = Append(@, m)],
           m \in Calls => call[m] = "no" /\ call'[m] = "asked" /\ home'[m] = s,
           \A c \in Calls : call[c] = "asked" => call'[c] = "asked" /\ home'[c] = home[c]
    PROVE  InboundInv'
  <1>1. /\ inbound[s] \in Seq(Calls \union {"closed"})
        /\ inbound'[s] = Append(inbound[s], m) /\ Len(inbound[s]) \in Nat
        /\ \A q \in Sessions : q # s => inbound'[q] = inbound[q]
    BY DEF TypeOK
  <1>2. m \in Calls => \A i \in 1 .. Len(inbound[s]) : inbound[s][i] # m
    BY DEF InboundInv
  <1>3. ASSUME NEW q \in Sessions, NEW i \in 1 .. Len(inbound'[q]), NEW c \in Calls,
               c = inbound'[q][i]
        PROVE  call'[c] = "asked" /\ home'[c] = q
    <2>1. CASE q = s /\ i = Len(inbound[s]) + 1
      <3>1. c = m
        BY <1>1, <1>3, <2>1
      <3> QED
        BY <2>1, <3>1
    <2>2. CASE i \in 1 .. Len(inbound[q])
      <3>1. c = inbound[q][i]
        BY <1>1, <1>3, <2>2
      <3>2. call[c] = "asked" /\ home[c] = q
        BY <2>2, <3>1 DEF InboundInv
      <3> QED
        BY <3>2
    <2> QED
      BY <1>1, <2>1, <2>2
  <1>4. ASSUME NEW q \in Sessions, NEW i \in 1 .. Len(inbound'[q]),
               NEW j \in 1 .. Len(inbound'[q]), inbound'[q][i] \in Calls,
               inbound'[q][i] = inbound'[q][j]
        PROVE  i = j
    <2>1. CASE q = s
      <3>1. /\ i \in 1 .. Len(inbound[s]) + 1 /\ j \in 1 .. Len(inbound[s]) + 1
            /\ Append(inbound[s], m)[i] = Append(inbound[s], m)[j]
            /\ Append(inbound[s], m)[i] \in Calls
        BY <1>1, <1>4, <2>1
      <3>2. CASE i \in 1 .. Len(inbound[s]) /\ j \in 1 .. Len(inbound[s])
        <4>1. inbound[s][i] = inbound[s][j] /\ inbound[s][i] \in Calls
          BY <1>1, <3>1, <3>2
        <4> QED
          BY <3>2, <4>1 DEF InboundInv
      <3> QED
        BY <1>1, <1>2, <3>1, <3>2
    <2>2. CASE q # s
      BY <1>1, <1>4, <2>2 DEF InboundInv
    <2> QED
      BY <2>1, <2>2
  <1> QED
    BY <1>3, <1>4 DEF InboundInv

-----------------------------------------------------------------------------
(* Types. *)

\* Every step keeps the types.
LEMMA StepTypeOK ==
    ASSUME TypeOK, MutexInv, HomeInv, \A a \in Approvals : ApproveInv(a),
           [Next]_vars
    PROVE  TypeOK'
  <1> USE DEF TypeOK, sessionVars, childVars, promptVars, callVars, consentVars,
              agentVars
  <1>1. ASSUME NEW s \in Sessions, Spawn(s) PROVE TypeOK'
    BY <1>1 DEF Spawn
  <1>2. ASSUME NEW s \in Sessions, Insert(s) PROVE TypeOK'
    <2>1. CASE run' = [run EXCEPT ![s] = "inserted"] /\ listed' = listed \union {s}
      BY <1>2, <2>1 DEF Insert
    <2>2. CASE run' = [run EXCEPT ![s] = "failed"] /\ UNCHANGED listed
      BY <1>2, <2>2 DEF Insert
    <2> QED
      BY <1>2, <2>1, <2>2 DEF Insert
  <1>3. ASSUME NEW s \in Sessions, IndexStarted(s) PROVE TypeOK'
    BY <1>3 DEF IndexStarted, WriteIndex
  <1>4. ASSUME NEW s \in Sessions, StartTasks(s) PROVE TypeOK'
    BY <1>4 DEF StartTasks, Prompts, Tasks
  <1>5. ASSUME NEW s \in Sessions, LoopEnds(s) PROVE TypeOK'
    BY <1>5 DEF LoopEnds, Takes
  <1>6. ASSUME NEW s \in Sessions, NEW c \in Calls, Refuse(s, c) PROVE TypeOK'
    BY <1>6 DEF Refuse, Takes, Decide
  <1>7. ASSUME NEW s \in Sessions, NEW c \in Calls, ResolvePermission(s, c) PROVE TypeOK'
    <2>1. loop' \in [Sessions -> Calls \union {None, "exited"}]
          /\ inbound' \in [Sessions -> Seq(Calls \union {"closed"})]
      BY <1>7 DEF ResolvePermission, Takes
    <2>2. Ask(c) \/ Decide(c, "deny") \/ Decide(c, "allow") \/
             (call' = [call EXCEPT ![c] = "parked"] /\ UNCHANGED decision)
      BY <1>7 DEF ResolvePermission, Verdict
    <2>3. /\ call' \in [Calls -> {"no", "asked", "notified", "parked", "decided",
                                  "queued", "answered"}]
          /\ decision' \in [Calls -> {None, "allow", "deny", "refuse"}]
      <3>1. CASE Ask(c)
        BY <3>1 DEF Ask
      <3>2. ASSUME NEW d \in {"deny", "allow"}, Decide(c, d)
            PROVE  /\ call' \in [Calls -> {"no", "asked", "notified", "parked", "decided",
                                           "queued", "answered"}]
                   /\ decision' \in [Calls -> {None, "allow", "deny", "refuse"}]
        BY <3>2 DEF Decide
      <3>3. CASE call' = [call EXCEPT ![c] = "parked"] /\ UNCHANGED decision
        BY <3>3
      <3> QED
        BY <2>2, <3>1, <3>2, <3>3
    <2>4. UNCHANGED <<store, waker>> \/ Issue(c)
      BY <1>7 DEF ResolvePermission, Ask
    <2>5. /\ store' \subseteq Calls
          /\ waker' \in [Calls -> {None, "allow", "dropped"}]
      BY <2>4 DEF Issue
    <2>6. \E what \in {"allow", "deny", "consent", "parked"} :
             audit' \in {audit, audit \union {<<c, what>>}}
      BY <1>7 DEF ResolvePermission, Verdict
    <2>7. audit' \subseteq (Calls \X {"allow", "deny", "consent", "parked", "approved"})
      BY <2>6
    <2> QED
      BY <1>7, <2>1, <2>3, <2>5, <2>7 DEF ResolvePermission
  <1>8. ASSUME NEW s \in Sessions, AskReturns(s) PROVE TypeOK'
    BY <1>8 DEF AskReturns, Decide
  <1>9. ASSUME NEW s \in Sessions, ConsentArrives(s) PROVE TypeOK'
    BY <1>9 DEF ConsentArrives, Decide
  <1>10. ASSUME NEW s \in Sessions, LockForAnswer(s) PROVE TypeOK'
    BY <1>10 DEF LockForAnswer, Enqueue, Tasks
  <1>11. ASSUME NEW s \in Sessions, Respond(s) PROVE TypeOK'
    BY <1>11 DEF Respond, SendLine, Release, Holds, Tasks
  <1>12. ASSUME NEW s \in Sessions, WriterFails(s) PROVE TypeOK'
    BY <1>12 DEF WriterFails
  <1>13. ASSUME NEW s \in Sessions, AgentReads(s) PROVE TypeOK'
    <2>1. Head(stdin[s]) \in Tasks /\ stdin' \in [Sessions -> Seq(Tasks)]
      BY <1>13 DEF AgentReads
    <2>2. CASE /\ Head(stdin[s]) \in Prompts
               /\ agent' = [agent EXCEPT ![s] = Head(stdin[s])]
               /\ UNCHANGED <<reply, waiting>>
      BY <1>13, <2>1, <2>2 DEF AgentReads
    <2>3. CASE /\ waiting' = [waiting EXCEPT ![s] = IF @ = Head(stdin[s]) THEN None ELSE @]
               /\ UNCHANGED <<agent, reply>>
      BY <1>13, <2>1, <2>3 DEF AgentReads
    <2>4. CASE /\ reply' = IF agent[s] \in Prompts
                           THEN [reply EXCEPT ![agent[s]] = "ok"] ELSE reply
               /\ agent' = [agent EXCEPT ![s] = "idle"]
               /\ waiting' = [waiting EXCEPT ![s] = None]
      <3>1. reply' \in [Prompts -> {None, "ok", "err"}]
        <4>1. CASE agent[s] \in Prompts
          BY <2>4, <4>1
        <4>2. CASE agent[s] \notin Prompts
          BY <2>4, <4>2
        <4> QED
          BY <4>1, <4>2
      <3> QED
        BY <1>13, <2>1, <2>4, <3>1 DEF AgentReads
    <2> QED
      BY <1>13, <2>2, <2>3, <2>4 DEF AgentReads
  <1>14. ASSUME NEW s \in Sessions, AgentDies(s) PROVE TypeOK'
    BY <1>14 DEF AgentDies
  <1>15. ASSUME NEW s \in Sessions, NEW p \in Extra, SendPrompt(p, s) PROVE TypeOK'
    BY <1>15 DEF SendPrompt, Prompts, Tasks
  <1>16. ASSUME NEW s \in Sessions, NEW k \in Stops, StopCall(k, s) PROVE TypeOK'
    <2>1. k \in Tasks
      BY DEF Tasks
    <2>2. CASE s \in listed
      <3>1. /\ stop' = [stop EXCEPT ![k] = "queued"] /\ home' = [home EXCEPT ![k] = s]
            /\ child' = [child EXCEPT ![s] = Append(@, k)]
        BY <1>16, <2>2 DEF StopCall, Enqueue
      <3> QED
        BY <1>16, <2>1, <3>1 DEF StopCall
    <2>3. CASE s \notin listed
      <3>1. stop' = [stop EXCEPT ![k] = "unknown"] /\ UNCHANGED <<home, child>>
        BY <1>16, <2>3 DEF StopCall
      <3> QED
        BY <1>16, <3>1 DEF StopCall
    <2> QED
      BY <2>2, <2>3
  <1>17. ASSUME NEW s \in Sessions, NEW c \in Calls, AgentAsks(s, c) PROVE TypeOK'
    BY <1>17 DEF AgentAsks, Tasks
  <1>18. ASSUME NEW s \in Sessions, NEW r \in {"ok", "err"}, AgentFinishes(s, r)
         PROVE  TypeOK'
    BY <1>18 DEF AgentFinishes
  <1>19. ASSUME NEW p \in Prompts, LockForPrompt(p) PROVE TypeOK'
    <2>1. p \in Tasks /\ home[p] \in Sessions
      BY <1>19 DEF Tasks, HomeInv, LockForPrompt
    <2>2. child' \in [Sessions -> Seq(Tasks)]
      BY <1>19, <2>1 DEF LockForPrompt, Enqueue
    <2> QED
      BY <1>19, <2>2 DEF LockForPrompt
  <1>20. ASSUME NEW p \in Prompts, Request(p) PROVE TypeOK'
    <2>1. p \in Tasks /\ home[p] \in Sessions
      BY <1>20 DEF Tasks, HomeInv, Request
    <2>2. CASE writer[home[p]]
      <3>1. /\ stdin' = [stdin EXCEPT ![home[p]] = Append(@, p)]
            /\ prompt' = [prompt EXCEPT ![p] = "sent"] /\ UNCHANGED child
        BY <1>20, <2>2 DEF Request, SendLine
      <3> QED
        BY <1>20, <2>1, <3>1 DEF Request
    <2>3. CASE ~writer[home[p]]
      <3>1. /\ child[home[p]] # <<>> /\ child' = [child EXCEPT ![home[p]] = Tail(@)]
            /\ prompt' = [prompt EXCEPT ![p] = "done"] /\ UNCHANGED stdin
        BY <1>20, <2>3 DEF Request, Finish, Release, Holds
      <3> QED
        BY <1>20, <2>1, <3>1 DEF Request
    <2> QED
      BY <2>2, <2>3
  <1>21. ASSUME NEW p \in Prompts, Answered(p) PROVE TypeOK'
    <2>1. home[p] \in Sessions /\ Holds(home[p], p)
      BY <1>21 DEF HomeInv, MutexInv, Answered
    <2>2. child' \in [Sessions -> Seq(Tasks)]
      BY <1>21, <2>1 DEF Answered, Finish, Release, Holds
    <2> QED
      BY <1>21, <2>2 DEF Answered, Finish
  <1>22. ASSUME NEW c \in Calls, Expire(c) PROVE TypeOK'
    BY <1>22 DEF Expire
  <1>23. ASSUME NEW a \in Approvals, DecideToken(a) PROVE TypeOK'
    <2>1. approve[a].token \in Calls \union {None} /\ approve[a].seen \in BOOLEAN
      OBVIOUS
    <2>2. approve' \in [Approvals -> [at: {"no", "looked", "decided", "done"},
                                     token: Calls \union {None},
                                     seen: BOOLEAN, ok: BOOLEAN]]
      BY <1>23, <2>1 DEF DecideToken
    <2>3. waker' \in [Calls -> {None, "allow", "dropped"}] /\ store' \subseteq Calls
      BY <1>23 DEF DecideToken
    <2> QED
      BY <1>23, <2>2, <2>3 DEF DecideToken
  <1>24. ASSUME NEW a \in Approvals, AuditApproval(a) PROVE TypeOK'
    <2>1. /\ approve[a].token \in Calls \union {None} /\ approve[a].seen \in BOOLEAN
          /\ approve[a].ok \in BOOLEAN
      OBVIOUS
    <2>2. approve' \in [Approvals -> [at: {"no", "looked", "decided", "done"},
                                     token: Calls \union {None},
                                     seen: BOOLEAN, ok: BOOLEAN]]
      BY <1>24, <2>1 DEF AuditApproval
    <2>3. approve[a].token \in Calls
      BY <1>24 DEF AuditApproval, ApproveInv
    <2>4. audit' \subseteq (Calls \X {"allow", "deny", "consent", "parked", "approved"})
      BY <1>24, <2>3 DEF AuditApproval
    <2> QED
      BY <1>24, <2>2, <2>4 DEF AuditApproval
  <1>25. ASSUME NEW a \in Approvals, NEW c \in Calls, Snapshot(a, c) PROVE TypeOK'
    BY <1>25 DEF Snapshot
  <1>26. ASSUME NEW k \in Stops, NotifyCancel(k) PROVE TypeOK'
    <2>1. k \in Tasks /\ home[k] \in Sessions
      BY <1>26 DEF Tasks, HomeInv, NotifyCancel
    <2>2. child' \in [Sessions -> Seq(Tasks)]
      BY <1>26, <2>1 DEF NotifyCancel, Release, Holds
    <2>3. stdin' \in [Sessions -> Seq(Tasks)]
      BY <1>26, <2>1 DEF NotifyCancel, SendLine
    <2> QED
      BY <1>26, <2>2, <2>3 DEF NotifyCancel
  <1>27. ASSUME NEW k \in Stops, Unlist(k) PROVE TypeOK'
    BY <1>27 DEF Unlist
  <1>28. ASSUME NEW k \in Stops, IndexStopped(k) PROVE TypeOK'
    BY <1>28 DEF IndexStopped, WriteIndex
  <1>29. CASE UNCHANGED vars
    BY <1>29 DEF vars
  <1> HIDE DEF TypeOK
  <1> QED
    BY <1>1, <1>2, <1>3, <1>4, <1>5, <1>6, <1>7, <1>8, <1>9, <1>10, <1>11,
       <1>12, <1>13, <1>14, <1>15, <1>16, <1>17, <1>18, <1>19, <1>20, <1>21,
       <1>22, <1>23, <1>24, <1>25, <1>26, <1>27, <1>28, <1>29
       DEF Next, RunStep, LoopStep, PromptStep, ApproveStep, StopStep

-----------------------------------------------------------------------------
(* The queues and the sessions of the tasks. *)

QueueInv == MutexInv /\ HomeInv /\ InboundInv

\* A step that leaves the three queues and the states of their tasks alone.
LEMMA QuietQueues ==
    ASSUME TypeOK, QueueInv, UNCHANGED <<child, home, prompt, stop, loop, inbound, call>>
    PROVE  QueueInv'
  <1>1. MutexInv'
    BY QuietMutex DEF QueueInv, Waits
  <1>2. InboundInv'
    BY QuietInbound DEF QueueInv
  <1>3. HomeInv'
    BY DEF QueueInv, HomeInv
  <1> QED
    BY <1>1, <1>2, <1>3 DEF QueueInv

\* A step of a prompt that changes neither the calls nor the stops.
LEMMA PromptKeepsHome ==
    ASSUME TypeOK, QueueInv, NEW p \in Prompts, prompt[p] # "no",
           UNCHANGED <<home, stop, loop, inbound, call>>,
           \A q \in Prompts : q # p => prompt'[q] = prompt[q]
    PROVE  HomeInv' /\ InboundInv'
  <1>1. InboundInv'
    BY QuietInbound DEF QueueInv
  <1>2. HomeInv'
    BY DEF QueueInv, HomeInv
  <1> QED
    BY <1>1, <1>2

\* The loop goes on with the call it is busy with.
LEMMA BusyLoopKeepsHome ==
    ASSUME TypeOK, QueueInv, NEW s \in Sessions, NEW c \in Calls, loop[s] = c,
           UNCHANGED <<home, prompt, stop, inbound>>,
           call'[c] \notin {"no", "asked"},
           \A d \in Calls : d # c => call'[d] = call[d],
           \A q \in Sessions : loop'[q] = loop[q] \/ loop'[q] = None
    PROVE  HomeInv' /\ InboundInv'
  <1>1. call[c] # "asked" /\ None \notin Calls
    BY NamesAreNew DEF QueueInv, HomeInv
  <1>2. InboundInv'
    BY <1>1, QuietInbound DEF QueueInv
  <1>3. HomeInv'
    BY <1>1 DEF QueueInv, HomeInv
  <1> QED
    BY <1>2, <1>3

\* The loop takes a call, which was asked, and does not leave it so.
LEMMA TakenCallKeepsQueues ==
    ASSUME TypeOK, QueueInv, NEW s \in Sessions, NEW c \in Calls, Takes(s, c),
           loop' = [loop EXCEPT ![s] = c],
           UNCHANGED <<child, home, prompt, stop>>,
           call'[c] \notin {"no", "asked"},
           \A d \in Calls : d # c => call'[d] = call[d]
    PROVE  QueueInv' /\ call[c] = "asked"
  <1>1. call[c] = "asked" /\ home[c] = s /\ InboundInv'
    BY TakesKeepsInbound DEF QueueInv
  <1>2. \A u \in Tasks : Waits(u) => Waits(u)'
    BY <1>1 DEF Waits
  <1>3. MutexInv'
    BY <1>2, QuietMutex DEF QueueInv
  <1>4. HomeInv'
    <2>1. \A q \in Sessions : loop'[q] = IF q = s THEN c ELSE loop[q]
      BY DEF TypeOK
    <2> QED
      BY <1>1, <2>1 DEF QueueInv, HomeInv
  <1> QED
    BY <1>1, <1>3, <1>4 DEF QueueInv

\* A session's first prompt is spawned when the session has started.
StartInv == \A s \in Sessions : prompt[s] # "no" => run[s] = "started"

LEMMA StepStart ==
    ASSUME TypeOK, StartInv, [Next]_vars
    PROVE  StartInv'
  <1> USE DEF sessionVars, childVars, promptVars, callVars, consentVars, agentVars
  <1> SUFFICES ASSUME NEW q \in Sessions, prompt'[q] # "no" PROVE run'[q] = "started"
    BY DEF StartInv
  <1>1. /\ prompt[q] # "no" => run[q] = "started"
        /\ q \in Prompts /\ q \notin Extra
    BY KindsAreDisjoint DEF StartInv, Prompts
  <1>2. CASE UNCHANGED <<prompt, run>>
    BY <1>1, <1>2
  <1>3. ASSUME NEW s \in Sessions, Spawn(s) \/ Insert(s) \/ IndexStarted(s) \/ StartTasks(s)
        PROVE  run'[q] = "started"
    <2>1. CASE Spawn(s)
      BY <1>1, <2>1 DEF Spawn, TypeOK
    <2>2. CASE Insert(s)
      BY <1>1, <2>2 DEF Insert, TypeOK
    <2>3. CASE IndexStarted(s)
      BY <1>1, <2>3 DEF IndexStarted, TypeOK
    <2>4. CASE StartTasks(s)
      BY <1>1, <2>4 DEF StartTasks, TypeOK
    <2> QED
      BY <1>3, <2>1, <2>2, <2>3, <2>4
  <1>4. ASSUME NEW p \in Prompts, PromptStep(p) PROVE run'[q] = "started"
    <2>1. UNCHANGED run /\ prompt[p] # "no"
      BY <1>4 DEF PromptStep, LockForPrompt, Request, Answered
    <2>2. \A r \in Prompts : r # p => prompt'[r] = prompt[r]
      BY <1>4 DEF PromptStep, LockForPrompt, Request, Answered, Finish, TypeOK
    <2> QED
      BY <1>1, <2>1, <2>2
  <1>5. ASSUME NEW s \in Sessions, NEW p \in Extra, SendPrompt(p, s)
        PROVE  run'[q] = "started"
    BY <1>1, <1>5 DEF SendPrompt, TypeOK
  <1>6. ASSUME NEW s \in Sessions, LoopStep(s) PROVE UNCHANGED <<prompt, run>>
    BY <1>6 DEF LoopStep, LoopEnds, Refuse, ResolvePermission, AskReturns,
       ConsentArrives, LockForAnswer, Respond
  <1>7. ASSUME NEW s \in Sessions, WriterFails(s) \/ AgentReads(s) \/ AgentDies(s)
                 \/ (\E k \in Stops : StopCall(k, s)) \/ (\E c \in Calls : AgentAsks(s, c))
                 \/ (\E r \in {"ok", "err"} : AgentFinishes(s, r))
        PROVE  UNCHANGED <<prompt, run>>
    BY <1>7 DEF WriterFails, AgentReads, AgentDies, StopCall, AgentAsks, AgentFinishes
  <1>8. ASSUME NEW c \in Calls, Expire(c) PROVE UNCHANGED <<prompt, run>>
    BY <1>8 DEF Expire
  <1>9. ASSUME NEW a \in Approvals, ApproveStep(a) \/ \E c \in Calls : Snapshot(a, c)
        PROVE  UNCHANGED <<prompt, run>>
    BY <1>9 DEF ApproveStep, DecideToken, AuditApproval, Snapshot
  <1>10. ASSUME NEW k \in Stops, StopStep(k) PROVE UNCHANGED <<prompt, run>>
    BY <1>10 DEF StopStep, NotifyCancel, Unlist, IndexStopped
  <1>11. CASE UNCHANGED vars
    BY <1>2, <1>11 DEF vars
  <1> QED
    BY <1>2, <1>3, <1>4, <1>5, <1>6, <1>7, <1>8, <1>9, <1>10, <1>11
       DEF Next, RunStep

\* Every step keeps the queues.
LEMMA StepQueues ==
    ASSUME TypeOK, QueueInv, StartInv, [Next]_vars
    PROVE  QueueInv'
  <1> USE DEF sessionVars, childVars, promptVars, callVars, consentVars, agentVars
  <1>1. MutexInv /\ HomeInv /\ InboundInv
    BY DEF QueueInv
  <1>2. /\ \A t \in Prompts : t \in Tasks /\ t \notin Stops /\ t \notin Calls
        /\ \A t \in Stops : t \in Tasks /\ t \notin Prompts /\ t \notin Calls
        /\ \A t \in Calls : t \in Tasks /\ t \notin Prompts /\ t \notin Stops
        /\ \A s \in Sessions : s \in Prompts /\ s \notin Extra
        /\ \A p \in Extra : p \in Prompts /\ p \notin Sessions
        /\ None \notin Calls
    BY KindsAreDisjoint, NamesAreNew DEF Tasks, Prompts
  <1>3. CASE UNCHANGED <<child, home, prompt, stop, loop, inbound, call>>
    BY <1>3, QuietQueues
  <1>4. ASSUME NEW s \in Sessions, StartTasks(s) PROVE QueueInv'
    <2>1. /\ \A q \in Sessions : loop'[q] = IF q = s THEN None ELSE loop[q]
          /\ \A t \in Tasks : home'[t] = IF t = s THEN s ELSE home[t]
          /\ \A p \in Prompts : prompt'[p] = IF p = s THEN "spawned" ELSE prompt[p]
          /\ UNCHANGED <<child, inbound, call, stop>>
      BY <1>4 DEF StartTasks, TypeOK
    <2>2. prompt[s] = "no"
      BY <1>4 DEF StartTasks, StartInv
    <2>3. \A u \in Tasks : Waits(u) => Waits(u)' /\ home'[u] = home[u]
      BY <1>2, <2>1, <2>2 DEF Waits
    <2>4. MutexInv'
      BY <1>1, <2>1, <2>3, QuietMutex
    <2>5. InboundInv'
      BY <1>1, <1>2, <2>1, QuietInbound
    <2>6. HomeInv'
      BY <1>1, <1>2, <2>1 DEF HomeInv
    <2> QED
      BY <2>4, <2>5, <2>6 DEF QueueInv
  <1>5. ASSUME NEW s \in Sessions, NEW p \in Extra, SendPrompt(p, s) PROVE QueueInv'
    <2>1. /\ \A t \in Tasks : home'[t] = IF t = p THEN s ELSE home[t]
          /\ \A r \in Prompts : prompt'[r] = IF r = p THEN "spawned" ELSE prompt[r]
          /\ UNCHANGED <<child, inbound, call, stop, loop>> /\ prompt[p] = "no"
      BY <1>2, <1>5 DEF SendPrompt, TypeOK
    <2>2. \A u \in Tasks : Waits(u) => Waits(u)' /\ home'[u] = home[u]
      BY <1>2, <2>1 DEF Waits
    <2>3. MutexInv'
      BY <1>1, <2>1, <2>2, QuietMutex
    <2>4. InboundInv'
      BY <1>1, <1>2, <2>1, QuietInbound
    <2>5. HomeInv'
      BY <1>1, <1>2, <2>1 DEF HomeInv
    <2> QED
      BY <2>3, <2>4, <2>5 DEF QueueInv
  <1>6. ASSUME NEW p \in Prompts, LockForPrompt(p) PROVE QueueInv'
    <2>1. /\ \A r \in Prompts : prompt'[r] = IF r = p THEN "queued" ELSE prompt[r]
          /\ prompt[p] = "spawned" /\ Enqueue(home[p], p)
          /\ UNCHANGED <<home, stop, loop, inbound, call>>
      BY <1>6 DEF LockForPrompt, TypeOK
    <2>2. HomeInv' /\ InboundInv'
      BY <2>1, PromptKeepsHome
    <2>3. home[p] \in Sessions /\ p \in Tasks
      BY <1>1, <1>2, <2>1 DEF HomeInv
    <2>4. ~Waits(p) /\ Waits(p)'
      BY <1>2, <2>1 DEF Waits
    <2>5. \A u \in Tasks : Waits(u) => Waits(u)'
      BY <2>1 DEF Waits
    <2>6. MutexInv'
      BY <1>1, <2>1, <2>3, <2>4, <2>5, EnqueueKeepsMutex
    <2> QED
      BY <2>2, <2>6 DEF QueueInv
  <1>7. ASSUME NEW p \in Prompts, Holds(home[p], p), prompt[p] \in {"queued", "sent"},
               Finish(p), UNCHANGED <<home, stop, loop, inbound, call>>
        PROVE  QueueInv'
    <2>1. \A r \in Prompts : prompt'[r] = IF r = p THEN "done" ELSE prompt[r]
      BY <1>7 DEF Finish, TypeOK
    <2>2. HomeInv' /\ InboundInv'
      BY <1>7, <2>1, PromptKeepsHome
    <2>3. home[p] \in Sessions /\ p \in Tasks
      BY <1>1, <1>2, <1>7 DEF HomeInv
    <2>4. \A u \in Tasks : u # p /\ Waits(u) => Waits(u)'
      BY <1>7, <2>1 DEF Waits
    <2>5. MutexInv'
      BY <1>1, <1>7, <2>1, <2>3, <2>4, ReleaseKeepsMutex DEF Finish
    <2> QED
      BY <2>2, <2>5 DEF QueueInv
  <1>8. ASSUME NEW p \in Prompts, Request(p) PROVE QueueInv'
    <2>1. CASE writer[home[p]]
      <3>1. /\ \A r \in Prompts : prompt'[r] = IF r = p THEN "sent" ELSE prompt[r]
            /\ UNCHANGED <<child, home, stop, loop, inbound, call>>
            /\ prompt[p] = "queued" /\ Holds(home[p], p)
        BY <1>8, <2>1 DEF Request, TypeOK
      <3>2. HomeInv' /\ InboundInv'
        BY <3>1, PromptKeepsHome
      <3>3. \A u \in Tasks : Waits(u) => Waits(u)' /\ home'[u] = home[u]
        BY <3>1 DEF Waits
      <3>4. MutexInv'
        BY <1>1, <3>1, <3>3, QuietMutex
      <3> QED
        BY <3>2, <3>4 DEF QueueInv
    <2>2. CASE ~writer[home[p]]
      BY <1>7, <1>8, <2>2 DEF Request
    <2> QED
      BY <2>1, <2>2
  <1>9. ASSUME NEW p \in Prompts, Answered(p) PROVE QueueInv'
    <2>1. Holds(home[p], p)
      BY <1>1, <1>9 DEF Answered, MutexInv
    <2> QED
      BY <1>7, <1>9, <2>1 DEF Answered
  <1>10. ASSUME NEW s \in Sessions, LoopEnds(s) PROVE QueueInv'
    <2>1. Takes(s, "closed") /\ UNCHANGED <<child, home, prompt, stop, call>>
      BY <1>10 DEF LoopEnds
    <2>2. InboundInv'
      BY <1>1, <2>1, TakesKeepsInbound
    <2>3. MutexInv'
      BY <1>1, <2>1, QuietMutex DEF Waits
    <2>4. \A q \in Sessions : loop'[q] = IF q = s THEN "exited" ELSE loop[q]
      BY <1>10 DEF LoopEnds, TypeOK
    <2>5. HomeInv'
      BY <1>1, <2>1, <2>4, NamesAreNew DEF HomeInv
    <2> QED
      BY <2>2, <2>3, <2>5 DEF QueueInv
  <1>11. ASSUME NEW s \in Sessions, NEW c \in Calls, Refuse(s, c) PROVE QueueInv'
    BY <1>11, TakenCallKeepsQueues DEF Refuse, Decide, TypeOK
  <1>12. ASSUME NEW s \in Sessions, NEW c \in Calls, ResolvePermission(s, c)
         PROVE  QueueInv'
    <2>1. \/ call' = [call EXCEPT ![c] = "notified"]
          \/ call' = [call EXCEPT ![c] = "decided"]
          \/ call' = [call EXCEPT ![c] = "parked"]
      BY <1>12 DEF ResolvePermission, Ask, Decide
    <2>2. /\ call'[c] \in {"notified", "decided", "parked"}
          /\ \A d \in Calls : d # c => call'[d] = call[d]
      BY <2>1 DEF TypeOK
    <2> QED
      BY <1>12, <2>2, TakenCallKeepsQueues DEF ResolvePermission
  <1>13. ASSUME NEW s \in Sessions, AskReturns(s) \/ ConsentArrives(s) PROVE QueueInv'
    <2>1. PICK c \in Calls, d \in {"allow", "deny"} :
             /\ loop[s] = c /\ call[c] \in {"notified", "parked"} /\ Decide(c, d)
             /\ UNCHANGED <<child, home, prompt, stop, loop, inbound>>
      BY <1>13 DEF AskReturns, ConsentArrives
    <2>2. \A e \in Calls : call'[e] = IF e = c THEN "decided" ELSE call[e]
      BY <2>1 DEF Decide, TypeOK
    <2>3. HomeInv' /\ InboundInv'
      BY <2>1, <2>2, BusyLoopKeepsHome
    <2>4. \A u \in Tasks : Waits(u) => Waits(u)'
      BY <2>1, <2>2 DEF Waits
    <2>5. MutexInv'
      BY <1>1, <2>1, <2>4, QuietMutex
    <2> QED
      BY <2>3, <2>5 DEF QueueInv
  <1>14. ASSUME NEW s \in Sessions, LockForAnswer(s) PROVE QueueInv'
    <2>1. PICK c \in Calls :
             /\ loop[s] = c /\ call[c] = "decided" /\ Enqueue(s, c)
             /\ call' = [call EXCEPT ![c] = "queued"]
             /\ UNCHANGED <<home, prompt, stop, loop, inbound>>
      BY <1>14 DEF LockForAnswer
    <2>2. \A e \in Calls : call'[e] = IF e = c THEN "queued" ELSE call[e]
      BY <2>1 DEF TypeOK
    <2>3. HomeInv' /\ InboundInv'
      BY <2>1, <2>2, BusyLoopKeepsHome
    <2>4. home[c] = s /\ c \in Tasks
      BY <1>1, <1>2, <2>1 DEF HomeInv
    <2>5. ~Waits(c) /\ Waits(c)'
      BY <1>2, <2>1, <2>2 DEF Waits
    <2>6. \A u \in Tasks : Waits(u) => Waits(u)'
      BY <2>1, <2>2 DEF Waits
    <2>7. MutexInv'
      BY <1>1, <2>1, <2>4, <2>5, <2>6, EnqueueKeepsMutex
    <2> QED
      BY <2>3, <2>7 DEF QueueInv
  <1>15. ASSUME NEW s \in Sessions, Respond(s) PROVE QueueInv'
    <2>1. PICK c \in Calls :
             /\ loop[s] = c /\ call[c] = "queued" /\ Holds(s, c) /\ Release(s)
             /\ call' = [call EXCEPT ![c] = "answered"]
             /\ loop' = [loop EXCEPT ![s] = None]
             /\ UNCHANGED <<home, prompt, stop, inbound>>
      BY <1>15 DEF Respond
    <2>2. /\ \A e \in Calls : call'[e] = IF e = c THEN "answered" ELSE call[e]
          /\ \A q \in Sessions : loop'[q] = IF q = s THEN None ELSE loop[q]
      BY <2>1 DEF TypeOK
    <2>3. HomeInv' /\ InboundInv'
      BY <2>1, <2>2, BusyLoopKeepsHome
    <2>4. c \in Tasks /\ c \notin Prompts
      BY <1>2
    <2>5. \A u \in Tasks : u # c /\ Waits(u) => Waits(u)'
      BY <2>1, <2>2 DEF Waits
    <2>6. MutexInv'
      BY <1>1, <2>1, <2>4, <2>5, ReleaseKeepsMutex
    <2> QED
      BY <2>3, <2>6 DEF QueueInv
  <1>16. ASSUME NEW s \in Sessions, NEW k \in Stops, StopCall(k, s) PROVE QueueInv'
    <2>1. UNCHANGED <<prompt, loop, inbound, call>> /\ stop[k] = "no"
      BY <1>16 DEF StopCall
    <2>2. CASE s \in listed
      <3>1. /\ \A j \in Stops : stop'[j] = IF j = k THEN "queued" ELSE stop[j]
            /\ \A t \in Tasks : home'[t] = IF t = k THEN s ELSE home[t]
            /\ Enqueue(s, k) /\ k \in Tasks
        BY <1>2, <1>16, <2>2 DEF StopCall, TypeOK
      <3>2. InboundInv'
        BY <1>1, <1>2, <2>1, <3>1, QuietInbound
      <3>3. HomeInv'
        BY <1>1, <1>2, <2>1, <3>1 DEF HomeInv
      <3>4. ~Waits(k) /\ Waits(k)'
        BY <1>2, <2>1, <3>1 DEF Waits
      <3>5. \A u \in Tasks : Waits(u) => Waits(u)' /\ home'[u] = home[u]
        BY <2>1, <3>1, <3>4 DEF Waits
      <3>6. MutexInv'
        BY <1>1, <2>1, <3>1, <3>4, <3>5, EnqueueKeepsMutex
      <3> QED
        BY <3>2, <3>3, <3>6 DEF QueueInv
    <2>3. CASE s \notin listed
      <3>1. /\ \A j \in Stops : stop'[j] = IF j = k THEN "unknown" ELSE stop[j]
            /\ UNCHANGED <<home, child>>
        BY <1>16, <2>3 DEF StopCall, TypeOK
      <3>2. InboundInv'
        BY <1>1, <2>1, <3>1, QuietInbound
      <3>3. HomeInv'
        BY <1>1, <2>1, <3>1 DEF HomeInv
      <3>4. \A u \in Tasks : Waits(u) => Waits(u)'
        BY <2>1, <3>1 DEF Waits
      <3>5. MutexInv'
        BY <1>1, <2>1, <3>1, <3>4, QuietMutex
      <3> QED
        BY <3>2, <3>3, <3>5 DEF QueueInv
    <2> QED
      BY <2>2, <2>3
  <1>17. ASSUME NEW k \in Stops, NotifyCancel(k) PROVE QueueInv'
    <2>1. /\ stop[k] = "queued" /\ Holds(home[k], k) /\ Release(home[k])
          /\ \A j \in Stops : stop'[j] = IF j = k THEN "cancelled" ELSE stop[j]
          /\ UNCHANGED <<home, prompt, loop, inbound, call>>
      BY <1>17 DEF NotifyCancel, TypeOK
    <2>2. InboundInv'
      BY <1>1, <2>1, QuietInbound
    <2>3. HomeInv'
      BY <1>1, <2>1 DEF HomeInv
    <2>4. home[k] \in Sessions /\ k \in Tasks /\ k \notin Prompts
      BY <1>1, <1>2, <2>1 DEF HomeInv
    <2>5. \A u \in Tasks : u # k /\ Waits(u) => Waits(u)'
      BY <2>1 DEF Waits
    <2>6. MutexInv'
      BY <1>1, <2>1, <2>4, <2>5, ReleaseKeepsMutex
    <2> QED
      BY <2>2, <2>3, <2>6 DEF QueueInv
  <1>18. ASSUME NEW k \in Stops, Unlist(k) \/ IndexStopped(k) PROVE QueueInv'
    <2>1. /\ stop[k] # "queued" /\ stop'[k] \notin {"queued", "cancelled"}
          /\ \A j \in Stops : j # k => stop'[j] = stop[j]
          /\ UNCHANGED <<child, home, prompt, loop, inbound, call>>
      BY <1>18 DEF Unlist, IndexStopped, TypeOK
    <2>2. InboundInv'
      BY <1>1, <2>1, QuietInbound
    <2>3. HomeInv'
      BY <1>1, <2>1 DEF HomeInv
    <2>4. \A u \in Tasks : Waits(u) => Waits(u)'
      BY <2>1 DEF Waits
    <2>5. MutexInv'
      BY <1>1, <2>1, <2>4, QuietMutex
    <2> QED
      BY <2>2, <2>3, <2>5 DEF QueueInv
  <1>19. ASSUME NEW s \in Sessions, NEW c \in Calls, AgentAsks(s, c) PROVE QueueInv'
    <2>1. /\ call[c] = "no" /\ inbound' = [inbound EXCEPT ![s] = Append(@, c)]
          /\ \A e \in Calls : call'[e] = IF e = c THEN "asked" ELSE call[e]
          /\ \A t \in Tasks : home'[t] = IF t = c THEN s ELSE home[t]
          /\ UNCHANGED <<child, prompt, stop, loop>>
      BY <1>19 DEF AgentAsks, TypeOK
    <2>2. InboundInv'
      BY <1>1, <1>2, <2>1, ReaderKeepsInbound
    <2>3. HomeInv'
      BY <1>1, <1>2, <2>1 DEF HomeInv
    <2>4. \A u \in Tasks : Waits(u) => Waits(u)' /\ home'[u] = home[u]
      BY <1>2, <2>1 DEF Waits
    <2>5. MutexInv'
      BY <1>1, <2>1, <2>4, QuietMutex
    <2> QED
      BY <2>2, <2>3, <2>5 DEF QueueInv
  <1>20. ASSUME NEW s \in Sessions, AgentDies(s) PROVE QueueInv'
    <2>1. /\ inbound' = [inbound EXCEPT ![s] = Append(@, "closed")]
          /\ UNCHANGED <<child, home, prompt, stop, loop, call>>
      BY <1>20 DEF AgentDies
    <2>2. InboundInv'
      BY <1>1, <2>1, NamesAreNew, ReaderKeepsInbound
    <2>3. HomeInv' /\ MutexInv'
      BY <1>1, <2>1, QuietMutex DEF HomeInv, Waits
    <2> QED
      BY <2>2, <2>3 DEF QueueInv
  <1>21. ASSUME NEW s \in Sessions, Spawn(s) \/ Insert(s) \/ IndexStarted(s) \/
                WriterFails(s) \/ AgentReads(s) \/
                (\E r \in {"ok", "err"} : AgentFinishes(s, r))
         PROVE  QueueInv'
    BY <1>3, <1>21
       DEF Spawn, Insert, IndexStarted, WriterFails, AgentReads, AgentFinishes
  <1>22. ASSUME NEW c \in Calls, Expire(c) PROVE QueueInv'
    BY <1>3, <1>22 DEF Expire
  <1>23. ASSUME NEW a \in Approvals, ApproveStep(a) \/ \E c \in Calls : Snapshot(a, c)
         PROVE  QueueInv'
    BY <1>3, <1>23 DEF ApproveStep, DecideToken, AuditApproval, Snapshot
  <1>24. CASE UNCHANGED vars
    BY <1>3, <1>24 DEF vars
  <1> QED
    BY <1>4, <1>5, <1>6, <1>8, <1>9, <1>10, <1>11, <1>12, <1>13, <1>14, <1>15, <1>16,
       <1>17, <1>18, <1>19, <1>20, <1>21, <1>22, <1>23, <1>24
       DEF Next, RunStep, LoopStep, PromptStep, StopStep

-----------------------------------------------------------------------------
(* Consent. *)

ConsentInv ==
    (\A c \in Calls : CallInv(c)) /\ (\A a \in Approvals : ApproveInv(a))

\* A step that leaves the store and the approvals alone; a call moves on, or
\* is decided as its token says.
LEMMA QuietConsent ==
    ASSUME TypeOK, ConsentInv, UNCHANGED <<store, expired, waker, approve>>,
           audit \subseteq audit',
           \A c \in Calls :
              /\ CallInv(c)'
              /\ call[c] \notin {"no", "asked"} => call'[c] \notin {"no", "asked"}
    PROVE  ConsentInv'
  <1> SUFFICES ASSUME NEW a \in Approvals PROVE ApproveInv(a)'
    BY DEF ConsentInv
  <1> QED
    BY DEF ConsentInv, ApproveInv

\* The calls stay, or one of them moves on, with the store alone.
LEMMA CallMoves ==
    ASSUME TypeOK, ConsentInv, UNCHANGED <<store, expired, waker, approve>>,
           audit \subseteq audit', NEW c \in Calls,
           \A d \in Calls : d # c => call'[d] = call[d] /\ decision'[d] = decision[d],
           \/ /\ call[c] = "no" /\ call'[c] = "asked" /\ decision'[c] = decision[c]
           \/ /\ call[c] = "asked" /\ call'[c] \in {"notified", "decided"}
              /\ call'[c] = "notified" => decision'[c] = decision[c]
           \/ /\ call[c] = "notified" /\ call'[c] = "decided"
           \/ /\ call[c] = "parked" /\ call'[c] = "decided" /\ waker[c] # None
              /\ decision'[c] = IF waker[c] = "allow" THEN "allow" ELSE "deny"
           \/ /\ call[c] = "decided" /\ call'[c] = "queued" /\ decision'[c] = decision[c]
           \/ /\ call[c] = "queued" /\ call'[c] = "answered" /\ decision'[c] = decision[c]
    PROVE  ConsentInv'
  <1>1. ASSUME NEW d \in Calls PROVE CallInv(d)'
    <2>1. CallInv(d)
      BY DEF ConsentInv
    <2>2. CASE d # c
      BY <2>1, <2>2 DEF CallInv
    <2>3. CASE d = c
      BY <2>1, <2>3 DEF CallInv
    <2> QED
      BY <2>2, <2>3
  <1>2. \A d \in Calls : call[d] \notin {"no", "asked"} => call'[d] \notin {"no", "asked"}
    OBVIOUS
  <1> QED
    BY <1>1, <1>2, QuietConsent

\* The call is parked: a token that was not there before joins the store, and
\* the sweep drops the stale ones.
LEMMA IssueKeepsConsent ==
    ASSUME TypeOK, ConsentInv, NEW c \in Calls, call[c] = "asked",
           call' = [call EXCEPT ![c] = "parked"], Issue(c),
           audit' = audit \union {<<c, "parked">>},
           UNCHANGED <<expired, approve, decision>>
    PROVE  ConsentInv'
  <1>1. /\ \A d \in Calls : call'[d] = IF d = c THEN "parked" ELSE call[d]
        /\ \A d \in Calls : waker'[d] = IF d \in store \intersect expired
                                        THEN "dropped" ELSE waker[d]
        /\ store' = (store \ expired) \union {c}
        /\ audit \subseteq audit' /\ <<c, "parked">> \in audit'
    BY DEF Issue, TypeOK
  <1>2. c \notin store /\ waker[c] = None /\ decision[c] = None
    BY DEF ConsentInv, CallInv
  <1>3. ASSUME NEW d \in Calls PROVE CallInv(d)'
    <2>1. CallInv(d)
      BY DEF ConsentInv
    <2>2. CASE d = c
      BY <1>1, <1>2, <2>2, NamesAreNew DEF CallInv
    <2>3. CASE d # c
      <3>1. CASE d \in store \intersect expired
        BY <1>1, <2>1, <2>3, <3>1, NamesAreNew DEF CallInv
      <3>2. CASE d \notin store \intersect expired
        BY <1>1, <2>1, <2>3, <3>2 DEF CallInv
      <3> QED
        BY <3>1, <3>2
    <2> QED
      BY <2>2, <2>3
  <1>4. ASSUME NEW a \in Approvals PROVE ApproveInv(a)'
    <2>1. ApproveInv(a)
      BY DEF ConsentInv
    <2>2. approve[a].at # "no" => approve[a].token \in Calls /\ approve[a].token # c
      BY <2>1 DEF ApproveInv
    <2>3. approve[a].ok => approve[a].at \notin {"no", "looked"}
      BY <2>1 DEF ApproveInv
    <2>4. approve[a].ok => /\ waker[approve[a].token] = "allow"
                           /\ approve[a].token \in Calls
                           /\ approve[a].token \notin store
      BY <2>1, <2>2, <2>3, NamesAreNew DEF ApproveInv, ConsentInv, CallInv
    <2>5. approve[a].at # "no" => call'[approve[a].token] \notin {"no", "asked"}
      BY <1>1, <2>1, <2>2 DEF ApproveInv
    <2>6. approve[a].ok => waker'[approve[a].token] = "allow"
      BY <1>1, <2>4
    <2>7. approve[a].at = "looked" /\ ~approve[a].seen =>
             approve[a].token \notin store' \ expired
      BY <1>1, <2>1, <2>2 DEF ApproveInv
    <2> QED
      BY <1>1, <2>1, <2>2, <2>5, <2>6, <2>7 DEF ApproveInv
  <1> QED
    BY <1>3, <1>4 DEF ConsentInv

\* A token is decided: it leaves the store, and the call it was of wakes.
LEMMA DecideKeepsConsent ==
    ASSUME TypeOK, ConsentInv, NEW a \in Approvals, DecideToken(a)
    PROVE  ConsentInv'
  <1> USE DEF sessionVars, childVars, promptVars, callVars, agentVars
  <1> DEFINE c == approve[a].token
             live == c \in store \ expired
  <1>1. /\ approve[a].at = "looked" /\ store' = store \ {c}
        /\ approve' = [approve EXCEPT ![a] = [at |-> "decided", token |-> c, ok |-> live,
                                              seen |-> approve[a].seen]]
        /\ waker' = [waker EXCEPT ![c] = IF live THEN "allow"
                                         ELSE IF c \in store THEN "dropped" ELSE @]
        /\ UNCHANGED <<expired, call, decision, audit>>
    BY DEF DecideToken
  <1>2. /\ approve'[a].at = "decided" /\ approve'[a].token = c
        /\ approve'[a].ok = live /\ approve'[a].seen = approve[a].seen
        /\ \A b \in Approvals : b # a => approve'[b] = approve[b]
    BY <1>1 DEF TypeOK
  <1>3. c \in Calls /\ ApproveInv(a)
    BY <1>1 DEF ConsentInv, ApproveInv
  <1>4. \A d \in Calls : waker'[d] = IF d # c THEN waker[d]
                                     ELSE IF live THEN "allow"
                                     ELSE IF c \in store THEN "dropped" ELSE waker[d]
    BY <1>1, <1>3 DEF TypeOK
  <1>5. CallInv(c)
    BY <1>3 DEF ConsentInv
  <1>6. live => approve[a].seen
    BY <1>1, <1>3 DEF ApproveInv
  <1> HIDE DEF c, live
  <1>7. live => c \in store
    BY DEF live
  <1>8. ASSUME NEW d \in Calls PROVE CallInv(d)'
    <2>1. CallInv(d)
      BY DEF ConsentInv
    <2>2. CASE d # c
      BY <1>1, <1>4, <2>1, <2>2 DEF CallInv
    <2>3. CASE d = c
      BY <1>1, <1>4, <1>5, <1>7, <2>3, NamesAreNew DEF CallInv
    <2> QED
      BY <2>2, <2>3
  <1>9. ASSUME NEW b \in Approvals, b # a PROVE ApproveInv(b)'
    <2>1. ApproveInv(b) /\ approve'[b] = approve[b]
      BY <1>2, <1>9 DEF ConsentInv
    <2>2. approve[b].ok => /\ approve[b].token \in Calls
                           /\ waker[approve[b].token] = "allow"
      BY <2>1 DEF ApproveInv, TypeOK
    <2>3. approve[b].ok => approve[b].token \notin store
      BY <2>2, NamesAreNew DEF ConsentInv, CallInv
    <2>4. approve[b].ok => waker'[approve[b].token] = "allow"
      BY <1>4, <1>7, <2>2, <2>3
    <2>5. ASSUME NEW e \in Approvals, approve'[b].ok, approve'[e].ok,
                 approve'[b].token = approve'[e].token
          PROVE  b = e
      <3>1. CASE e = a
        BY <1>2, <1>7, <2>1, <2>3, <2>5, <3>1
      <3>2. CASE e # a
        BY <1>2, <2>1, <2>5, <3>2 DEF ApproveInv
      <3> QED
        BY <3>1, <3>2
    <2> QED
      BY <1>1, <2>1, <2>4, <2>5 DEF ApproveInv
  <1>10. ApproveInv(a)'
    <2>1. call[c] \notin {"no", "asked"}
      BY <1>1, <1>3 DEF ApproveInv, c
    <2>2. approve'[a].ok => waker'[c] = "allow" /\ approve'[a].seen
      BY <1>2, <1>3, <1>4, <1>6
    <2>3. ASSUME NEW e \in Approvals, approve'[a].ok, approve'[e].ok,
                 approve'[a].token = approve'[e].token
          PROVE  a = e
      <3>1. CASE e # a
        BY <1>9, <2>3, <3>1 DEF ApproveInv
      <3> QED
        BY <3>1
    <2> QED
      BY <1>1, <1>2, <1>3, <2>1, <2>2, <2>3 DEF ApproveInv
  <1> QED
    BY <1>8, <1>9, <1>10 DEF ConsentInv

\* An approval looks at a token: of a call that was taken, so that a token
\* that is not in the store now will not come.
LEMMA SnapshotKeepsConsent ==
    ASSUME TypeOK, ConsentInv, NEW a \in Approvals, NEW c \in Calls, Snapshot(a, c)
    PROVE  ConsentInv'
  <1> USE DEF sessionVars, childVars, promptVars, callVars, agentVars
  <1>1. /\ approve'[a].at = "looked" /\ approve'[a].token = c
        /\ approve'[a].ok = FALSE /\ approve'[a].seen = (c \in store \ expired)
        /\ \A b \in Approvals : b # a => approve'[b] = approve[b]
        /\ call[c] \notin {"no", "asked"}
        /\ UNCHANGED <<expired, call, decision, audit, store, waker>>
    BY DEF Snapshot, TypeOK
  <1>2. ASSUME NEW d \in Calls PROVE CallInv(d)'
    BY <1>1 DEF ConsentInv, CallInv
  <1>3. ASSUME NEW b \in Approvals PROVE ApproveInv(b)'
    <2>1. CASE b = a
      BY <1>1, <2>1 DEF ApproveInv
    <2>2. CASE b # a
      BY <1>1, <2>2 DEF ApproveInv, ConsentInv
    <2> QED
      BY <2>1, <2>2
  <1> QED
    BY <1>2, <1>3 DEF ConsentInv

\* The approval is recorded.
LEMMA AuditKeepsConsent ==
    ASSUME TypeOK, ConsentInv, NEW a \in Approvals, AuditApproval(a)
    PROVE  ConsentInv'
  <1> USE DEF sessionVars, childVars, promptVars, callVars, agentVars
  <1>1. /\ approve[a].at = "decided"
        /\ approve'[a].at = "done" /\ approve'[a].token = approve[a].token
        /\ approve'[a].ok = approve[a].ok /\ approve'[a].seen = approve[a].seen
        /\ \A b \in Approvals : b # a => approve'[b] = approve[b]
        /\ UNCHANGED <<expired, call, decision, store, waker>>
    BY DEF AuditApproval, TypeOK
  <1>2. /\ audit \subseteq audit'
        /\ approve[a].ok /\ approve[a].seen => <<approve[a].token, "approved">> \in audit'
    BY DEF AuditApproval
  <1>3. ASSUME NEW d \in Calls PROVE CallInv(d)'
    BY <1>1, <1>2 DEF ConsentInv, CallInv
  <1>4. ASSUME NEW b \in Approvals PROVE ApproveInv(b)'
    <2>1. ApproveInv(a) /\ ApproveInv(b)
      BY DEF ConsentInv
    <2>2. \A e \in Approvals : approve'[e].ok = approve[e].ok
                               /\ approve'[e].token = approve[e].token
      BY <1>1
    <2>3. CASE b = a
      BY <1>1, <1>2, <2>1, <2>2, <2>3 DEF ApproveInv
    <2>4. CASE b # a
      BY <1>1, <1>2, <2>1, <2>2, <2>4 DEF ApproveInv
    <2> QED
      BY <2>3, <2>4
  <1> QED
    BY <1>3, <1>4 DEF ConsentInv

\* Every step keeps the consent invariant.
LEMMA StepConsent ==
    ASSUME TypeOK, QueueInv, ConsentInv, [Next]_vars
    PROVE  ConsentInv'
  <1> USE DEF sessionVars, childVars, promptVars, callVars, consentVars, agentVars
  <1>1. ASSUME NEW s \in Sessions, NEW c \in Calls, Takes(s, c) PROVE call[c] = "asked"
    <2>1. /\ inbound[s] \in Seq(Calls \union {"closed"}) /\ inbound[s] # <<>>
          /\ Head(inbound[s]) = c
      BY <1>1 DEF Takes, TypeOK
    <2>2. 1 \in 1 .. Len(inbound[s]) /\ inbound[s][1] = c
      BY <2>1
    <2> QED
      BY <2>2 DEF QueueInv, InboundInv
  <1>2. CASE UNCHANGED <<call, decision, store, expired, waker, approve, audit>>
    <2>1. ASSUME NEW c \in Calls PROVE CallInv(c)'
      BY <1>2 DEF ConsentInv, CallInv
    <2> QED
      BY <1>2, <2>1, QuietConsent
  <1>3. ASSUME NEW s \in Sessions, NEW c \in Calls, Refuse(s, c) PROVE ConsentInv'
    <2>1. call[c] = "asked"
      BY <1>1, <1>3 DEF Refuse
    <2>2. /\ \A d \in Calls : call'[d] = IF d = c THEN "decided" ELSE call[d]
          /\ \A d \in Calls : d # c => decision'[d] = decision[d]
          /\ UNCHANGED <<store, expired, waker, approve, audit>>
      BY <1>3 DEF Refuse, Decide, TypeOK
    <2> QED
      BY <2>1, <2>2, CallMoves
  <1>4. ASSUME NEW s \in Sessions, NEW c \in Calls, ResolvePermission(s, c)
        PROVE  ConsentInv'
    <2>1. call[c] = "asked" /\ UNCHANGED <<expired, approve>>
      BY <1>1, <1>4 DEF ResolvePermission
    <2>2. CASE Ask(c) /\ audit \subseteq audit'
      <3>1. /\ \A d \in Calls : call'[d] = IF d = c THEN "notified" ELSE call[d]
            /\ UNCHANGED <<store, waker, decision>>
        BY <2>2 DEF Ask, TypeOK
      <3> QED
        BY <2>1, <2>2, <3>1, CallMoves
    <2>3. ASSUME NEW v, Decide(c, v), audit \subseteq audit', UNCHANGED <<store, waker>>
          PROVE  ConsentInv'
      <3>1. /\ \A d \in Calls : call'[d] = IF d = c THEN "decided" ELSE call[d]
            /\ \A d \in Calls : d # c => decision'[d] = decision[d]
        BY <2>3 DEF Decide, TypeOK
      <3> QED
        BY <2>1, <2>3, <3>1, CallMoves
    <2>4. CASE /\ call' = [call EXCEPT ![c] = "parked"] /\ Issue(c)
               /\ audit' = audit \union {<<c, "parked">>} /\ UNCHANGED decision
      BY <2>1, <2>4, IssueKeepsConsent
    <2> QED
      BY <1>4, <2>2, <2>3, <2>4 DEF ResolvePermission
  <1>5. ASSUME NEW s \in Sessions, AskReturns(s) PROVE ConsentInv'
    <2>1. PICK c \in Calls, d \in {"allow", "deny"} :
             /\ call[c] = "notified" /\ Decide(c, d)
             /\ UNCHANGED <<store, expired, waker, approve, audit>>
      BY <1>5 DEF AskReturns
    <2>2. /\ \A e \in Calls : call'[e] = IF e = c THEN "decided" ELSE call[e]
          /\ \A e \in Calls : e # c => decision'[e] = decision[e]
      BY <2>1 DEF Decide, TypeOK
    <2> QED
      BY <2>1, <2>2, CallMoves
  <1>6. ASSUME NEW s \in Sessions, ConsentArrives(s) PROVE ConsentInv'
    <2>1. PICK c \in Calls :
             /\ call[c] = "parked" /\ waker[c] # None
             /\ Decide(c, IF waker[c] = "allow" THEN "allow" ELSE "deny")
             /\ UNCHANGED <<store, expired, waker, approve, audit>>
      BY <1>6 DEF ConsentArrives
    <2>2. /\ \A e \in Calls : call'[e] = IF e = c THEN "decided" ELSE call[e]
          /\ \A e \in Calls : e # c => decision'[e] = decision[e]
          /\ decision'[c] = IF waker[c] = "allow" THEN "allow" ELSE "deny"
      BY <2>1 DEF Decide, TypeOK
    <2> QED
      BY <2>1, <2>2, CallMoves
  <1>7. ASSUME NEW s \in Sessions, LockForAnswer(s) \/ Respond(s) PROVE ConsentInv'
    <2>1. PICK c \in Calls :
             /\ \/ call[c] = "decided" /\ call' = [call EXCEPT ![c] = "queued"]
                \/ call[c] = "queued" /\ call' = [call EXCEPT ![c] = "answered"]
             /\ UNCHANGED <<decision, store, expired, waker, approve, audit>>
      BY <1>7 DEF LockForAnswer, Respond
    <2>2. /\ \A e \in Calls : e # c => call'[e] = call[e]
          /\ \/ call[c] = "decided" /\ call'[c] = "queued"
             \/ call[c] = "queued" /\ call'[c] = "answered"
      BY <2>1 DEF TypeOK
    <2> QED
      BY <2>1, <2>2, CallMoves
  <1>8. ASSUME NEW s \in Sessions, NEW c \in Calls, AgentAsks(s, c) PROVE ConsentInv'
    <2>1. /\ \A e \in Calls : call'[e] = IF e = c THEN "asked" ELSE call[e]
          /\ call[c] = "no"
          /\ UNCHANGED <<decision, store, expired, waker, approve, audit>>
      BY <1>8 DEF AgentAsks, TypeOK
    <2> QED
      BY <2>1, CallMoves
  <1>9. ASSUME NEW c \in Calls, Expire(c) PROVE ConsentInv'
    <2>1. /\ expired \subseteq expired'
          /\ UNCHANGED <<call, decision, store, waker, approve, audit>>
      BY <1>9 DEF Expire
    <2>2. ASSUME NEW d \in Calls PROVE CallInv(d)'
      BY <2>1 DEF ConsentInv, CallInv
    <2>3. ASSUME NEW a \in Approvals PROVE ApproveInv(a)'
      BY <2>1 DEF ConsentInv, ApproveInv
    <2> QED
      BY <2>2, <2>3 DEF ConsentInv
  <1>10. ASSUME NEW a \in Approvals, ApproveStep(a) \/ \E c \in Calls : Snapshot(a, c)
         PROVE  ConsentInv'
    BY <1>10, DecideKeepsConsent, AuditKeepsConsent, SnapshotKeepsConsent DEF ApproveStep
  <1>11. ASSUME NEW s \in Sessions, Spawn(s) \/ RunStep(s) \/ LoopEnds(s) \/
                WriterFails(s) \/ AgentReads(s) \/ AgentDies(s) \/
                (\E p \in Extra : SendPrompt(p, s)) \/ (\E k \in Stops : StopCall(k, s)) \/
                (\E r \in {"ok", "err"} : AgentFinishes(s, r))
         PROVE  ConsentInv'
    BY <1>2, <1>11
       DEF Spawn, RunStep, Insert, IndexStarted, StartTasks, LoopEnds, WriterFails,
           AgentReads, AgentDies, SendPrompt, StopCall, AgentFinishes
  <1>12. ASSUME NEW p \in Prompts, PromptStep(p) PROVE ConsentInv'
    BY <1>2, <1>12 DEF PromptStep, LockForPrompt, Request, Answered
  <1>13. ASSUME NEW k \in Stops, StopStep(k) PROVE ConsentInv'
    BY <1>2, <1>13 DEF StopStep, NotifyCancel, Unlist, IndexStopped
  <1>14. CASE UNCHANGED vars
    BY <1>2, <1>14 DEF vars
  <1> QED
    BY <1>3, <1>4, <1>5, <1>6, <1>7, <1>8, <1>9, <1>10, <1>11, <1>12, <1>13, <1>14
       DEF Next, LoopStep

AgentInv == TypeOK /\ QueueInv /\ StartInv /\ ConsentInv

LEMMA AgentInvHolds == Spec => []AgentInv
  <1>1. Init => AgentInv
    <2> SUFFICES ASSUME Init PROVE AgentInv
      OBVIOUS
    <2>1. TypeOK
      BY DEF Init, TypeOK, Prompts, Tasks
    <2>2. QueueInv
      BY NamesAreNew DEF Init, QueueInv, MutexInv, HomeInv, InboundInv
    <2>3. StartInv
      BY DEF Init, StartInv, Prompts
    <2>4. ASSUME NEW c \in Calls PROVE CallInv(c)
      BY DEF Init, CallInv
    <2>5. ASSUME NEW a \in Approvals PROVE ApproveInv(a)
      BY DEF Init, ApproveInv
    <2> QED
      BY <2>1, <2>2, <2>3, <2>4, <2>5 DEF AgentInv, ConsentInv
  <1>2. AgentInv /\ [Next]_vars => AgentInv'
    BY StepTypeOK, StepQueues, StepStart, StepConsent DEF AgentInv, QueueInv, ConsentInv
  <1> QED
    BY <1>1, <1>2, PTL DEF Spec

\* Types of the daemon's state.
THEOREM AgentTypeCorrect == Spec => []TypeOK
  BY AgentInvHolds, PTL DEF AgentInv

\* An approval that was answered ok has let its call through, alone.
THEOREM ApprovedIsAllowed == Spec => []OkMeansAllowed
  <1>1. AgentInv => OkMeansAllowed
    <2> SUFFICES ASSUME AgentInv, NEW a \in Approvals, NEW b \in Approvals, approve[a].ok
                 PROVE  /\ waker[approve[a].token] = "allow"
                        /\ decision[approve[a].token] \in {None, "allow"}
                        /\ approve[b].ok /\ approve[b].token = approve[a].token => a = b
      BY DEF OkMeansAllowed
    <2>1. ApproveInv(a)
      BY DEF AgentInv, ConsentInv
    <2>2. approve[a].token \in Calls /\ waker[approve[a].token] = "allow"
      BY <2>1 DEF ApproveInv, AgentInv, TypeOK
    <2>3. CallInv(approve[a].token)
      BY <2>2 DEF AgentInv, ConsentInv
    <2>4. decision[approve[a].token] \in {None, "allow"}
      BY <2>2, <2>3, NamesAreNew DEF CallInv
    <2> QED
      BY <2>1, <2>2, <2>4 DEF ApproveInv
  <1> QED
    BY <1>1, AgentInvHolds, PTL

\* Who approved a call, and that it was parked, is on record.
THEOREM ApprovalsAreOnRecord == Spec => []ApprovalIsAudited
  <1>1. AgentInv => ApprovalIsAudited
    <2> SUFFICES ASSUME AgentInv, NEW a \in Approvals, approve[a].ok, approve[a].at = "done"
                 PROVE  /\ <<approve[a].token, "parked">> \in audit
                        /\ <<approve[a].token, "approved">> \in audit
      BY DEF ApprovalIsAudited
    <2>1. ApproveInv(a)
      BY DEF AgentInv, ConsentInv
    <2>2. approve[a].token \in Calls /\ waker[approve[a].token] # None
      BY <2>1, NamesAreNew DEF ApproveInv
    <2>3. CallInv(approve[a].token)
      BY <2>2 DEF AgentInv, ConsentInv
    <2> QED
      BY <2>1, <2>2, <2>3 DEF ApproveInv, CallInv
  <1> QED
    BY <1>1, AgentInvHolds, PTL

\* No step lets a token past its time to live wake a call with Allow.
THEOREM ExpiredTokensAreDead == Spec => ExpiredNeverAllows
  <1> DEFINE Step == \A c \in Calls : waker[c] # "allow" /\ waker'[c] = "allow" => c \notin expired
  <1>1. TypeOK /\ [Next]_vars => [Step]_vars
    <2> SUFFICES ASSUME TypeOK, Next, NEW c \in Calls, waker[c] # "allow",
                        waker'[c] = "allow"
                 PROVE  c \notin expired
      OBVIOUS
    <2> USE DEF sessionVars, childVars, promptVars, callVars, consentVars, agentVars
    <2>1. CASE UNCHANGED waker
      BY <2>1
    <2>2. ASSUME NEW s \in Sessions, NEW d \in Calls, ResolvePermission(s, d)
          PROVE  c \notin expired
      <3>1. UNCHANGED waker \/ waker' = [e \in Calls |-> IF e \in store \intersect expired
                                                        THEN "dropped" ELSE waker[e]]
        BY <2>2 DEF ResolvePermission, Ask, Issue
      <3> QED
        BY <3>1
    <2>3. ASSUME NEW a \in Approvals, DecideToken(a) PROVE c \notin expired
      <3>1. c = approve[a].token /\ approve[a].token \in store \ expired
        BY <2>3 DEF DecideToken, TypeOK
      <3> QED
        BY <3>1
    <2>4. ASSUME NEW a \in Approvals, AuditApproval(a) \/ \E d \in Calls : Snapshot(a, d)
          PROVE  UNCHANGED waker
      BY <2>4 DEF AuditApproval, Snapshot
    <2>5. ASSUME NEW s \in Sessions, LoopEnds(s) \/ AskReturns(s) \/ ConsentArrives(s) \/
                 LockForAnswer(s) \/ Respond(s) \/ (\E d \in Calls : Refuse(s, d))
          PROVE  UNCHANGED waker
      BY <2>5 DEF LoopEnds, AskReturns, ConsentArrives, LockForAnswer, Respond, Refuse
    <2>6. ASSUME NEW s \in Sessions, Spawn(s) \/ RunStep(s) \/ WriterFails(s) \/
                 AgentReads(s) \/ AgentDies(s) \/ (\E p \in Extra : SendPrompt(p, s)) \/
                 (\E k \in Stops : StopCall(k, s)) \/ (\E d \in Calls : AgentAsks(s, d)) \/
                 (\E r \in {"ok", "err"} : AgentFinishes(s, r))
          PROVE  UNCHANGED waker
      BY <2>6
         DEF Spawn, RunStep, Insert, IndexStarted, StartTasks, WriterFails, AgentReads,
             AgentDies, SendPrompt, StopCall, AgentAsks, AgentFinishes
    <2>7. ASSUME NEW p \in Prompts, PromptStep(p) PROVE UNCHANGED waker
      BY <2>7 DEF PromptStep, LockForPrompt, Request, Answered
    <2>8. ASSUME NEW k \in Stops, StopStep(k) PROVE UNCHANGED waker
      BY <2>8 DEF StopStep, NotifyCancel, Unlist, IndexStopped
    <2>9. ASSUME NEW d \in Calls, Expire(d) PROVE UNCHANGED waker
      BY <2>9 DEF Expire
    <2> QED
      BY <2>1, <2>2, <2>3, <2>4, <2>5, <2>6, <2>7, <2>8, <2>9
         DEF Next, LoopStep, ApproveStep
  <1> QED
    BY <1>1, AgentTypeCorrect, PTL DEF Spec, ExpiredNeverAllows

-----------------------------------------------------------------------------
(* The daemon implements the gate of ConsentGate. *)

\* The abstract stages and grants.
GateStages == [c \in Calls |-> GateStage(c)]
GateGrants == [a \in Approvals |-> IF approve[a].ok THEN approve[a].token ELSE None]

\* A step that leaves each call at its stage, and what was granted, shows
\* nothing of itself at the gate.
LEMMA GateStutters ==
    ASSUME UNCHANGED <<expired, decision>>,
           \A c \in Calls : GateStage(c)' = GateStage(c),
           \A a \in Approvals :
              /\ approve'[a].ok <=> approve[a].ok
              /\ approve[a].ok => approve'[a].token = approve[a].token
    PROVE  UNCHANGED Gate!gateVars
  <1>1. GateStages' = GateStages
    BY DEF GateStages
  <1>2. GateGrants' = GateGrants
    BY DEF GateGrants
  <1> QED
    BY <1>1, <1>2 DEF GateStages, GateGrants, Gate!gateVars

\* The approvals stay, and one call moves.
LEMMA GateMoves ==
    ASSUME NEW c \in Calls, UNCHANGED approve,
           \A d \in Calls \ {c} : call'[d] = call[d] /\ waker'[d] = waker[d]
    PROVE  GateStages' = [GateStages EXCEPT ![c] = GateStage(c)'] /\ GateGrants' = GateGrants
  BY DEF GateStages, GateGrants, GateStage

\* A call that was never opened is ruled on.
LEMMA RulingMaps ==
    ASSUME TypeOK, NEW c \in Calls, NEW v \in {"allow", "deny", "refuse"},
           call[c] \in {"asked", "notified"}, Decide(c, v),
           UNCHANGED <<expired, waker, approve>>
    PROVE  Gate!Rule(c)
  <1>1. /\ \A d \in Calls \ {c} : call'[d] = call[d]
        /\ call'[c] = "decided" /\ decision' = [decision EXCEPT ![c] = v]
    BY DEF Decide, TypeOK
  <1>2. GateStages' = [GateStages EXCEPT ![c] = "settled"] /\ GateGrants' = GateGrants
    <2>1. GateStage(c)' = "settled"
      BY <1>1 DEF GateStage
    <2> QED
      BY <1>1, <2>1, GateMoves
  <1>3. GateStages[c] \in {"new", "asking"}
    BY DEF GateStages, GateStage
  <1> QED
    BY <1>1, <1>2, <1>3 DEF Gate!Rule, Gate!Settle, GateStages, GateGrants

\* The inbound loop takes a request for permission.
LEMMA PermissionMaps ==
    ASSUME TypeOK, ConsentInv, NEW s \in Sessions, NEW c \in Calls, call[c] = "asked",
           ResolvePermission(s, c)
    PROVE  Gate!GateNext
  <1>0. UNCHANGED <<expired, approve>>
    BY DEF ResolvePermission
  <1>1. CASE Ask(c)
    <2>1. /\ \A d \in Calls \ {c} : call'[d] = call[d]
          /\ call'[c] = "notified" /\ UNCHANGED <<decision, waker>>
      BY <1>1 DEF Ask, TypeOK
    <2>2. GateStages' = [GateStages EXCEPT ![c] = "asking"] /\ GateGrants' = GateGrants
      <3>1. GateStage(c)' = "asking"
        BY <2>1 DEF GateStage
      <3> QED
        BY <1>0, <2>1, <3>1, GateMoves
    <2>3. GateStages[c] = "new"
      BY DEF GateStages, GateStage
    <2>4. Gate!Consult(c)
      BY <1>0, <2>1, <2>2, <2>3 DEF Gate!Consult, GateStages, GateGrants
    <2> QED
      BY <2>4 DEF Gate!GateNext
  <1>2. ASSUME NEW v \in {"allow", "deny", "refuse"}, Decide(c, v), UNCHANGED waker
        PROVE  Gate!GateNext
    <2>1. Gate!Rule(c)
      BY <1>0, <1>2, RulingMaps
    <2> QED
      BY <2>1 DEF Gate!GateNext
  <1>3. CASE call' = [call EXCEPT ![c] = "parked"] /\ Issue(c) /\ UNCHANGED decision
    <2> DEFINE S == store \intersect expired
    <2>1. /\ \A d \in Calls \ {c} : call'[d] = call[d]
          /\ call'[c] = "parked"
          /\ \A d \in Calls : waker'[d] = IF d \in S THEN "dropped" ELSE waker[d]
      BY <1>3 DEF Issue, TypeOK
    <2>2. c \notin store /\ waker[c] = None
      BY DEF ConsentInv, CallInv
    <2>3. S \in SUBSET {d \in expired : GateStages[d] = "open"}
      BY DEF ConsentInv, CallInv, TypeOK, GateStages, GateStage
    <2>4. GateStages' = [d \in Calls |-> IF d = c THEN "open"
                                         ELSE IF d \in S THEN "lapsed" ELSE GateStages[d]]
      <3>1. ASSUME NEW d \in Calls
            PROVE  GateStage(d)' = IF d = c THEN "open"
                                   ELSE IF d \in S THEN "lapsed" ELSE GateStages[d]
        <4>1. CASE d = c
          BY <2>1, <2>2, <4>1 DEF GateStage
        <4>2. CASE d # c /\ d \in S
          <5>1. call'[d] = "parked" /\ waker'[d] = "dropped"
            BY <2>1, <4>2 DEF ConsentInv, CallInv
          <5> QED
            BY <4>2, <5>1, NamesAreNew DEF GateStage
        <4>3. CASE d # c /\ d \notin S
          BY <2>1, <4>3 DEF GateStage, GateStages
        <4> QED
          BY <4>1, <4>2, <4>3
      <3> QED
        BY <3>1 DEF GateStages
    <2>5. GateStages[c] = "new" /\ GateGrants' = GateGrants
      BY <1>0 DEF GateStages, GateStage, GateGrants
    <2>6. Gate!OpenFor(c)
      <3> HIDE DEF S
      <3> QED
        BY <1>0, <1>3, <2>3, <2>4, <2>5 DEF Gate!OpenFor, GateStages, GateGrants
    <2> QED
      BY <2>6 DEF Gate!GateNext
  <1>4. ASSUME NEW profile \in Profiles
        PROVE  Verdict(profile) \in {"allow", "deny", "consent"}
    BY DEF Verdict
  <1> QED
    BY <1>1, <1>2, <1>3, <1>4 DEF ResolvePermission

\* ConsentStore::decide grants, lapses, or finds nothing to decide.
LEMMA DecisionMaps ==
    ASSUME TypeOK, ConsentInv, NEW a \in Approvals, DecideToken(a)
    PROVE  [Gate!GateNext]_Gate!gateVars
  <1>0. PICK c \in Calls : c = approve[a].token
    BY DEF DecideToken, ConsentInv, ApproveInv
  <1> DEFINE live == c \in store \ expired
  <1>1. /\ approve[a].at = "looked" /\ ~approve[a].ok
        /\ approve' = [approve EXCEPT ![a] = [at |-> "decided", token |-> c, ok |-> live,
                                              seen |-> approve[a].seen]]
        /\ UNCHANGED <<call, decision, expired>>
    BY <1>0 DEF DecideToken, ConsentInv, ApproveInv, callVars
  <1>2. /\ \A d \in Calls \ {c} : waker'[d] = waker[d]
        /\ waker'[c] = IF live THEN "allow" ELSE IF c \in store THEN "dropped" ELSE waker[c]
    BY <1>0, <1>1 DEF DecideToken, TypeOK
  <1>3. /\ \A b \in Approvals \ {a} : approve'[b] = approve[b]
        /\ (approve'[a].ok <=> live) /\ approve'[a].token = c
    BY <1>1 DEF TypeOK
  <1>4. c \in store => call[c] = "parked" /\ waker[c] = None
    BY <1>1 DEF ConsentInv, CallInv
  <1>5. CASE live
    <2>1. GateStages' = [GateStages EXCEPT ![c] = "granted"]
      <3>1. GateStage(c)' = "granted"
        BY <1>1, <1>2, <1>4, <1>5, NamesAreNew DEF GateStage
      <3>2. \A d \in Calls \ {c} : GateStage(d)' = GateStage(d)
        BY <1>1, <1>2 DEF GateStage
      <3> QED
        BY <3>1, <3>2 DEF GateStages
    <2>2. GateGrants[a] = None /\ GateGrants' = [GateGrants EXCEPT ![a] = c]
      <3>1. approve'[a].ok /\ approve'[a].token = c /\ ~approve[a].ok
        BY <1>1, <1>3, <1>5
      <3>2. GateGrants[a] = None
        BY <3>1 DEF GateGrants
      <3>3. GateGrants' = [b \in Approvals |-> IF b = a THEN c ELSE GateGrants[b]]
        BY <1>3, <3>1 DEF GateGrants
      <3> QED
        BY <3>2, <3>3 DEF GateGrants
    <2>3. GateStages[c] = "open" /\ c \notin expired
      BY <1>1, <1>4, <1>5 DEF GateStages, GateStage
    <2>4. Gate!Grant(a, c)
      BY <1>1, <2>1, <2>2, <2>3 DEF Gate!Grant, GateStages, GateGrants
    <2> QED
      BY <1>1, <2>4 DEF Gate!GateNext
  <1>6. CASE ~live /\ c \in store
    <2>1. GateStages' = [GateStages EXCEPT ![c] = "lapsed"]
      <3>1. GateStage(c)' = "lapsed"
        BY <1>1, <1>2, <1>4, <1>6, NamesAreNew DEF GateStage
      <3>2. \A d \in Calls \ {c} : GateStage(d)' = GateStage(d)
        BY <1>1, <1>2 DEF GateStage
      <3> QED
        BY <3>1, <3>2 DEF GateStages
    <2>2. GateGrants' = GateGrants
      BY <1>1, <1>3, <1>6 DEF GateGrants
    <2>3. GateStages[c] = "open" /\ c \in expired
      BY <1>1, <1>4, <1>6 DEF GateStages, GateStage
    <2>4. Gate!Lapse(c)
      BY <1>1, <2>1, <2>2, <2>3 DEF Gate!Lapse, GateStages, GateGrants
    <2> QED
      BY <1>1, <2>4 DEF Gate!GateNext
  <1>7. CASE c \notin store
    <2>1. \A d \in Calls : GateStage(d)' = GateStage(d)
      BY <1>1, <1>2, <1>7 DEF GateStage
    <2>2. \A b \in Approvals :
             /\ approve'[b].ok <=> approve[b].ok
             /\ approve[b].ok => approve'[b].token = approve[b].token
      BY <1>1, <1>3, <1>7
    <2> QED
      BY <1>1, <2>1, <2>2, GateStutters
  <1> QED
    BY <1>5, <1>6, <1>7

LEMMA GateStepMaps ==
    ASSUME TypeOK, QueueInv, ConsentInv, [Next]_vars
    PROVE  [Gate!GateNext]_Gate!gateVars
  <1> USE DEF sessionVars, childVars, promptVars, callVars, consentVars, agentVars
  <1>1. ASSUME NEW s \in Sessions, NEW c \in Calls, Takes(s, c) PROVE call[c] = "asked"
    <2>1. /\ inbound[s] \in Seq(Calls \union {"closed"}) /\ inbound[s] # <<>>
          /\ Head(inbound[s]) = c
      BY <1>1 DEF Takes, TypeOK
    <2>2. 1 \in 1 .. Len(inbound[s]) /\ inbound[s][1] = c
      BY <2>1
    <2> QED
      BY <2>2 DEF QueueInv, InboundInv
  <1>2. CASE UNCHANGED <<call, decision, expired, waker, approve>>
    BY <1>2, GateStutters DEF GateStage
  <1>3. ASSUME NEW s \in Sessions, NEW c \in Calls, Refuse(s, c) PROVE Gate!GateNext
    <2>1. Gate!Rule(c)
      BY <1>1, <1>3, RulingMaps DEF Refuse
    <2> QED
      BY <2>1 DEF Gate!GateNext
  <1>4. ASSUME NEW s \in Sessions, NEW c \in Calls, ResolvePermission(s, c)
        PROVE  Gate!GateNext
    <2>1. call[c] = "asked"
      BY <1>1, <1>4 DEF ResolvePermission
    <2> QED
      BY <1>4, <2>1, PermissionMaps
  <1>5. ASSUME NEW s \in Sessions, AskReturns(s) PROVE Gate!GateNext
    <2>1. PICK c \in Calls, d \in {"allow", "deny"} :
             /\ call[c] = "notified" /\ Decide(c, d)
             /\ UNCHANGED <<expired, waker, approve>>
      BY <1>5 DEF AskReturns
    <2>2. Gate!Rule(c)
      BY <2>1, RulingMaps
    <2> QED
      BY <2>2 DEF Gate!GateNext
  <1>6. ASSUME NEW s \in Sessions, ConsentArrives(s) PROVE Gate!GateNext
    <2>1. PICK c \in Calls :
             /\ call[c] = "parked" /\ waker[c] # None
             /\ Decide(c, IF waker[c] = "allow" THEN "allow" ELSE "deny")
             /\ UNCHANGED <<expired, waker, approve>>
      BY <1>6 DEF ConsentArrives
    <2>2. /\ \A d \in Calls \ {c} : call'[d] = call[d]
          /\ call'[c] = "decided"
          /\ decision' = [decision EXCEPT ![c] = IF waker[c] = "allow" THEN "allow" ELSE "deny"]
      BY <2>1 DEF Decide, TypeOK
    <2>3. GateStages' = [GateStages EXCEPT ![c] = "settled"] /\ GateGrants' = GateGrants
      <3>1. GateStage(c)' = "settled"
        BY <2>2 DEF GateStage
      <3> QED
        BY <2>1, <2>2, <3>1, GateMoves
    <2>4. GateStages[c] = IF waker[c] = "allow" THEN "granted" ELSE "lapsed"
      BY <2>1 DEF GateStages, GateStage
    <2>5. Gate!Conclude(c)
      BY <2>1, <2>2, <2>3, <2>4 DEF Gate!Conclude, Gate!Settle, GateStages, GateGrants
    <2> QED
      BY <2>5 DEF Gate!GateNext
  <1>7. ASSUME NEW s \in Sessions,
               LockForAnswer(s) \/ Respond(s) \/ (\E c \in Calls : AgentAsks(s, c))
        PROVE  UNCHANGED Gate!gateVars
    <2>1. PICK c \in Calls :
             /\ \/ call[c] = "decided" /\ call' = [call EXCEPT ![c] = "queued"]
                \/ call[c] = "queued" /\ call' = [call EXCEPT ![c] = "answered"]
                \/ call[c] = "no" /\ call' = [call EXCEPT ![c] = "asked"]
             /\ UNCHANGED <<decision, expired, waker, approve>>
      BY <1>7 DEF LockForAnswer, Respond, AgentAsks
    <2>2. \A d \in Calls : GateStage(d)' = GateStage(d)
      BY <2>1 DEF GateStage, TypeOK
    <2> QED
      BY <2>1, <2>2, GateStutters
  <1>8. ASSUME NEW c \in Calls, Expire(c) PROVE Gate!GateNext
    <2>1. /\ c \in store \ expired /\ expired' = expired \union {c}
          /\ UNCHANGED <<call, decision, waker, approve>>
      BY <1>8 DEF Expire
    <2>2. GateStages' = GateStages /\ GateGrants' = GateGrants
      BY <2>1 DEF GateStages, GateGrants, GateStage
    <2>3. GateStages[c] = "open"
      BY <2>1 DEF GateStages, GateStage, ConsentInv, CallInv
    <2>4. Gate!Age(c)
      BY <2>1, <2>2, <2>3 DEF Gate!Age, GateStages, GateGrants
    <2> QED
      BY <2>4 DEF Gate!GateNext
  <1>9. ASSUME NEW a \in Approvals, AuditApproval(a) \/ \E c \in Calls : Snapshot(a, c)
        PROVE  UNCHANGED Gate!gateVars
    <2>1. UNCHANGED <<call, decision, waker, expired>>
      BY <1>9 DEF AuditApproval, Snapshot
    <2>2. /\ \A b \in Approvals \ {a} : approve'[b] = approve[b]
          /\ approve'[a].ok <=> approve[a].ok
          /\ approve[a].ok => approve'[a].token = approve[a].token
      <3>1. CASE AuditApproval(a)
        BY <3>1 DEF AuditApproval, TypeOK
      <3>2. CASE \E c \in Calls : Snapshot(a, c)
        <4>1. approve[a].at = "no" /\ ~approve[a].ok
          BY <3>2 DEF Snapshot, ConsentInv, ApproveInv
        <4>2. PICK c \in Calls :
                 approve' = [approve EXCEPT ![a] = [at |-> "looked", token |-> c, ok |-> FALSE,
                                                    seen |-> c \in store \ expired]]
          BY <3>2 DEF Snapshot
        <4>3. ~approve'[a].ok /\ \A b \in Approvals \ {a} : approve'[b] = approve[b]
          BY <4>2 DEF TypeOK
        <4> QED
          BY <4>1, <4>3
      <3> QED
        BY <1>9, <3>1, <3>2
    <2> QED
      BY <2>1, <2>2, GateStutters DEF GateStage
  <1>10. ASSUME NEW s \in Sessions, Spawn(s) \/ RunStep(s) \/ LoopEnds(s) \/
                WriterFails(s) \/ AgentReads(s) \/ AgentDies(s) \/
                (\E p \in Extra : SendPrompt(p, s)) \/ (\E k \in Stops : StopCall(k, s)) \/
                (\E r \in {"ok", "err"} : AgentFinishes(s, r))
         PROVE  [Gate!GateNext]_Gate!gateVars
    BY <1>2, <1>10
       DEF Spawn, RunStep, Insert, IndexStarted, StartTasks, LoopEnds, WriterFails,
           AgentReads, AgentDies, SendPrompt, StopCall, AgentFinishes
  <1>11. ASSUME NEW p \in Prompts, PromptStep(p) PROVE [Gate!GateNext]_Gate!gateVars
    BY <1>2, <1>11 DEF PromptStep, LockForPrompt, Request, Answered
  <1>12. ASSUME NEW k \in Stops, StopStep(k) PROVE [Gate!GateNext]_Gate!gateVars
    BY <1>2, <1>12 DEF StopStep, NotifyCancel, Unlist, IndexStopped
  <1>13. CASE UNCHANGED vars
    BY <1>2, <1>13 DEF vars
  <1> QED
    BY <1>3, <1>4, <1>5, <1>6, <1>7, <1>8, <1>9, <1>10, <1>11, <1>12, <1>13, DecisionMaps
       DEF Next, LoopStep, ApproveStep

\* The daemon implements the gate: one verdict for each call, one approval at
\* most behind it, given in time, and never turned into a denial.
THEOREM DaemonImplementsConsent == Spec => ImplementsConsent
  <1>1. Init => Gate!GateInit
    BY DEF Init, Gate!GateInit, GateStage
  <1>2. AgentInv /\ [Next]_vars => [Gate!GateNext]_Gate!gateVars
    BY GateStepMaps DEF AgentInv
  <1> QED
    BY <1>1, <1>2, AgentInvHolds, PTL DEF Spec, ImplementsConsent, Gate!GateSpec

-----------------------------------------------------------------------------
(* The index of the sessions. *)

\* index.json has the keys of the sessions map but while a write is due.
THEOREM IndexIsCurrent == Spec => []IndexMatchesSessions
  <1>1. Init => IndexMatchesSessions
    BY DEF Init, IndexMatchesSessions
  <1>2. TypeOK /\ IndexMatchesSessions /\ [Next]_vars => IndexMatchesSessions'
    <2> SUFFICES ASSUME TypeOK, IndexMatchesSessions, [Next]_vars,
                        \A s \in Sessions : run'[s] # "inserted",
                        \A k \in Stops : stop'[k] # "removed"
                 PROVE  index' = listed'
      BY DEF IndexMatchesSessions
    <2> USE DEF sessionVars, childVars, promptVars, callVars, consentVars, agentVars
    <2>1. CASE UNCHANGED <<run, listed, index, stop>>
      BY <2>1 DEF IndexMatchesSessions
    <2>2. ASSUME NEW s \in Sessions, run[s] # "inserted", UNCHANGED <<listed, index, stop>>,
                 \A q \in Sessions : q # s => run'[q] = run[q]
          PROVE  index' = listed'
      BY <2>2 DEF IndexMatchesSessions
    <2>3. ASSUME NEW k \in Stops, stop[k] # "removed", UNCHANGED <<listed, index, run>>,
                 \A j \in Stops : j # k => stop'[j] = stop[j]
          PROVE  index' = listed'
      BY <2>3 DEF IndexMatchesSessions
    <2>4. ASSUME NEW s \in Sessions, Spawn(s) PROVE index' = listed'
      BY <2>2, <2>4 DEF Spawn, TypeOK
    <2>5. ASSUME NEW s \in Sessions, Insert(s) PROVE index' = listed'
      <3>1. CASE run' = [run EXCEPT ![s] = "inserted"]
        BY <3>1 DEF TypeOK
      <3>2. CASE run' = [run EXCEPT ![s] = "failed"] /\ UNCHANGED listed
        BY <2>2, <2>5, <3>2 DEF Insert, TypeOK
      <3> QED
        BY <2>5, <3>1, <3>2 DEF Insert
    <2>6. ASSUME NEW s \in Sessions, IndexStarted(s) PROVE index' = listed'
      BY <2>6 DEF IndexStarted, WriteIndex
    <2>7. ASSUME NEW s \in Sessions, StartTasks(s) PROVE index' = listed'
      BY <2>2, <2>7 DEF StartTasks, TypeOK
    <2>8. ASSUME NEW s \in Sessions, NEW k \in Stops, StopCall(k, s) PROVE index' = listed'
      <3>1. /\ UNCHANGED <<listed, index, run>> /\ stop[k] # "removed"
            /\ \A j \in Stops : j # k => stop'[j] = stop[j]
        BY <2>8 DEF StopCall, TypeOK
      <3> QED
        BY <2>3, <3>1
    <2>9. ASSUME NEW k \in Stops, NotifyCancel(k) PROVE index' = listed'
      BY <2>3, <2>9 DEF NotifyCancel, TypeOK
    <2>10. ASSUME NEW k \in Stops, Unlist(k) PROVE index' = listed'
      BY <2>10 DEF Unlist, TypeOK
    <2>11. ASSUME NEW k \in Stops, IndexStopped(k) PROVE index' = listed'
      BY <2>11 DEF IndexStopped, WriteIndex
    <2>12. ASSUME NEW s \in Sessions, LoopStep(s)
           PROVE  UNCHANGED <<run, listed, index, stop>>
      BY <2>12
         DEF LoopStep, LoopEnds, Refuse, ResolvePermission, AskReturns, ConsentArrives,
             LockForAnswer, Respond
    <2>13. ASSUME NEW s \in Sessions, WriterFails(s) \/ AgentReads(s) \/ AgentDies(s) \/
                  (\E p \in Extra : SendPrompt(p, s)) \/ (\E c \in Calls : AgentAsks(s, c)) \/
                  (\E r \in {"ok", "err"} : AgentFinishes(s, r))
           PROVE  UNCHANGED <<run, listed, index, stop>>
      BY <2>13 DEF WriterFails, AgentReads, AgentDies, SendPrompt, AgentAsks, AgentFinishes
    <2>14. ASSUME NEW p \in Prompts, PromptStep(p)
           PROVE  UNCHANGED <<run, listed, index, stop>>
      BY <2>14 DEF PromptStep, LockForPrompt, Request, Answered
    <2>15. ASSUME NEW c \in Calls, Expire(c) PROVE UNCHANGED <<run, listed, index, stop>>
      BY <2>15 DEF Expire
    <2>16. ASSUME NEW a \in Approvals, ApproveStep(a) \/ \E c \in Calls : Snapshot(a, c)
           PROVE  UNCHANGED <<run, listed, index, stop>>
      BY <2>16 DEF ApproveStep, DecideToken, AuditApproval, Snapshot
    <2>17. CASE UNCHANGED vars
      BY <2>1, <2>17 DEF vars
    <2> QED
      BY <2>1, <2>4, <2>5, <2>6, <2>7, <2>8, <2>9, <2>10, <2>11, <2>12, <2>13, <2>14,
         <2>15, <2>16, <2>17
         DEF Next, RunStep, StopStep
  <1> QED
    BY <1>1, <1>2, AgentTypeCorrect, PTL DEF Spec

-----------------------------------------------------------------------------
(* The tail of a session.  What is on its way to the client is one         *)
(* sequence: the frames on the wire, those in the task's hands, and the    *)
(* subscriber's channel.                                                   *)

Pipe(t) == wire[t] \o todo[t] \o chan[t]

\* P brings the entries after the first n, up to top, each once and in order,
\* and a Closed of the session between the entries before it and after it.
FlowOf(P, n, top) ==
    /\ n <= top
    /\ \A i \in 1 .. Len(P) : P[i][1] = "entry" => \E m \in n + 1 .. top : P[i] = Entry(m)
    /\ \A m \in n + 1 .. top : \E i \in 1 .. Len(P) : P[i] = Entry(m)
    /\ \A i, j \in 1 .. Len(P) : \A m, k \in Nat :
          P[i] = Entry(m) /\ P[j] = Entry(k) /\ m <= k => i <= j
    /\ \A i \in 1 .. Len(P) : \A c \in Nat : P[i] = Closed(c) =>
          /\ c \in n .. top
          /\ \A j \in 1 .. Len(P) : \A m \in Nat : P[j] = Entry(m) => (m <= c <=> j < i)

\* What the frames are, and are not.
LEMMA FramesDiffer ==
    /\ \A m, n : Entry(m) = Entry(n) => m = n
    /\ \A m, n : Closed(m) = Closed(n) => m = n
    /\ \A m, n : Entry(m) # Closed(n)
    /\ \A m : Entry(m)[1] = "entry" /\ Entry(m)[2] = m
    /\ \A m : Closed(m)[1] = "closed" /\ Closed(m)[2] = m
    /\ Status[1] = "status" /\ NotFound[1] = "error"
  BY DEF Entry, Closed, Status, NotFound

\* A frame that is neither an entry nor the end of the session.
LEMMA FlowAppendsOther ==
    ASSUME NEW S, NEW P \in Seq(S), NEW n \in Nat, NEW top \in Nat, FlowOf(P, n, top),
           NEW x \in S, x[1] # "entry", \A c \in Nat : x # Closed(c)
    PROVE  FlowOf(Append(P, x), n, top)
  <1> DEFINE Q == Append(P, x)
  <1>1. /\ Len(P) \in Nat /\ Len(Q) = Len(P) + 1 /\ Q[Len(P) + 1] = x
        /\ \A i \in 1 .. Len(P) : Q[i] = P[i]
    OBVIOUS
  <1>2. \A m : x # Entry(m)
    BY FramesDiffer
  <1> HIDE DEF Q
  <1>3. \A i \in 1 .. Len(Q) : i \in 1 .. Len(P) \/ i = Len(P) + 1
    BY <1>1
  <1>4. \A m \in n + 1 .. top : \E i \in 1 .. Len(Q) : Q[i] = Entry(m)
    BY <1>1 DEF FlowOf
  <1>5. \A i \in 1 .. Len(Q) : Q[i][1] = "entry" => \E m \in n + 1 .. top : Q[i] = Entry(m)
    BY <1>1, <1>3 DEF FlowOf
  <1>6. \A i, j \in 1 .. Len(Q) : \A m, k \in Nat :
           Q[i] = Entry(m) /\ Q[j] = Entry(k) /\ m <= k => i <= j
    BY <1>1, <1>2, <1>3 DEF FlowOf
  <1>7. \A i \in 1 .. Len(Q) : \A c \in Nat : Q[i] = Closed(c) =>
           /\ c \in n .. top
           /\ \A j \in 1 .. Len(Q) : \A m \in Nat : Q[j] = Entry(m) => (m <= c <=> j < i)
    BY <1>1, <1>2, <1>3 DEF FlowOf
  <1>8. n <= top
    BY DEF FlowOf
  <1> QED
    BY <1>4, <1>5, <1>6, <1>7, <1>8 DEF FlowOf, Q

\* The next entry.
LEMMA FlowAppendsEntry ==
    ASSUME NEW S, NEW P \in Seq(S), NEW n \in Nat, NEW top \in Nat, FlowOf(P, n, top),
           Entry(top + 1) \in S
    PROVE  FlowOf(Append(P, Entry(top + 1)), n, top + 1)
  <1> DEFINE Q == Append(P, Entry(top + 1))
  <1>1. /\ Len(P) \in Nat /\ Len(Q) = Len(P) + 1 /\ Q[Len(P) + 1] = Entry(top + 1)
        /\ \A i \in 1 .. Len(P) : Q[i] = P[i]
    OBVIOUS
  <1> HIDE DEF Q
  <1>2. n <= top + 1
    BY DEF FlowOf
  <1>3. \A i \in 1 .. Len(Q) : i \in 1 .. Len(P) \/ i = Len(P) + 1
    BY <1>1
  <1>4. \A m \in n + 1 .. top + 1 : \E i \in 1 .. Len(Q) : Q[i] = Entry(m)
    <2> TAKE m \in n + 1 .. top + 1
    <2>1. CASE m = top + 1
      BY <1>1, <2>1
    <2>2. CASE m \in n + 1 .. top
      <3>1. PICK i \in 1 .. Len(P) : P[i] = Entry(m)
        BY <2>2 DEF FlowOf
      <3> QED
        BY <1>1, <3>1
    <2> QED
      BY <2>1, <2>2
  <1>5. \A i \in 1 .. Len(Q) : Q[i][1] = "entry" => \E m \in n + 1 .. top + 1 : Q[i] = Entry(m)
    <2> TAKE i \in 1 .. Len(Q)
    <2>1. CASE i = Len(P) + 1
      <3>1. top + 1 \in n + 1 .. top + 1 /\ Q[i] = Entry(top + 1)
        BY <1>1, <2>1 DEF FlowOf
      <3> QED
        BY <3>1
    <2>2. CASE i \in 1 .. Len(P)
      <3>1. ASSUME P[i][1] = "entry" PROVE \E m \in n + 1 .. top + 1 : P[i] = Entry(m)
        <4>1. PICK m \in n + 1 .. top : P[i] = Entry(m)
          BY <2>2, <3>1 DEF FlowOf
        <4>2. m \in n + 1 .. top + 1
          OBVIOUS
        <4> QED
          BY <4>1, <4>2
      <3> QED
        BY <1>1, <2>2, <3>1
    <2> QED
      BY <1>3, <2>1, <2>2
  <1>6. ASSUME NEW i \in 1 .. Len(P), NEW m \in Nat, P[i] = Entry(m) PROVE m <= top
    <2>1. PICK k \in n + 1 .. top : P[i] = Entry(k)
      BY <1>6, FramesDiffer DEF FlowOf
    <2>2. m = k
      BY <1>6, <2>1, FramesDiffer
    <2> QED
      BY <2>2
  <1>7. \A i, j \in 1 .. Len(Q) : \A m, k \in Nat :
           Q[i] = Entry(m) /\ Q[j] = Entry(k) /\ m <= k => i <= j
    <2> TAKE i, j \in 1 .. Len(Q)
    <2> TAKE m, k \in Nat
    <2> HAVE Q[i] = Entry(m) /\ Q[j] = Entry(k) /\ m <= k
    <2>1. CASE j = Len(P) + 1
      BY <1>1, <2>1
    <2>2. CASE j \in 1 .. Len(P)
      <3>1. k <= top
        BY <1>1, <1>6, <2>2
      <3>2. i # Len(P) + 1
        BY <1>1, <3>1, FramesDiffer
      <3> QED
        BY <1>1, <1>3, <2>2, <3>2 DEF FlowOf
    <2> QED
      BY <1>3, <2>1, <2>2
  <1>8. \A i \in 1 .. Len(Q) : \A c \in Nat : Q[i] = Closed(c) =>
           /\ c \in n .. top + 1
           /\ \A j \in 1 .. Len(Q) : \A m \in Nat : Q[j] = Entry(m) => (m <= c <=> j < i)
    <2> TAKE i \in 1 .. Len(Q)
    <2> TAKE c \in Nat
    <2> HAVE Q[i] = Closed(c)
    <2>1. i \in 1 .. Len(P) /\ P[i] = Closed(c)
      BY <1>1, <1>3, FramesDiffer
    <2>2. c \in n .. top
      BY <2>1 DEF FlowOf
    <2>3. ASSUME NEW j \in 1 .. Len(Q), NEW m \in Nat, Q[j] = Entry(m)
          PROVE  m <= c <=> j < i
      <3>1. CASE j = Len(P) + 1
        <4>1. m = top + 1
          BY <1>1, <2>3, <3>1, FramesDiffer
        <4> QED
          BY <1>1, <2>1, <2>2, <3>1, <4>1
      <3>2. CASE j \in 1 .. Len(P)
        BY <1>1, <2>1, <2>3, <3>2 DEF FlowOf
      <3> QED
        BY <1>3, <3>1, <3>2
    <2>4. c \in n .. top + 1
      BY <2>2
    <2> QED
      BY <2>3, <2>4
  <1> QED
    BY <1>2, <1>4, <1>5, <1>7, <1>8 DEF FlowOf, Q

\* The end of the session, with the number of its last entry.
LEMMA FlowAppendsClosed ==
    ASSUME NEW S, NEW P \in Seq(S), NEW n \in Nat, NEW top \in Nat, FlowOf(P, n, top),
           Closed(top) \in S
    PROVE  FlowOf(Append(P, Closed(top)), n, top)
  <1> DEFINE Q == Append(P, Closed(top))
  <1>1. /\ Len(P) \in Nat /\ Len(Q) = Len(P) + 1 /\ Q[Len(P) + 1] = Closed(top)
        /\ \A i \in 1 .. Len(P) : Q[i] = P[i]
    OBVIOUS
  <1> HIDE DEF Q
  <1>2. \A i \in 1 .. Len(Q) : i \in 1 .. Len(P) \/ i = Len(P) + 1
    BY <1>1
  <1>3. \A m \in n + 1 .. top : \E i \in 1 .. Len(Q) : Q[i] = Entry(m)
    BY <1>1 DEF FlowOf
  <1>4. \A i \in 1 .. Len(Q) : Q[i][1] = "entry" => \E m \in n + 1 .. top : Q[i] = Entry(m)
    BY <1>1, <1>2, FramesDiffer DEF FlowOf
  <1>5. ASSUME NEW i \in 1 .. Len(P), NEW m \in Nat, P[i] = Entry(m) PROVE m <= top
    <2>1. PICK k \in n + 1 .. top : P[i] = Entry(k)
      BY <1>5, FramesDiffer DEF FlowOf
    <2>2. m = k
      BY <1>5, <2>1, FramesDiffer
    <2> QED
      BY <2>2
  <1>6. ASSUME NEW i \in 1 .. Len(Q), NEW m \in Nat, Q[i] = Entry(m)
        PROVE  i \in 1 .. Len(P) /\ P[i] = Entry(m)
    BY <1>1, <1>2, <1>6, FramesDiffer
  <1>7. \A i, j \in 1 .. Len(Q) : \A m, k \in Nat :
           Q[i] = Entry(m) /\ Q[j] = Entry(k) /\ m <= k => i <= j
    BY <1>6 DEF FlowOf
  <1>8. \A i \in 1 .. Len(Q) : \A c \in Nat : Q[i] = Closed(c) =>
           /\ c \in n .. top
           /\ \A j \in 1 .. Len(Q) : \A m \in Nat : Q[j] = Entry(m) => (m <= c <=> j < i)
    <2> TAKE i \in 1 .. Len(Q)
    <2> TAKE c \in Nat
    <2> HAVE Q[i] = Closed(c)
    <2>1. CASE i = Len(P) + 1
      <3>1. c = top
        BY <1>1, <2>1, FramesDiffer
      <3>2. c \in n .. top
        BY <3>1 DEF FlowOf
      <3>3. ASSUME NEW j \in 1 .. Len(Q), NEW m \in Nat, Q[j] = Entry(m)
            PROVE  m <= c <=> j < i
        BY <1>1, <1>5, <1>6, <2>1, <3>1, <3>3
      <3> QED
        BY <3>2, <3>3
    <2>2. CASE i \in 1 .. Len(P)
      BY <1>1, <1>6, <2>2 DEF FlowOf
    <2> QED
      BY <1>2, <2>1, <2>2
  <1>9. n <= top
    BY DEF FlowOf
  <1> QED
    BY <1>3, <1>4, <1>7, <1>8, <1>9 DEF FlowOf, Q

\* The client reads a frame that is not an entry.
LEMMA FlowSkips ==
    ASSUME NEW S, NEW P \in Seq(S), P # <<>>, NEW n \in Nat, NEW top \in Nat,
           FlowOf(P, n, top), Head(P)[1] # "entry"
    PROVE  FlowOf(Tail(P), n, top)
  <1> DEFINE Q == Tail(P)
  <1>1. /\ Len(P) \in Nat /\ Len(Q) = Len(P) - 1 /\ P[1] = Head(P)
        /\ \A i \in 1 .. Len(Q) : Q[i] = P[i + 1] /\ i + 1 \in 1 .. Len(P)
    OBVIOUS
  <1> HIDE DEF Q
  <1>2. \A m : P[1] # Entry(m)
    BY <1>1, FramesDiffer
  <1>3. \A m \in n + 1 .. top : \E i \in 1 .. Len(Q) : Q[i] = Entry(m)
    <2> TAKE m \in n + 1 .. top
    <2>1. PICK i \in 1 .. Len(P) : P[i] = Entry(m)
      BY DEF FlowOf
    <2>2. i # 1
      BY <1>2, <2>1
    <2>3. i - 1 \in 1 .. Len(Q) /\ Q[i - 1] = P[i]
      BY <1>1, <2>2
    <2> QED
      BY <2>1, <2>3
  <1>4. \A i \in 1 .. Len(Q) : Q[i][1] = "entry" => \E m \in n + 1 .. top : Q[i] = Entry(m)
    BY <1>1 DEF FlowOf
  <1>5. ASSUME NEW i \in 1 .. Len(Q), NEW j \in 1 .. Len(Q), NEW m \in Nat, NEW k \in Nat,
               Q[i] = Entry(m), Q[j] = Entry(k), m <= k
        PROVE  i <= j
    <2>1. i + 1 <= j + 1
      BY <1>1, <1>5 DEF FlowOf
    <2> QED
      BY <2>1
  <1>6. ASSUME NEW i \in 1 .. Len(Q), NEW c \in Nat, Q[i] = Closed(c)
        PROVE  /\ c \in n .. top
               /\ \A j \in 1 .. Len(Q) : \A m \in Nat : Q[j] = Entry(m) =>
                     (m <= c <=> j < i)
    <2>1. c \in n .. top
      BY <1>1, <1>6 DEF FlowOf
    <2>2. ASSUME NEW j \in 1 .. Len(Q), NEW m \in Nat, Q[j] = Entry(m)
          PROVE  m <= c <=> j < i
      <3>1. m <= c <=> j + 1 < i + 1
        BY <1>1, <1>6, <2>2 DEF FlowOf
      <3> QED
        BY <3>1
    <2> QED
      BY <2>1, <2>2
  <1>7. n <= top
    BY DEF FlowOf
  <1> QED
    BY <1>3, <1>4, <1>5, <1>6, <1>7 DEF FlowOf, Q

\* The first entry is the one the client waits for; it reads it.
LEMMA FlowDelivers ==
    ASSUME NEW S, NEW P \in Seq(S), P # <<>>, NEW n \in Nat, NEW top \in Nat,
           FlowOf(P, n, top), Head(P)[1] = "entry"
    PROVE  Head(P) = Entry(n + 1) /\ n + 1 <= top /\ FlowOf(Tail(P), n + 1, top)
  <1> DEFINE Q == Tail(P)
  <1>1. /\ Len(P) \in Nat /\ Len(Q) = Len(P) - 1 /\ P[1] = Head(P) /\ 1 \in 1 .. Len(P)
        /\ \A i \in 1 .. Len(Q) : Q[i] = P[i + 1] /\ i + 1 \in 1 .. Len(P)
    OBVIOUS
  <1> HIDE DEF Q
  <1>2. PICK h \in n + 1 .. top : P[1] = Entry(h)
    BY <1>1 DEF FlowOf
  <1>3. n + 1 \in n + 1 .. top
    BY <1>2
  <1>4. PICK f \in 1 .. Len(P) : P[f] = Entry(n + 1)
    BY <1>3 DEF FlowOf
  <1>5. f <= 1
    BY <1>1, <1>2, <1>4 DEF FlowOf
  <1>6. P[1] = Entry(n + 1) /\ h = n + 1
    <2>1. f = 1
      BY <1>5
    <2> QED
      BY <1>2, <1>4, <2>1, FramesDiffer
  <1>7. ASSUME NEW i \in 1 .. Len(P), NEW m \in Nat, P[i] = Entry(m), i # 1
        PROVE  m > n + 1
    <2>1. ~(i <= 1)
      BY <1>7
    <2>2. ~(m <= n + 1)
      BY <1>1, <1>6, <1>7, <2>1 DEF FlowOf
    <2> QED
      BY <2>2
  <1>8. \A m \in (n + 1) + 1 .. top : \E i \in 1 .. Len(Q) : Q[i] = Entry(m)
    <2> TAKE m \in (n + 1) + 1 .. top
    <2>1. PICK i \in 1 .. Len(P) : P[i] = Entry(m)
      BY DEF FlowOf
    <2>2. i # 1
      <3>1. m # n + 1
        OBVIOUS
      <3> QED
        BY <1>6, <2>1, <3>1, FramesDiffer
    <2>3. i - 1 \in 1 .. Len(Q) /\ Q[i - 1] = P[i]
      BY <1>1, <2>2
    <2> QED
      BY <2>1, <2>3
  <1>9. ASSUME NEW i \in 1 .. Len(Q), Q[i][1] = "entry"
        PROVE  \E m \in (n + 1) + 1 .. top : Q[i] = Entry(m)
    <2>1. PICK m \in n + 1 .. top : P[i + 1] = Entry(m)
      BY <1>1, <1>9 DEF FlowOf
    <2>2. m > n + 1
      BY <1>1, <1>7, <2>1
    <2>3. m \in (n + 1) + 1 .. top
      BY <2>2
    <2> QED
      BY <1>1, <2>1, <2>3
  <1>10. ASSUME NEW i \in 1 .. Len(Q), NEW j \in 1 .. Len(Q), NEW m \in Nat, NEW k \in Nat,
                Q[i] = Entry(m), Q[j] = Entry(k), m <= k
         PROVE  i <= j
    <2>1. /\ i + 1 \in 1 .. Len(P) /\ j + 1 \in 1 .. Len(P)
          /\ P[i + 1] = Entry(m) /\ P[j + 1] = Entry(k)
      BY <1>1, <1>10
    <2>2. i + 1 <= j + 1
      BY <1>10, <2>1 DEF FlowOf
    <2> QED
      BY <2>2
  <1>11. ASSUME NEW i \in 1 .. Len(Q), NEW c \in Nat, Q[i] = Closed(c)
         PROVE  /\ c \in n + 1 .. top
                /\ \A j \in 1 .. Len(Q) : \A m \in Nat : Q[j] = Entry(m) =>
                      (m <= c <=> j < i)
    <2>1. c \in n .. top /\ P[i + 1] = Closed(c) /\ i + 1 \in 1 .. Len(P)
      BY <1>1, <1>11 DEF FlowOf
    <2>2. n + 1 <= c
      <3>1. n + 1 <= c <=> 1 < i + 1
        BY <1>1, <1>6, <2>1 DEF FlowOf
      <3> QED
        BY <3>1
    <2>3. ASSUME NEW j \in 1 .. Len(Q), NEW m \in Nat, Q[j] = Entry(m)
          PROVE  m <= c <=> j < i
      <3>1. m <= c <=> j + 1 < i + 1
        BY <1>1, <2>1, <2>3 DEF FlowOf
      <3> QED
        BY <3>1
    <2>4. c \in n + 1 .. top
      BY <2>1, <2>2
    <2> QED
      BY <2>3, <2>4
  <1>12. n + 1 <= top
    BY <1>3
  <1>13. FlowOf(Q, n + 1, top)
    BY <1>8, <1>9, <1>10, <1>11, <1>12 DEF FlowOf
  <1> QED
    BY <1>1, <1>6, <1>12, <1>13 DEF Q

\* The session's end comes when the client has read all entries before it.
LEMMA FlowEnds ==
    ASSUME NEW S, NEW P \in Seq(S), P # <<>>, NEW n \in Nat, NEW top \in Nat,
           FlowOf(P, n, top), NEW c \in Nat, Head(P) = Closed(c)
    PROVE  c = n
  <1>1. 1 \in 1 .. Len(P) /\ P[1] = Closed(c) /\ Len(P) \in Nat
    OBVIOUS
  <1>2. c \in n .. top
    BY <1>1 DEF FlowOf
  <1>3. ASSUME c > n PROVE FALSE
    <2>1. n + 1 \in n + 1 .. top /\ n + 1 <= c
      BY <1>2, <1>3
    <2>2. PICK j \in 1 .. Len(P) : P[j] = Entry(n + 1)
      BY <2>1 DEF FlowOf
    <2>3. j < 1
      BY <1>1, <2>1, <2>2 DEF FlowOf
    <2> QED
      BY <1>1, <2>3
  <1> QED
    BY <1>2, <1>3

-----------------------------------------------------------------------------
(* The steps of the session, of the tails and of their clients. *)

\* What is on its way to the client of t completes what it has; as long as the
\* session keeps the subscriber, up to the last entry.
Flowing(t) ==
    \E top \in 0 .. entries :
        /\ FlowOf(Pipe(t), from[t] + Len(got[t]), top)
        /\ t \in subscribers => top = entries

TailInv(t) ==
    /\ \A i \in 1 .. Len(got[t]) : got[t][i] = from[t] + i
    /\ heard[t] # Unmarked => client[t] = "ended" /\ from[t] + Len(got[t]) = heard[t]
    /\ tail[t] \in {"no", "acked", "found"} =>
          /\ got[t] = <<>> /\ wire[t] = <<>> /\ todo[t] = <<>> /\ chan[t] = <<>>
          /\ from[t] = 0 /\ heard[t] = Unmarked /\ t \notin subscribers
    /\ client[t] = "reading" => Flowing(t)
    /\ client[t] = "no" <=> tail[t] = "no"

\* A piece of what is broadcast reaches a subscriber, all of it if there is
\* room; a subscriber that did not get all of it is dropped.
LEMMA BroadcastEffect ==
    ASSUME TailTypeOK, NEW ev \in Seq(Events), Broadcast(ev), NEW t \in Tails
    PROVE  /\ subscribers' \subseteq subscribers
           /\ chan' \in [Tails -> Seq(Events)] /\ Len(chan'[t]) <= Depth
           /\ \/ chan'[t] = chan[t] /\ t \notin subscribers'
              \/ \E k \in 0 .. Len(ev) :
                    /\ tail[t] = "streaming" /\ t \in subscribers
                    /\ chan'[t] = chan[t] \o SubSeq(ev, 1, k)
                    /\ t \in subscribers' => k = Len(ev)
  <1>1. ASSUME NEW q \in Tails
        PROVE  /\ Room(q) \in Nat /\ Len(ev) \in Nat
               /\ Min({Room(q), Len(ev)}) = IF Room(q) <= Len(ev) THEN Room(q) ELSE Len(ev)
    <2>1. chan[q] \in Seq(Events) /\ Len(chan[q]) <= Depth /\ Depth \in Nat
      BY Rooms DEF TailTypeOK
    <2>2. Len(chan[q]) \in Nat /\ Len(ev) \in Nat
      BY <2>1
    <2>3. Room(q) \in Nat
      BY <2>1, <2>2 DEF Room
    <2>4. ASSUME NEW a \in Nat, NEW b \in Nat
          PROVE  Min({a, b}) = IF a <= b THEN a ELSE b
      BY DEF Min
    <2> QED
      BY <2>2, <2>3, <2>4
  <1>2. ASSUME NEW q \in Tails, NEW k \in 0 .. Len(ev)
        PROVE  /\ SubSeq(ev, 1, k) \in Seq(Events) /\ Len(SubSeq(ev, 1, k)) = k
               /\ chan[q] \o SubSeq(ev, 1, k) \in Seq(Events)
               /\ Len(chan[q] \o SubSeq(ev, 1, k)) = Len(chan[q]) + k
    <2>1. SubSeq(ev, 1, k) \in Seq(Events) /\ Len(SubSeq(ev, 1, k)) = k
      OBVIOUS
    <2>2. chan[q] \in Seq(Events)
      BY DEF TailTypeOK
    <2> QED
      BY <2>1, <2>2, ConcatProperties
  <1>3. ASSUME NEW q \in Tails
        PROVE  /\ chan'[q] \in Seq(Events) /\ Len(chan'[q]) <= Depth
               /\ \/ chan'[q] = chan[q] /\ q \notin subscribers'
                  \/ \E k \in 0 .. Len(ev) :
                        /\ tail[q] = "streaming" /\ q \in subscribers
                        /\ chan'[q] = chan[q] \o SubSeq(ev, 1, k)
                        /\ q \in subscribers' => k = Len(ev)
    <2>0. chan[q] \in Seq(Events) /\ Len(chan[q]) <= Depth /\ Len(chan[q]) \in Nat
          /\ Depth \in Nat
      BY Rooms DEF TailTypeOK
    <2>1. CASE q \in subscribers /\ Receiving(q)
      <3> DEFINE k == Min({Room(q), Len(ev)})
      <3>1. chan'[q] = chan[q] \o SubSeq(ev, 1, k)
        BY <2>1 DEF Broadcast
      <3>2. k \in 0 .. Len(ev) /\ k <= Room(q) /\ (Len(ev) <= Room(q) => k = Len(ev))
        BY <1>1
      <3> HIDE DEF k
      <3>3. chan'[q] \in Seq(Events) /\ Len(chan'[q]) = Len(chan[q]) + k
        BY <1>2, <3>1, <3>2
      <3>4. q \in subscribers' => k = Len(ev)
        BY <3>2 DEF Broadcast
      <3>5. Len(chan'[q]) <= Depth
        BY <2>0, <3>2, <3>3 DEF Room
      <3> QED
        BY <2>1, <3>1, <3>2, <3>3, <3>4, <3>5 DEF Receiving
    <2>2. CASE ~(q \in subscribers /\ Receiving(q))
      <3>1. chan'[q] = chan[q] /\ q \notin subscribers'
        BY <2>2 DEF Broadcast
      <3> QED
        BY <2>0, <3>1
    <2> QED
      BY <2>1, <2>2
  <1>4. subscribers' \subseteq subscribers /\ chan' = [q \in Tails |-> chan'[q]]
    BY DEF Broadcast
  <1>5. chan' \in [Tails -> Seq(Events)]
    BY <1>3, <1>4
  <1> QED
    BY <1>3, <1>4, <1>5

\* The pipe in three parts.
LEMMA PipeIsTyped ==
    ASSUME TailTypeOK, NEW t \in Tails
    PROVE  /\ wire[t] \in Seq(Events) /\ todo[t] \in Seq(Events) /\ chan[t] \in Seq(Events)
           /\ Pipe(t) \in Seq(Events)
           /\ got[t] \in Seq(1 .. MaxEntries) /\ Len(got[t]) \in Nat
           /\ from[t] \in Nat /\ entries \in Nat /\ from[t] + Len(got[t]) \in Nat
  <1>1. wire[t] \in Seq(Events) /\ todo[t] \in Seq(Events) /\ chan[t] \in Seq(Events)
    BY DEF TailTypeOK
  <1>2. Pipe(t) \in Seq(Events)
    BY <1>1 DEF Pipe
  <1>3. got[t] \in Seq(1 .. MaxEntries) /\ from[t] \in Nat /\ entries \in Nat
    BY Rooms DEF TailTypeOK
  <1>4. Len(got[t]) \in Nat
    BY <1>3
  <1> QED
    BY <1>1, <1>2, <1>3, <1>4

\* What t consists of stays as it is, and the transcript too.
LEMMA TailUntouched ==
    ASSUME NEW t \in Tails, TailInv(t),
           tail'[t] = tail[t], from'[t] = from[t], wire'[t] = wire[t], todo'[t] = todo[t],
           chan'[t] = chan[t], client'[t] = client[t], got'[t] = got[t],
           heard'[t] = heard[t], entries' = entries, t \in subscribers' => t \in subscribers
    PROVE  TailInv(t)'
  <1>1. Flowing(t) => Flowing(t)'
    BY DEF Flowing, Pipe
  <1> QED
    BY <1>1 DEF TailInv

LEMMA PipeExtends ==
    ASSUME TailTypeOK, NEW t \in Tails, NEW ext \in Seq(Events)
    PROVE  wire[t] \o todo[t] \o (chan[t] \o ext) = Pipe(t) \o ext
  <1>1. ASSUME NEW w \in Seq(Events), NEW d \in Seq(Events), NEW c \in Seq(Events)
        PROVE  w \o d \o (c \o ext) = (w \o d \o c) \o ext
    <2>1. w \o d \in Seq(Events)
      OBVIOUS
    <2> QED
      BY <2>1, ConcatAssociative
  <1> QED
    BY <1>1, PipeIsTyped DEF Pipe

\* The session broadcasts: t gets ext and is kept only if the flow is then
\* complete, or gets nothing and is no subscriber.
LEMMA BroadcastFlows ==
    ASSUME TailTypeOK, NEW t \in Tails, TailInv(t), NEW ext \in Seq(Events),
           UNCHANGED <<tailOnly, wire, clientVars>>, entries' \in Nat, entries <= entries',
           subscribers' \subseteq subscribers,
           \/ chan'[t] = chan[t] /\ t \notin subscribers'
           \/ /\ tail[t] = "streaming" /\ t \in subscribers /\ chan'[t] = chan[t] \o ext
              /\ \A n \in Nat : FlowOf(Pipe(t), n, entries) =>
                    \E top \in 0 .. entries' :
                        /\ FlowOf(Pipe(t) \o ext, n, top)
                        /\ t \in subscribers' => top = entries'
    PROVE  TailInv(t)'
  <1>1. /\ tail'[t] = tail[t] /\ from'[t] = from[t] /\ wire'[t] = wire[t]
        /\ todo'[t] = todo[t] /\ client'[t] = client[t] /\ got'[t] = got[t]
        /\ heard'[t] = heard[t]
    BY DEF tailOnly, clientVars
  <1>2. CASE chan'[t] = chan[t] /\ t \notin subscribers'
    <2>1. Pipe(t)' = Pipe(t)
      BY <1>1, <1>2 DEF Pipe
    <2>2. ASSUME Flowing(t) PROVE Flowing(t)'
      <3>1. PICK top \in 0 .. entries : FlowOf(Pipe(t), from[t] + Len(got[t]), top)
        BY <2>2 DEF Flowing
      <3>2. top \in 0 .. entries'
        BY PipeIsTyped
      <3>3. FlowOf(Pipe(t)', from'[t] + Len(got'[t]), top)
        BY <1>1, <2>1, <3>1
      <3> QED
        BY <1>2, <3>2, <3>3 DEF Flowing
    <2> QED
      BY <1>1, <1>2, <2>2 DEF TailInv
  <1>3. CASE /\ tail[t] = "streaming" /\ t \in subscribers /\ chan'[t] = chan[t] \o ext
             /\ \A n \in Nat : FlowOf(Pipe(t), n, entries) =>
                   \E top \in 0 .. entries' :
                       /\ FlowOf(Pipe(t) \o ext, n, top)
                       /\ t \in subscribers' => top = entries'
    <2>1. Pipe(t)' = Pipe(t) \o ext
      BY <1>1, <1>3, PipeExtends DEF Pipe
    <2>2. ASSUME Flowing(t) PROVE Flowing(t)'
      <3>1. FlowOf(Pipe(t), from[t] + Len(got[t]), entries)
        BY <1>3, <2>2 DEF Flowing
      <3>2. PICK top \in 0 .. entries' :
               /\ FlowOf(Pipe(t) \o ext, from[t] + Len(got[t]), top)
               /\ t \in subscribers' => top = entries'
        BY <1>3, <3>1, PipeIsTyped
      <3>3. FlowOf(Pipe(t)', from'[t] + Len(got'[t]), top)
        BY <1>1, <2>1, <3>2
      <3> QED
        BY <3>2, <3>3 DEF Flowing
    <2> QED
      BY <1>1, <1>3, <2>2 DEF TailInv
  <1> QED
    BY <1>2, <1>3

\* The prefixes of one event and of two.
LEMMA Prefixes ==
    ASSUME NEW x \in Events, NEW y \in Events
    PROVE  /\ <<x>> \in Seq(Events) /\ Len(<<x>>) = 1
           /\ <<x, y>> \in Seq(Events) /\ Len(<<x, y>>) = 2
           /\ SubSeq(<<x>>, 1, 0) = <<>> /\ SubSeq(<<x>>, 1, 1) = <<x>>
           /\ SubSeq(<<x, y>>, 1, 0) = <<>> /\ SubSeq(<<x, y>>, 1, 1) = <<x>>
           /\ SubSeq(<<x, y>>, 1, 2) = <<x, y>>
           /\ \A P \in Seq(Events) : /\ P \o <<>> = P /\ P \o <<x>> = Append(P, x)
                                     /\ P \o <<x, y>> = Append(Append(P, x), y)
                                     /\ Append(P, x) \in Seq(Events)
  <1>1. <<x>> \in Seq(Events) /\ Len(<<x>>) = 1 /\ <<x, y>> \in Seq(Events) /\ Len(<<x, y>>) = 2
    OBVIOUS
  <1>2. \A s : SubSeq(s, 1, 0) = <<>>
    BY SubSeqEmpty
  <1>3. SubSeq(<<x>>, 1, 1) = <<x>> /\ SubSeq(<<x, y>>, 1, 2) = <<x, y>>
    BY <1>1, SubSeqFull, Zenon
  <1>4. SubSeq(<<x, y>>, 1, 1) = <<x>>
    <2> DEFINE s == <<x, y>>
    <2>1. s \in Seq(Events) /\ Len(s) = 2 /\ s[1] = x
      OBVIOUS
    <2> HIDE DEF s
    <2>2. SubSeq(s, 1, 1) = <<s[1]>> \o SubSeq(s, 1 + 1, 1)
      BY <2>1, SubSeqRecursiveFirst
    <2>3. SubSeq(s, 1 + 1, 1) = <<>>
      BY SubSeqEmpty
    <2>4. <<x>> \o <<>> = <<x>>
      BY <1>1, ConcatEmptySeq
    <2> QED
      BY <2>1, <2>2, <2>3, <2>4 DEF s
  <1>5. ASSUME NEW P \in Seq(Events)
        PROVE  /\ P \o <<>> = P /\ P \o <<x>> = Append(P, x)
               /\ P \o <<x, y>> = Append(Append(P, x), y) /\ Append(P, x) \in Seq(Events)
    <2>1. P \o <<>> = P /\ P \o <<x>> = Append(P, x) /\ Append(P, x) \in Seq(Events)
      OBVIOUS
    <2>2. P \o <<x, y>> = Append(Append(P, x), y)
      OBVIOUS
    <2> QED
      BY <2>1, <2>2
  <1> QED
    BY <1>1, <1>2, <1>3, <1>4, <1>5

\* The frames are events.
LEMMA FramesAreEvents ==
    ASSUME TailTypeOK
    PROVE  /\ Status \in Events /\ NotFound \in Events /\ Closed(Unmarked) \in Events
           /\ \A n \in 0 .. MaxEntries : Entry(n) \in Events /\ Closed(n) \in Events
           /\ entries \in 0 .. MaxEntries /\ entries \in Nat /\ MaxEntries \in Nat
           /\ \A x \in Events : x[2] \in (0 .. MaxEntries) \union {Unmarked}
           /\ \A x \in Events : x[1] = "closed" => x = Closed(x[2])
  <1>1. entries \in 0 .. MaxEntries /\ MaxEntries \in Nat
    BY Rooms DEF TailTypeOK
  <1>2. Status \in Events /\ NotFound \in Events /\ Closed(Unmarked) \in Events
    BY DEF Events
  <1>3. \A n \in 0 .. MaxEntries : Entry(n) \in Events /\ Closed(n) \in Events
    BY DEF Events, Entry, Closed
  <1>4. \A x \in Events : x[2] \in (0 .. MaxEntries) \union {Unmarked}
    BY DEF Events, Status, NotFound, Closed
  <1>5. \A x \in Events : x[1] = "closed" => x = Closed(x[2])
    BY DEF Events, Status, NotFound, Closed
  <1> QED
    BY <1>1, <1>2, <1>3, <1>4, <1>5

\* The session broadcasts ev: what it does to the flow follows from what each
\* prefix of ev does to a flow that was complete.
LEMMA BroadcastKeeps ==
    ASSUME TailTypeOK, NEW t \in Tails, TailInv(t), NEW ev \in Seq(Events), Broadcast(ev),
           UNCHANGED <<tailOnly, wire, clientVars>>, entries' \in Nat, entries <= entries',
           \A n \in Nat : \A k \in 0 .. Len(ev) : FlowOf(Pipe(t), n, entries) =>
               \E top \in 0 .. entries' : /\ FlowOf(Pipe(t) \o SubSeq(ev, 1, k), n, top)
                                          /\ k = Len(ev) => top = entries'
    PROVE  TailInv(t)'
  <1>1. /\ subscribers' \subseteq subscribers
        /\ \/ chan'[t] = chan[t] /\ t \notin subscribers'
           \/ \E k \in 0 .. Len(ev) :
                  /\ tail[t] = "streaming" /\ t \in subscribers
                  /\ chan'[t] = chan[t] \o SubSeq(ev, 1, k)
                  /\ t \in subscribers' => k = Len(ev)
    BY BroadcastEffect
  <1>2. CASE chan'[t] = chan[t] /\ t \notin subscribers'
    <2>1. <<>> \in Seq(Events)
      OBVIOUS
    <2> QED
      BY <1>1, <1>2, <2>1, BroadcastFlows
  <1>3. ASSUME NEW k \in 0 .. Len(ev), tail[t] = "streaming", t \in subscribers,
               chan'[t] = chan[t] \o SubSeq(ev, 1, k), t \in subscribers' => k = Len(ev)
        PROVE  TailInv(t)'
    <2> DEFINE ext == SubSeq(ev, 1, k)
    <2>1. ext \in Seq(Events)
      OBVIOUS
    <2>2. \A n \in Nat : FlowOf(Pipe(t), n, entries) =>
             \E top \in 0 .. entries' : /\ FlowOf(Pipe(t) \o ext, n, top)
                                        /\ t \in subscribers' => top = entries'
      <3> TAKE n \in Nat
      <3> HAVE FlowOf(Pipe(t), n, entries)
      <3>1. PICK top \in 0 .. entries' : /\ FlowOf(Pipe(t) \o ext, n, top)
                                         /\ k = Len(ev) => top = entries'
        OBVIOUS
      <3> QED
        BY <1>3, <3>1
    <2>3. chan'[t] = chan[t] \o ext
      BY <1>3
    <2> HIDE DEF ext
    <2> QED
      BY <1>1, <1>3, <2>1, <2>2, <2>3, BroadcastFlows
  <1> QED
    BY <1>1, <1>2, <1>3

\* An entry, a status or the end of the session is broadcast.
LEMMA SessionBroadcasts ==
    ASSUME TailTypeOK, NEW t \in Tails, TailInv(t),
           AppendEntry \/ SetStatus \/ AgentExits \/ StopSession
    PROVE  TailInv(t)'
  <1> DEFINE P == Pipe(t)
  <1>1. P \in Seq(Events) /\ Status \in Events /\ entries \in Nat
    BY PipeIsTyped, FramesAreEvents
  <1>2. \A n \in Nat : FlowOf(P, n, entries) => FlowOf(Append(P, Status), n, entries)
    <2>1. Status[1] # "entry" /\ \A c \in Nat : Status # Closed(c)
      BY FramesDiffer DEF Status, Closed
    <2> QED
      BY <1>1, <2>1, FlowAppendsOther
  <1> HIDE DEF P
  <1>3. CASE AppendEntry
    <2> DEFINE ev == <<Entry(entries + 1)>>
    <2>1. entries' = entries + 1 /\ Entry(entries + 1) \in Events
      BY <1>3, FramesAreEvents DEF AppendEntry
    <2>2. /\ ev \in Seq(Events) /\ Len(ev) = 1
          /\ SubSeq(ev, 1, 0) = <<>> /\ SubSeq(ev, 1, 1) = ev
          /\ P \o <<>> = P /\ P \o ev = Append(P, Entry(entries + 1))
      BY <1>1, <2>1, Prefixes
    <2>3. Broadcast(ev) /\ UNCHANGED <<tailOnly, wire, clientVars>>
      BY <1>3 DEF AppendEntry
    <2> HIDE DEF ev
    <2>4. ASSUME NEW n \in Nat, NEW k \in 0 .. Len(ev), FlowOf(P, n, entries)
          PROVE  \E top \in 0 .. entries' : /\ FlowOf(P \o SubSeq(ev, 1, k), n, top)
                                            /\ k = Len(ev) => top = entries'
      <3>1. CASE k = 0
        <4>1. FlowOf(P \o SubSeq(ev, 1, k), n, entries)
          BY <2>2, <2>4, <3>1
        <4> QED
          BY <1>1, <2>1, <2>2, <3>1, <4>1
      <3>2. CASE k = 1
        <4>1. FlowOf(P \o SubSeq(ev, 1, k), n, entries')
          BY <1>1, <2>1, <2>2, <2>4, <3>2, FlowAppendsEntry
        <4> QED
          BY <1>1, <2>1, <4>1
      <3> QED
        BY <2>2, <3>1, <3>2
    <2> QED
      BY <1>1, <2>1, <2>2, <2>3, <2>4, BroadcastKeeps DEF P
  <1>4. CASE SetStatus
    <2> DEFINE ev == <<Status>>
    <2>1. entries' = entries
      BY <1>4 DEF SetStatus
    <2>2. /\ ev \in Seq(Events) /\ Len(ev) = 1
          /\ SubSeq(ev, 1, 0) = <<>> /\ SubSeq(ev, 1, 1) = ev
          /\ P \o <<>> = P /\ P \o ev = Append(P, Status)
      BY <1>1, Prefixes
    <2>3. Broadcast(ev) /\ UNCHANGED <<tailOnly, wire, clientVars>>
      BY <1>4 DEF SetStatus
    <2> HIDE DEF ev
    <2>4. ASSUME NEW n \in Nat, NEW k \in 0 .. Len(ev), FlowOf(P, n, entries)
          PROVE  FlowOf(P \o SubSeq(ev, 1, k), n, entries)
      <3>1. k = 0 \/ k = 1
        BY <2>2
      <3> QED
        BY <1>2, <2>2, <2>4, <3>1
    <2>5. entries \in 0 .. entries'
      BY <1>1, <2>1
    <2> QED
      BY <1>1, <2>1, <2>2, <2>3, <2>4, <2>5, BroadcastKeeps DEF P
  <1>5. CASE AgentExits \/ StopSession
    <2>1. entries' = entries /\ Closed(entries) \in Events
      BY <1>5, FramesAreEvents DEF AgentExits, StopSession
    <2>2. /\ Farewell \in Seq(Events) /\ Len(Farewell) = 2
          /\ SubSeq(Farewell, 1, 0) = <<>> /\ SubSeq(Farewell, 1, 1) = <<Status>>
          /\ SubSeq(Farewell, 1, 2) = Farewell
          /\ P \o <<>> = P /\ P \o <<Status>> = Append(P, Status)
          /\ P \o Farewell = Append(Append(P, Status), Closed(entries))
          /\ Append(P, Status) \in Seq(Events)
      BY <1>1, <2>1, Prefixes DEF Farewell
    <2>3. Broadcast(Farewell) /\ UNCHANGED <<tailOnly, wire, clientVars>>
      BY <1>5 DEF AgentExits, StopSession
    <2>4. ASSUME NEW n \in Nat, NEW k \in 0 .. Len(Farewell), FlowOf(P, n, entries)
          PROVE  FlowOf(P \o SubSeq(Farewell, 1, k), n, entries)
      <3>1. k = 0 \/ k = 1 \/ k = 2
        BY <2>2
      <3>2. FlowOf(Append(P, Status), n, entries)
        BY <1>2, <2>4
      <3>3. FlowOf(Append(Append(P, Status), Closed(entries)), n, entries)
        BY <1>1, <2>1, <2>2, <3>2, FlowAppendsClosed
      <3> QED
        BY <2>2, <2>4, <3>1, <3>2, <3>3
    <2>5. entries \in 0 .. entries'
      BY <1>1, <2>1
    <2> QED
      BY <1>1, <2>1, <2>2, <2>3, <2>4, <2>5, BroadcastKeeps DEF P
  <1> QED
    BY <1>3, <1>4, <1>5

\* A tail's step, or its client's, leaves the other tails alone.
LEMMA OthersUntouched ==
    ASSUME TailTypeOK, NEW u \in Tails, NEW t \in Tails, t # u, TailInv(t),
           AckTail(u) \/ TailStep(u) \/ ReadEvent(u) \/ HangUp(u)
    PROVE  TailInv(t)'
  <1>1. /\ tail'[t] = tail[t] /\ from'[t] = from[t] /\ todo'[t] = todo[t]
        /\ chan'[t] = chan[t] /\ entries' = entries
        /\ t \in subscribers' => t \in subscribers
    BY DEF AckTail, TailStep, FindSession, Subscribe, SendEvent, SendFails, RecvEvent,
           StreamOver, ReadEvent, HangUp, Goto, TailTypeOK, transcriptVars, tailOnly
  <1>2. wire'[t] = wire[t] /\ client'[t] = client[t]
    BY DEF AckTail, TailStep, FindSession, Subscribe, SendEvent, SendFails, RecvEvent,
           StreamOver, ReadEvent, HangUp, TailTypeOK, clientVars
  <1>3. got'[t] = got[t] /\ heard'[t] = heard[t]
    BY DEF AckTail, TailStep, FindSession, Subscribe, SendEvent, SendFails, RecvEvent,
           StreamOver, ReadEvent, HangUp, TailTypeOK, clientVars
  <1> QED
    BY <1>1, <1>2, <1>3, TailUntouched

\* The flow of a tail before it streams is empty.
LEMMA EmptyFlow ==
    ASSUME NEW n \in Nat
    PROVE  FlowOf(<<>>, n, n)
  BY DEF FlowOf

\* The call is acknowledged, and the session found or not.
LEMMA TailAcked ==
    ASSUME TailTypeOK, NEW t \in Tails, TailInv(t), AckTail(t) \/ FindSession(t)
    PROVE  TailInv(t)'
  <1>1. /\ got[t] = <<>> /\ wire[t] = <<>> /\ todo[t] = <<>> /\ chan[t] = <<>>
        /\ from[t] = 0 /\ heard[t] = Unmarked /\ t \notin subscribers
    BY DEF AckTail, FindSession, TailInv
  <1>2. /\ got'[t] = <<>> /\ wire'[t] = <<>> /\ chan'[t] = <<>> /\ from'[t] = 0
        /\ heard'[t] = Unmarked /\ t \notin subscribers' /\ entries' = entries
    BY <1>1 DEF AckTail, FindSession, transcriptVars, clientVars
  <1>3. entries \in Nat
    BY FramesAreEvents
  <1>4. CASE AckTail(t)
    <2>1. todo'[t] = <<>> /\ tail'[t] = "acked" /\ client'[t] = "reading"
      BY <1>1, <1>4 DEF AckTail, Goto, TailTypeOK
    <2>2. Pipe(t)' = <<>>
      BY <1>2, <2>1 DEF Pipe
    <2>3. Flowing(t)'
      <3>1. FlowOf(Pipe(t)', from'[t] + Len(got'[t]), 0)
        BY <1>2, <2>2, EmptyFlow
      <3> QED
        BY <1>2, <1>3, <3>1 DEF Flowing
    <2> QED
      BY <1>2, <2>1, <2>3 DEF TailInv
  <1>5. CASE FindSession(t)
    <2>1. client'[t] = client[t] /\ client[t] # "no"
      BY <1>5 DEF FindSession, clientVars, TailInv
    <2>2. CASE inMap
      <3>1. todo'[t] = <<>> /\ tail'[t] = "found"
        BY <1>1, <1>5, <2>2 DEF FindSession, Goto, TailTypeOK
      <3>2. Pipe(t)' = <<>>
        BY <1>2, <3>1 DEF Pipe
      <3>3. Flowing(t)'
        <4>1. FlowOf(Pipe(t)', from'[t] + Len(got'[t]), 0)
          BY <1>2, <3>2, EmptyFlow
        <4> QED
          BY <1>2, <1>3, <4>1 DEF Flowing
      <3> QED
        BY <1>2, <2>1, <3>1, <3>3 DEF TailInv
    <2>3. CASE ~inMap
      <3>1. todo'[t] = <<NotFound, Closed(Unmarked)>> /\ tail'[t] = "closing"
        BY <1>5, <2>3 DEF FindSession, Goto, TailTypeOK
      <3>2. Pipe(t)' = Append(Append(<<>>, NotFound), Closed(Unmarked))
        BY <1>2, <3>1 DEF Pipe
      <3>3. Flowing(t)'
        <4>1. FlowOf(Append(<<>>, NotFound), 0, 0)
          <5>1. NotFound[1] # "entry" /\ \A c \in Nat : NotFound # Closed(c)
            BY FramesDiffer DEF NotFound, Closed
          <5> QED
            BY <5>1, EmptyFlow, FramesAreEvents, FlowAppendsOther, EmptySeq
        <4>2. FlowOf(Append(Append(<<>>, NotFound), Closed(Unmarked)), 0, 0)
          <5>1. /\ Closed(Unmarked)[1] # "entry"
                /\ \A c \in Nat : Closed(Unmarked) # Closed(c)
            BY FramesDiffer, UnmarkedIsNew
          <5>2. Append(<<>>, NotFound) \in Seq(Events)
            BY FramesAreEvents
          <5> QED
            BY <4>1, <5>1, <5>2, FramesAreEvents, FlowAppendsOther
        <4>3. FlowOf(Pipe(t)', from'[t] + Len(got'[t]), 0)
          BY <1>2, <3>2, <4>2
        <4> QED
          BY <1>2, <1>3, <4>3 DEF Flowing
      <3> QED
        BY <1>2, <2>1, <3>1, <3>3 DEF TailInv
    <2> QED
      BY <2>2, <2>3
  <1> QED
    BY <1>4, <1>5

\* The replay is the flow of all entries.
LEMMA ReplayFlows ==
    ASSUME entries \in Nat
    PROVE  FlowOf(Replay, 0, entries)
  <1>1. Len(Replay) = entries /\ \A i \in 1 .. entries : Replay[i] = Entry(i)
    BY DEF Replay
  <1>2. \A i \in 1 .. entries : \A c : Replay[i] # Closed(c)
    BY <1>1, FramesDiffer
  <1>3. \A i \in 1 .. entries : \A m : Replay[i] = Entry(m) => m = i
    BY <1>1, FramesDiffer
  <1> HIDE DEF Replay
  <1>4. \A i \in 1 .. Len(Replay) : Replay[i][1] = "entry" =>
           \E m \in 0 + 1 .. entries : Replay[i] = Entry(m)
    BY <1>1
  <1>5. \A m \in 0 + 1 .. entries : \E i \in 1 .. Len(Replay) : Replay[i] = Entry(m)
    BY <1>1
  <1>6. \A i, j \in 1 .. Len(Replay) : \A m, k \in Nat :
           Replay[i] = Entry(m) /\ Replay[j] = Entry(k) /\ m <= k => i <= j
    BY <1>1, <1>3
  <1> QED
    BY <1>1, <1>2, <1>4, <1>5, <1>6 DEF FlowOf

\* The transcript is replayed and the subscriber registered, under one lock.
LEMMA TailSubscribes ==
    ASSUME TailTypeOK, NEW t \in Tails, TailInv(t), Subscribe(t)
    PROVE  TailInv(t)'
  <1>1. /\ got[t] = <<>> /\ wire[t] = <<>> /\ chan[t] = <<>> /\ heard[t] = Unmarked
        /\ client[t] # "no"
    BY DEF Subscribe, TailInv
  <1>2. /\ got'[t] = <<>> /\ wire'[t] = <<>> /\ chan'[t] = <<>> /\ heard'[t] = Unmarked
        /\ client'[t] # "no" /\ entries' = entries /\ tail'[t] = "streaming"
    BY <1>1 DEF Subscribe, Goto, transcriptVars, clientVars, TailTypeOK
  <1>3. entries \in Nat
    BY FramesAreEvents
  <1>4. FlowOf(Pipe(t)', from'[t] + Len(got'[t]), entries)
    <2>1. CASE mode[t].replay
      <3>1. todo'[t] = Replay /\ from'[t] = 0
        BY <2>1 DEF Subscribe, TailTypeOK
      <3>2. Replay \in Seq(Events)
        <4>1. Len(Replay) = entries /\ \A i \in 1 .. entries : Replay[i] = Entry(i)
          BY <1>3 DEF Replay
        <4>2. \A i \in 1 .. entries : Entry(i) \in Events
          BY FramesAreEvents
        <4> QED
          BY <1>3, <4>2 DEF Replay
      <3>3. Pipe(t)' = Replay
        BY <1>2, <3>1, <3>2 DEF Pipe
      <3>4. from'[t] + Len(got'[t]) = 0
        BY <1>2, <3>1
      <3> QED
        BY <1>3, <3>3, <3>4, ReplayFlows
    <2>2. CASE ~mode[t].replay
      <3>1. todo'[t] = <<>> /\ from'[t] = entries
        BY <2>2 DEF Subscribe, TailTypeOK
      <3>2. Pipe(t)' = <<>>
        BY <1>2, <3>1 DEF Pipe
      <3>3. from'[t] + Len(got'[t]) = entries
        BY <1>2, <1>3, <3>1
      <3> QED
        BY <1>3, <3>2, <3>3, EmptyFlow
    <2> QED
      BY <2>1, <2>2
  <1>5. Flowing(t)'
    BY <1>2, <1>3, <1>4 DEF Flowing
  <1> QED
    BY <1>2, <1>5 DEF TailInv

\* A step within the pipe: a frame from the channel to the hand, or from the
\* hand to the wire.
LEMMA TailForwards ==
    ASSUME TailTypeOK, NEW t \in Tails, TailInv(t), SendEvent(t) \/ RecvEvent(t)
    PROVE  TailInv(t)'
  <1>1. /\ got'[t] = got[t] /\ heard'[t] = heard[t] /\ client'[t] = client[t]
        /\ from'[t] = from[t] /\ entries' = entries /\ subscribers' = subscribers
    BY DEF SendEvent, RecvEvent, transcriptVars, clientVars
  <1>2. tail[t] \notin {"no", "acked", "found"} /\ tail'[t] \notin {"no", "acked", "found"}
    BY DEF SendEvent, RecvEvent, Goto, TailInv, TailTypeOK
  <1>3. Pipe(t)' = Pipe(t)
    <2>1. wire[t] \in Seq(Events) /\ todo[t] \in Seq(Events) /\ chan[t] \in Seq(Events)
      BY PipeIsTyped
    <2>2. CASE SendEvent(t)
      <3>1. /\ wire'[t] = Append(wire[t], Head(todo[t])) /\ todo'[t] = Tail(todo[t])
            /\ chan'[t] = chan[t] /\ todo[t] # <<>>
        BY <2>2 DEF SendEvent, TailTypeOK
      <3>2. ASSUME NEW a \in Seq(Events), NEW b \in Seq(Events), b # <<>>
            PROVE  Append(a, Head(b)) \o Tail(b) = a \o b
        BY <3>2
      <3>3. Append(wire[t], Head(todo[t])) \o Tail(todo[t]) = wire[t] \o todo[t]
        BY <2>1, <3>1, <3>2
      <3> QED
        BY <3>1, <3>3 DEF Pipe
    <2>3. CASE RecvEvent(t)
      <3>1. /\ wire'[t] = wire[t] /\ todo'[t] = <<Head(chan[t])>> /\ todo[t] = <<>>
            /\ chan'[t] = Tail(chan[t]) /\ chan[t] # <<>>
        BY <2>3 DEF RecvEvent, TailTypeOK
      <3>2. ASSUME NEW a \in Seq(Events), NEW b \in Seq(Events), b # <<>>
            PROVE  a \o <<Head(b)>> \o Tail(b) = a \o <<>> \o b
        BY <3>2
      <3>3. wire[t] \o <<Head(chan[t])>> \o Tail(chan[t]) = wire[t] \o <<>> \o chan[t]
        BY <2>1, <3>1, <3>2
      <3> QED
        BY <3>1, <3>3 DEF Pipe
    <2> QED
      BY <2>2, <2>3
  <1>4. Flowing(t) => Flowing(t)'
    BY <1>1, <1>3 DEF Flowing
  <1> QED
    BY <1>1, <1>2, <1>4 DEF TailInv

\* The stream ends, because the client has hung up or the sender is gone.
LEMMA TailCloses ==
    ASSUME TailTypeOK, NEW t \in Tails, TailInv(t), SendFails(t) \/ StreamOver(t) \/ HangUp(t)
    PROVE  TailInv(t)'
  <1>1. /\ got'[t] = got[t] /\ heard'[t] = heard[t] /\ from'[t] = from[t]
        /\ entries' = entries /\ subscribers' = subscribers
    BY DEF SendFails, StreamOver, HangUp, transcriptVars, clientVars, tailOnly
  <1>2. CASE SendFails(t)
    <2>1. client'[t] = client[t] /\ client[t] \notin {"no", "reading"} /\ tail'[t] = "done"
      BY <1>2 DEF SendFails, clientVars, Goto, TailTypeOK
    <2> QED
      BY <1>1, <2>1 DEF TailInv
  <1>3. CASE StreamOver(t)
    <2>1. /\ client'[t] = client[t] /\ client[t] # "no" /\ tail'[t] = "closing"
          /\ todo[t] = <<>> /\ chan[t] = <<>> /\ t \notin subscribers
          /\ todo'[t] = <<Closed(Unmarked)>> /\ chan'[t] = <<>> /\ wire'[t] = wire[t]
      BY <1>3 DEF StreamOver, clientVars, Goto, TailTypeOK, TailInv
    <2>2. wire[t] \in Seq(Events) /\ Closed(Unmarked) \in Events
      BY PipeIsTyped, FramesAreEvents
    <2>3. Pipe(t) = wire[t] /\ Pipe(t)' = Append(wire[t], Closed(Unmarked))
      BY <2>1, <2>2 DEF Pipe
    <2>4. /\ Closed(Unmarked)[1] # "entry" /\ \A c \in Nat : Closed(Unmarked) # Closed(c)
      BY FramesDiffer, UnmarkedIsNew
    <2>5. ASSUME Flowing(t) PROVE Flowing(t)'
      <3>1. PICK top \in 0 .. entries : FlowOf(wire[t], from[t] + Len(got[t]), top)
        BY <2>3, <2>5 DEF Flowing
      <3>2. FlowOf(Append(wire[t], Closed(Unmarked)), from[t] + Len(got[t]), top)
        <4>1. top \in Nat /\ from[t] + Len(got[t]) \in Nat
          BY PipeIsTyped
        <4> QED
          BY <2>2, <2>4, <3>1, <4>1, FlowAppendsOther
      <3>3. FlowOf(Pipe(t)', from'[t] + Len(got'[t]), top)
        BY <1>1, <2>3, <3>2
      <3> QED
        BY <1>1, <2>1, <3>3 DEF Flowing
    <2> QED
      BY <1>1, <2>1, <2>5 DEF TailInv
  <1>4. CASE HangUp(t)
    <2>1. /\ client'[t] = "left" /\ client[t] = "reading" /\ tail'[t] = tail[t]
          /\ wire'[t] = <<>> /\ todo'[t] = todo[t] /\ chan'[t] = chan[t]
      BY <1>4 DEF HangUp, tailOnly, TailTypeOK
    <2> QED
      BY <1>1, <2>1 DEF TailInv
  <1> QED
    BY <1>2, <1>3, <1>4

\* The client reads a frame: the next entry, something else, or the end.
LEMMA ClientReads ==
    ASSUME TailTypeOK, NEW t \in Tails, TailInv(t), ReadEvent(t)
    PROVE  TailInv(t)' /\ got'[t] \in Seq(1 .. MaxEntries)
  <1> DEFINE frame == Head(wire[t])
             n == from[t] + Len(got[t])
  <1>1. /\ tail'[t] = tail[t] /\ from'[t] = from[t] /\ todo'[t] = todo[t] /\ chan'[t] = chan[t]
        /\ entries' = entries /\ subscribers' = subscribers
        /\ client[t] = "reading" /\ wire[t] # <<>>
    BY DEF ReadEvent, tailOnly, transcriptVars
  <1>2. /\ wire[t] \in Seq(Events) /\ todo[t] \in Seq(Events) /\ chan[t] \in Seq(Events)
        /\ Pipe(t) \in Seq(Events) /\ n \in Nat /\ got[t] \in Seq(1 .. MaxEntries)
        /\ from[t] \in Nat /\ Len(got[t]) \in Nat
    BY PipeIsTyped
  <1>3. Pipe(t) # <<>> /\ Head(Pipe(t)) = frame
        /\ Tail(Pipe(t)) = Tail(wire[t]) \o todo[t] \o chan[t]
    <2>1. ASSUME NEW a \in Seq(Events), NEW b \in Seq(Events), a # <<>>
          PROVE  a \o b # <<>> /\ Head(a \o b) = Head(a) /\ Tail(a \o b) = Tail(a) \o b
                 /\ a \o b \in Seq(Events)
      BY <2>1
    <2>2. wire[t] \o todo[t] # <<>> /\ Head(wire[t] \o todo[t]) = Head(wire[t])
          /\ Tail(wire[t] \o todo[t]) = Tail(wire[t]) \o todo[t]
          /\ wire[t] \o todo[t] \in Seq(Events)
      BY <1>1, <1>2, <2>1
    <2>3. /\ (wire[t] \o todo[t]) \o chan[t] # <<>>
          /\ Head((wire[t] \o todo[t]) \o chan[t]) = Head(wire[t] \o todo[t])
          /\ Tail((wire[t] \o todo[t]) \o chan[t]) = Tail(wire[t] \o todo[t]) \o chan[t]
      <3> DEFINE b == chan[t]
                 a == wire[t] \o todo[t]
      <3>1. a \in Seq(Events) /\ b \in Seq(Events) /\ a # <<>>
        BY <1>2, <2>2
      <3> HIDE DEF a, b
      <3>2. a \o b # <<>> /\ Head(a \o b) = Head(a) /\ Tail(a \o b) = Tail(a) \o b
        BY <2>1, <3>1
      <3> QED
        BY <3>2 DEF a, b
    <2> QED
      BY <2>2, <2>3 DEF Pipe
  <1>4. PICK top \in 0 .. entries :
           /\ FlowOf(Pipe(t), n, top)
           /\ t \in subscribers => top = entries
    BY <1>1 DEF TailInv, Flowing
  <1>5. top \in Nat /\ top <= entries /\ entries <= MaxEntries /\ MaxEntries \in Nat /\ entries \in Nat
    BY FramesAreEvents
  <1>6. /\ tail[t] \notin {"no", "acked", "found"} /\ heard[t] = Unmarked
        /\ \A i \in 1 .. Len(got[t]) : got[t][i] = from[t] + i
    BY <1>1 DEF TailInv
  <1>7. frame \in Events
    BY <1>1, <1>2
  <1>8. CASE frame[1] = "entry"
    <2>1. /\ got'[t] = Append(got[t], frame[2]) /\ client'[t] = "reading"
          /\ heard'[t] = Unmarked /\ wire'[t] = Tail(wire[t])
      BY <1>1, <1>6, <1>8 DEF ReadEvent, TailTypeOK
    <2>2. Pipe(t)' = Tail(Pipe(t))
      BY <1>1, <1>3, <2>1 DEF Pipe
    <2>3. frame = Entry(n + 1) /\ n + 1 <= top /\ FlowOf(Tail(Pipe(t)), n + 1, top)
      <3> HIDE DEF n
      <3> QED
        BY <1>2, <1>3, <1>4, <1>5, <1>8, FlowDelivers
    <2>4. frame[2] = n + 1 /\ n + 1 \in 1 .. MaxEntries
      <3>1. frame[2] = n + 1
        BY <2>3, FramesDiffer
      <3> QED
        BY <1>2, <1>5, <2>3, <3>1
    <2> HIDE DEF frame
    <2>5. /\ got'[t] \in Seq(1 .. MaxEntries) /\ Len(got'[t]) = Len(got[t]) + 1
          /\ \A i \in 1 .. Len(got'[t]) : got'[t][i] = from[t] + i
      <3>1. ASSUME NEW g \in Seq(1 .. MaxEntries), NEW x \in 1 .. MaxEntries
            PROVE  /\ Append(g, x) \in Seq(1 .. MaxEntries) /\ Len(Append(g, x)) = Len(g) + 1
                   /\ \A i \in 1 .. Len(g) : Append(g, x)[i] = g[i]
                   /\ Append(g, x)[Len(g) + 1] = x
        OBVIOUS
      <3>2. /\ got'[t] \in Seq(1 .. MaxEntries) /\ Len(got'[t]) = Len(got[t]) + 1
            /\ \A i \in 1 .. Len(got[t]) : got'[t][i] = got[t][i]
            /\ got'[t][Len(got[t]) + 1] = from[t] + (Len(got[t]) + 1)
        <4> DEFINE g == got[t]
        <4>1. g \in Seq(1 .. MaxEntries) /\ got'[t] = Append(g, n + 1)
          BY <1>2, <2>1, <2>4
        <4>2. n + 1 = from[t] + (Len(g) + 1)
          BY <1>2
        <4> HIDE DEF g, n
        <4>3. /\ got'[t] \in Seq(1 .. MaxEntries) /\ Len(got'[t]) = Len(g) + 1
              /\ \A i \in 1 .. Len(g) : got'[t][i] = g[i]
              /\ got'[t][Len(g) + 1] = n + 1
          BY <2>4, <3>1, <4>1
        <4> QED
          BY <4>2, <4>3 DEF g
      <3>3. ASSUME NEW i \in 1 .. Len(got'[t]) PROVE got'[t][i] = from[t] + i
        <4>1. CASE i = Len(got[t]) + 1
          BY <3>2, <4>1
        <4>2. CASE i # Len(got[t]) + 1
          <5>1. i \in 1 .. Len(got[t])
            <6>1. \A l \in Nat : \A j \in 1 .. l + 1 : j # l + 1 => j \in 1 .. l
              OBVIOUS
            <6> QED
              BY <1>2, <3>2, <4>2, <6>1
          <5> QED
            BY <1>6, <3>2, <5>1
        <4> QED
          BY <4>1, <4>2
      <3> QED
        BY <3>2, <3>3
    <2>6. Flowing(t)'
      <3>1. from'[t] + Len(got'[t]) = n + 1
        <4>1. \A a, b \in Nat : a + (b + 1) = (a + b) + 1
          OBVIOUS
        <4> QED
          BY <1>1, <1>2, <2>5, <4>1
      <3>2. FlowOf(Pipe(t)', from'[t] + Len(got'[t]), top)
        BY <2>2, <2>3, <3>1
      <3> QED
        BY <1>1, <1>4, <3>2 DEF Flowing
    <2>7. \A i \in 1 .. Len(got'[t]) : got'[t][i] = from'[t] + i
      BY <1>1, <2>5
    <2> QED
      BY <1>1, <1>6, <2>1, <2>5, <2>6, <2>7 DEF TailInv
  <1>9. CASE frame[1] = "closed"
    <2>1. /\ got'[t] = got[t] /\ client'[t] = "ended" /\ heard'[t] = frame[2]
      BY <1>1, <1>9 DEF ReadEvent, TailTypeOK
    <2>2. heard'[t] # Unmarked => n = heard'[t]
      <3>1. frame = Closed(frame[2]) /\ frame[2] \in (0 .. MaxEntries) \union {Unmarked}
        BY <1>7, <1>9, FramesAreEvents
      <3>2. ASSUME frame[2] \in Nat PROVE frame[2] = n
        <4> HIDE DEF n
        <4> QED
          BY <1>2, <1>3, <1>4, <1>5, <3>1, <3>2, FlowEnds
      <3> QED
        BY <1>5, <2>1, <3>1, <3>2
    <2> QED
      BY <1>1, <1>2, <1>6, <2>1, <2>2 DEF TailInv
  <1>10. CASE frame[1] \notin {"entry", "closed"}
    <2>1. /\ got'[t] = got[t] /\ client'[t] = "reading"
          /\ heard'[t] = Unmarked /\ wire'[t] = Tail(wire[t])
      BY <1>1, <1>6, <1>10 DEF ReadEvent, TailTypeOK
    <2>2. Pipe(t)' = Tail(Pipe(t))
      BY <1>1, <1>3, <2>1 DEF Pipe
    <2>3. FlowOf(Tail(Pipe(t)), n, top)
      <3> HIDE DEF n
      <3> QED
        BY <1>2, <1>3, <1>4, <1>5, <1>10, FlowSkips
    <2>4. Flowing(t)'
      <3>1. FlowOf(Pipe(t)', from'[t] + Len(got'[t]), top)
        BY <1>1, <2>1, <2>2, <2>3
      <3> QED
        BY <1>1, <1>4, <3>1 DEF Flowing
    <2> QED
      BY <1>1, <1>2, <1>6, <2>1, <2>4 DEF TailInv
  <1> QED
    BY <1>8, <1>9, <1>10

LEMMA TailInvStep ==
    ASSUME TailTypeOK, NEW t \in Tails, TailInv(t), [TailNext]_tailVars
    PROVE  TailInv(t)'
  <1>1. CASE AppendEntry \/ SetStatus \/ AgentExits \/ StopSession
    BY <1>1, SessionBroadcasts
  <1>2. CASE RemoveSession
    BY <1>2, TailUntouched DEF RemoveSession, tailOnly, clientVars
  <1>3. ASSUME NEW u \in Tails, AckTail(u) \/ TailStep(u) \/ ReadEvent(u) \/ HangUp(u)
        PROVE  TailInv(t)'
    <2>1. CASE u # t
      BY <1>3, <2>1, OthersUntouched
    <2>2. CASE u = t
      BY <1>3, <2>2, TailAcked, TailSubscribes, TailForwards, TailCloses, ClientReads
        DEF TailStep
    <2> QED
      BY <2>1, <2>2
  <1>4. CASE UNCHANGED tailVars
    BY <1>4, TailUntouched DEF tailVars, transcriptVars, tailOnly, clientVars
  <1> QED
    BY <1>1, <1>2, <1>3, <1>4 DEF TailNext

\* The entries a client has are entries because of what the flow carries.
LEMMA TailTypeStep ==
    ASSUME TailTypeOK, \A t \in Tails : TailInv(t), [TailNext]_tailVars
    PROVE  TailTypeOK'
  <1>0. /\ MaxEntries \in Nat /\ MaxStatus \in Nat /\ Depth \in Nat /\ Depth > 0
        /\ WireRoom \in Nat
    BY Rooms
  <1>1. ASSUME NEW ev \in Seq(Events), Broadcast(ev)
        PROVE  /\ subscribers' \subseteq Tails /\ chan' \in [Tails -> Seq(Events)]
               /\ \A t \in Tails : Len(chan'[t]) <= Depth
    <2>1. subscribers' \subseteq Tails
      BY <1>1 DEF Broadcast, TailTypeOK
    <2>2. chan' \in [Tails -> Seq(Events)]
      <3>1. ASSUME NEW t \in Tails PROVE chan'[t] \in Seq(Events)
        BY <1>1, BroadcastEffect
      <3>2. chan' = [t \in Tails |-> chan'[t]]
        BY <1>1 DEF Broadcast
      <3> QED
        BY <3>1, <3>2
    <2>3. \A t \in Tails : Len(chan'[t]) <= Depth
      BY <1>1, BroadcastEffect
    <2> QED
      BY <2>1, <2>2, <2>3
  <1>2. CASE AppendEntry
    <2>1. <<Entry(entries + 1)>> \in Seq(Events)
      BY <1>2, FramesAreEvents DEF AppendEntry
    <2>2. entries' \in 0 .. MaxEntries
      BY <1>2, FramesAreEvents DEF AppendEntry
    <2> QED
      BY <1>1, <1>2, <2>1, <2>2 DEF AppendEntry, TailTypeOK, tailOnly, clientVars
  <1>3. CASE SetStatus
    <2>1. <<Status>> \in Seq(Events)
      BY FramesAreEvents
    <2>2. statuses' \in 0 .. MaxStatus
      BY <1>0, <1>3 DEF SetStatus, TailTypeOK
    <2> QED
      BY <1>1, <1>3, <2>1, <2>2 DEF SetStatus, TailTypeOK, tailOnly, clientVars
  <1>4. CASE AgentExits \/ StopSession
    <2>1. Farewell \in Seq(Events)
      BY FramesAreEvents DEF Farewell
    <2>2. over' \subseteq {"exited", "stopped"}
      BY <1>4 DEF AgentExits, StopSession, TailTypeOK
    <2> QED
      BY <1>1, <1>4, <2>1, <2>2 DEF AgentExits, StopSession, TailTypeOK, tailOnly, clientVars
  <1>5. CASE RemoveSession
    BY <1>5 DEF RemoveSession, TailTypeOK, tailOnly, clientVars
  <1>6. ASSUME NEW u \in Tails, AckTail(u) PROVE TailTypeOK'
    <2>1. mode' \in [Tails -> [follow: BOOLEAN, replay: BOOLEAN]]
      BY <1>6 DEF AckTail, TailTypeOK
    <2> QED
      BY <1>6, <2>1 DEF AckTail, TailTypeOK, Goto, transcriptVars
  <1>7. ASSUME NEW u \in Tails, FindSession(u) PROVE TailTypeOK'
    <2>1. <<NotFound, Closed(Unmarked)>> \in Seq(Events)
      BY FramesAreEvents
    <2>2. todo' \in [Tails -> Seq(Events)]
      BY <1>7, <2>1 DEF FindSession, TailTypeOK
    <2> QED
      BY <1>7, <2>2 DEF FindSession, TailTypeOK, Goto, transcriptVars, clientVars
  <1>8. ASSUME NEW u \in Tails, Subscribe(u) PROVE TailTypeOK'
    <2>1. Replay \in Seq(Events) /\ <<>> \in Seq(Events)
      BY FramesAreEvents DEF Replay
    <2>2. todo' \in [Tails -> Seq(Events)]
      BY <1>8, <2>1 DEF Subscribe, TailTypeOK
    <2>3. from' \in [Tails -> 0 .. MaxEntries]
      <3>1. 0 \in 0 .. MaxEntries /\ entries \in 0 .. MaxEntries
        BY <1>0, FramesAreEvents
      <3> QED
        BY <1>8, <3>1 DEF Subscribe, TailTypeOK
    <2>4. subscribers' \subseteq Tails /\ early' \subseteq Tails
      BY <1>8 DEF Subscribe, TailTypeOK
    <2> QED
      BY <1>8, <2>2, <2>3, <2>4 DEF Subscribe, TailTypeOK, Goto, transcriptVars, clientVars
  <1>9. ASSUME NEW u \in Tails, SendEvent(u) PROVE TailTypeOK'
    <2>1. wire[u] \in Seq(Events) /\ todo[u] \in Seq(Events) /\ todo[u] # <<>>
          /\ Len(wire[u]) < WireRoom
      BY <1>9, PipeIsTyped DEF SendEvent
    <2>2. Append(wire[u], Head(todo[u])) \in Seq(Events) /\ Tail(todo[u]) \in Seq(Events)
          /\ Len(Append(wire[u], Head(todo[u]))) <= WireRoom
      BY <1>0, <2>1
    <2>3. wire' \in [Tails -> Seq(Events)] /\ \A t \in Tails : Len(wire'[t]) <= WireRoom
      <3>1. \A t \in Tails : wire'[t] = IF t = u THEN Append(wire[u], Head(todo[u])) ELSE wire[t]
        BY <1>9 DEF SendEvent, TailTypeOK
      <3>2. wire' \in [Tails -> Seq(Events)]
        BY <1>9, <2>2 DEF SendEvent, TailTypeOK
      <3> QED
        BY <2>2, <3>1, <3>2 DEF TailTypeOK
    <2>4. todo' \in [Tails -> Seq(Events)]
      BY <1>9, <2>2 DEF SendEvent, TailTypeOK
    <2>5. tail' \in [Tails -> {"no", "acked", "found", "streaming", "closing", "done"}]
      BY <1>9 DEF SendEvent, TailTypeOK, Goto
    <2> QED
      BY <1>9, <2>3, <2>4, <2>5 DEF SendEvent, TailTypeOK, transcriptVars, clientVars
  <1>10. ASSUME NEW u \in Tails, SendFails(u) PROVE TailTypeOK'
    <2>1. \A t \in Tails : chan'[t] = IF t = u THEN <<>> ELSE chan[t]
      BY <1>10 DEF SendFails, TailTypeOK
    <2>2. <<>> \in Seq(Events) /\ Len(<<>>) <= Depth
      BY <1>0
    <2>3. chan' \in [Tails -> Seq(Events)] /\ todo' \in [Tails -> Seq(Events)]
      BY <1>10, <2>2 DEF SendFails, TailTypeOK
    <2>4. \A t \in Tails : Len(chan'[t]) <= Depth
      BY <2>1, <2>2 DEF TailTypeOK
    <2> QED
      BY <1>10, <2>3, <2>4 DEF SendFails, TailTypeOK, Goto, transcriptVars, clientVars
  <1>11. ASSUME NEW u \in Tails, RecvEvent(u) PROVE TailTypeOK'
    <2>1. chan[u] \in Seq(Events) /\ chan[u] # <<>> /\ Len(chan[u]) <= Depth
      BY <1>11 DEF RecvEvent, TailTypeOK
    <2>2. Head(chan[u]) \in Events /\ Tail(chan[u]) \in Seq(Events) /\ Len(Tail(chan[u])) <= Depth
      BY <1>0, <2>1
    <2>3. \A t \in Tails : chan'[t] = IF t = u THEN Tail(chan[u]) ELSE chan[t]
      BY <1>11 DEF RecvEvent, TailTypeOK
    <2>4. <<Head(chan[u])>> \in Seq(Events)
      BY <2>2
    <2>5. chan' \in [Tails -> Seq(Events)] /\ todo' \in [Tails -> Seq(Events)]
      BY <1>11, <2>2, <2>4 DEF RecvEvent, TailTypeOK
    <2>6. \A t \in Tails : Len(chan'[t]) <= Depth
      BY <2>2, <2>3 DEF TailTypeOK
    <2> QED
      BY <1>11, <2>5, <2>6 DEF RecvEvent, TailTypeOK, transcriptVars, clientVars
  <1>12. ASSUME NEW u \in Tails, StreamOver(u) PROVE TailTypeOK'
    <2>1. <<Closed(Unmarked)>> \in Seq(Events)
      BY FramesAreEvents
    <2>2. todo' \in [Tails -> Seq(Events)]
      BY <1>12, <2>1 DEF StreamOver, TailTypeOK
    <2> QED
      BY <1>12, <2>2 DEF StreamOver, TailTypeOK, Goto, transcriptVars, clientVars
  <1>13. ASSUME NEW u \in Tails, ReadEvent(u) PROVE TailTypeOK'
    <2>1. /\ wire[u] \in Seq(Events) /\ wire[u] # <<>> /\ Len(wire[u]) <= WireRoom
      BY <1>13 DEF ReadEvent, TailTypeOK
    <2>2. /\ Tail(wire[u]) \in Seq(Events) /\ Len(Tail(wire[u])) <= WireRoom
          /\ Head(wire[u]) \in Events /\ <<>> \in Seq(Events) /\ Len(<<>>) <= WireRoom
      BY <1>0, <2>1
    <2>3. got' \in [Tails -> Seq(1 .. MaxEntries)]
      <3>1. got'[u] \in Seq(1 .. MaxEntries)
        BY <1>13, ClientReads
      <3>2. CASE Head(wire[u])[1] = "entry"
        <4>1. PICK g : got' = [got EXCEPT ![u] = g]
          BY <1>13, <3>2 DEF ReadEvent
        <4>2. g \in Seq(1 .. MaxEntries)
          BY <3>1, <4>1 DEF TailTypeOK
        <4> QED
          BY <4>1, <4>2 DEF TailTypeOK
      <3>3. CASE Head(wire[u])[1] # "entry"
        BY <1>13, <3>3 DEF ReadEvent, TailTypeOK
      <3> QED
        BY <3>2, <3>3
    <2>4. wire' \in [Tails -> Seq(Events)] /\ \A t \in Tails : Len(wire'[t]) <= WireRoom
      <3>1. PICK w \in {Tail(wire[u]), <<>>} : wire' = [wire EXCEPT ![u] = w]
        BY <1>13 DEF ReadEvent
      <3>2. w \in Seq(Events) /\ Len(w) <= WireRoom
        BY <2>2
      <3>3. \A t \in Tails : wire'[t] = IF t = u THEN w ELSE wire[t]
        BY <3>1 DEF TailTypeOK
      <3>4. wire' \in [Tails -> Seq(Events)]
        BY <3>1, <3>2 DEF TailTypeOK
      <3> QED
        BY <3>2, <3>3, <3>4 DEF TailTypeOK
    <2>5. heard' \in [Tails -> (0 .. MaxEntries) \union {Unmarked}]
      <3>1. Head(wire[u])[2] \in (0 .. MaxEntries) \union {Unmarked}
        BY <2>2, FramesAreEvents
      <3> QED
        BY <1>13, <3>1 DEF ReadEvent, TailTypeOK
    <2>6. client' \in [Tails -> {"no", "reading", "left", "ended"}]
      <3>1. client' = client \/ client' = [client EXCEPT ![u] = "ended"]
        BY <1>13 DEF ReadEvent
      <3> QED
        BY <3>1 DEF TailTypeOK
    <2> QED
      BY <1>13, <2>3, <2>4, <2>5, <2>6 DEF ReadEvent, TailTypeOK, transcriptVars, tailOnly
  <1>14. ASSUME NEW u \in Tails, HangUp(u) PROVE TailTypeOK'
    <2>1. <<>> \in Seq(Events) /\ Len(<<>>) <= WireRoom
      BY <1>0
    <2>2. \A t \in Tails : wire'[t] = IF t = u THEN <<>> ELSE wire[t]
      BY <1>14 DEF HangUp, TailTypeOK
    <2>3. wire' \in [Tails -> Seq(Events)] /\ \A t \in Tails : Len(wire'[t]) <= WireRoom
      BY <1>14, <2>1, <2>2 DEF HangUp, TailTypeOK
    <2> QED
      BY <1>14, <2>3 DEF HangUp, TailTypeOK, transcriptVars, tailOnly
  <1>15. CASE UNCHANGED tailVars
    BY <1>15 DEF tailVars, transcriptVars, tailOnly, clientVars, TailTypeOK
  <1> QED
    BY <1>2, <1>3, <1>4, <1>5, <1>6, <1>7, <1>8, <1>9, <1>10, <1>11, <1>12, <1>13, <1>14,
       <1>15 DEF TailNext, TailStep

LEMMA TailInvHolds == TailSpec => [](TailTypeOK /\ \A t \in Tails : TailInv(t))
  <1> DEFINE Inv == TailTypeOK /\ \A t \in Tails : TailInv(t)
  <1>1. TailInit => Inv
    <2> SUFFICES ASSUME TailInit PROVE Inv
      OBVIOUS
    <2>1. /\ 0 \in 0 .. MaxEntries /\ 0 \in 0 .. MaxStatus /\ <<>> \in Seq(Events)
          /\ <<>> \in Seq(1 .. MaxEntries) /\ Len(<<>>) <= Depth /\ Len(<<>>) <= WireRoom
      BY Rooms
    <2>2. TailTypeOK
      BY <2>1 DEF TailInit, TailTypeOK
    <2>3. \A t \in Tails : TailInv(t)
      BY DEF TailInit, TailInv
    <2> QED
      BY <2>2, <2>3
  <1>2. Inv /\ [TailNext]_tailVars => Inv'
    BY TailTypeStep, TailInvStep
  <1> QED
    BY <1>1, <1>2, PTL DEF TailSpec

\* A client of agt.tail sees the transcript from its first entry on, each
\* entry once and in order, and all of them when Closed ends its stream.
THEOREM TailIsComplete == TailSpec => []TailHasNoGap
  <1>1. TailTypeOK /\ (\A t \in Tails : TailInv(t)) => TailHasNoGap
    <2> SUFFICES ASSUME TailTypeOK, NEW t \in Tails, TailInv(t)
                 PROVE  /\ got[t] = [i \in 1 .. Len(got[t]) |-> from[t] + i]
                        /\ heard[t] # Unmarked => from[t] + Len(got[t]) = heard[t]
      BY DEF TailHasNoGap
    <2>1. got[t] \in Seq(1 .. MaxEntries) /\ \A i \in 1 .. Len(got[t]) : got[t][i] = from[t] + i
      BY DEF TailTypeOK, TailInv
    <2>2. got[t] = [i \in 1 .. Len(got[t]) |-> got[t][i]]
      BY <2>1
    <2> QED
      BY <2>1, <2>2 DEF TailInv
  <1> QED
    BY <1>1, TailInvHolds, PTL

-----------------------------------------------------------------------------
(* The tails implement the log of LogStream. *)

\* The abstract start.
Start == [t \in Tails |-> IF Placed(t) THEN from[t] ELSE Unmarked]

\* A step that keeps what the clients have, and where they were placed, shows
\* nothing of itself in the log.
LEMMA TailStutters ==
    ASSUME UNCHANGED <<entries, client, got, heard>>,
           \A t \in Tails : Placed(t)' = Placed(t) /\ from'[t] = from[t]
    PROVE  UNCHANGED Stream!logVars
  <1>1. Start' = Start
    BY DEF Start
  <1> QED
    BY <1>1 DEF Start, Stream!logVars

\* The reader of t is placed by its replay and subscription, or by the answer
\* that there is no such session.
LEMMA TailPlaces ==
    ASSUME TailTypeOK, NEW t \in Tails, TailInv(t), ~Placed(t), Placed(t)',
           client[t] # "no", UNCHANGED <<entries, client, got, heard>>,
           from'[t] \in {0, entries},
           \A u \in Tails \ {t} : Placed(u)' = Placed(u) /\ from'[u] = from[u]
    PROVE  Stream!Place(t)
  <1>1. Start[t] = Unmarked
    BY DEF Start
  <1>2. Start' = [Start EXCEPT ![t] = from'[t]]
    BY DEF Start
  <1> QED
    BY <1>1, <1>2 DEF Stream!Place, Start

\* The client's frame is the next entry of the log, the end, or nothing.
LEMMA ReadMaps ==
    ASSUME TailTypeOK, NEW t \in Tails, TailInv(t), ReadEvent(t)
    PROVE  [Stream!LogNext]_Stream!logVars
  <1> DEFINE frame == Head(wire[t])
  <1>1. /\ client[t] = "reading" /\ entries' = entries /\ from' = from /\ tail' = tail
        /\ Placed(t) /\ heard[t] = Unmarked
    BY DEF ReadEvent, tailOnly, transcriptVars, TailInv, Placed
  <1>2. Start' = Start /\ Start[t] = from[t]
    BY <1>1 DEF Start, Placed
  <1>3. from[t] \in Nat /\ Len(got[t]) \in Nat /\ from[t] # Unmarked /\ entries \in Nat
    BY PipeIsTyped, FramesAreEvents, UnmarkedIsNew
  <1>4. TailInv(t)' /\ got'[t] \in Seq(1 .. MaxEntries)
    BY ClientReads
  <1>5. CASE frame[1] = "entry"
    <2>1. /\ got' = [got EXCEPT ![t] = Append(got[t], frame[2])]
          /\ client' = client /\ heard' = heard
      BY <1>5 DEF ReadEvent
    <2>2. got'[t] = Append(got[t], frame[2]) /\ got[t] \in Seq(1 .. MaxEntries)
      BY <2>1 DEF TailTypeOK
    <2>3. Len(got'[t]) = Len(got[t]) + 1 /\ got'[t][Len(got[t]) + 1] = frame[2]
      BY <2>2
    <2>4. frame[2] = from[t] + Len(got[t]) + 1
      <3>1. \A i \in 1 .. Len(got'[t]) : got'[t][i] = from'[t] + i
        BY <1>4 DEF TailInv
      <3>2. Len(got[t]) + 1 \in 1 .. Len(got'[t])
        BY <1>3, <2>3
      <3>3. frame[2] = from[t] + (Len(got[t]) + 1)
        BY <1>1, <2>3, <3>1, <3>2
      <3> QED
        BY <1>3, <3>3
    <2>5. from[t] + Len(got[t]) < entries
      <3>1. Flowing(t)'
        BY <1>1, <1>4, <2>1 DEF TailInv
      <3>2. from'[t] + Len(got'[t]) <= entries'
        <4>1. PICK top \in 0 .. entries' : FlowOf(Pipe(t)', from'[t] + Len(got'[t]), top)
          BY <3>1 DEF Flowing
        <4>2. from'[t] + Len(got'[t]) <= top
          BY <4>1 DEF FlowOf
        <4> QED
          BY <1>1, <1>3, <2>3, <4>2
      <3> QED
        BY <1>1, <1>3, <2>3, <3>2
    <2>6. Stream!Deliver(t)
      BY <1>1, <1>2, <1>3, <2>1, <2>4, <2>5 DEF Stream!Deliver, Stream!Position, Start
    <2> QED
      BY <2>6 DEF Stream!LogNext
  <1>6. CASE frame[1] = "closed"
    <2>1. /\ got' = got /\ client' = [client EXCEPT ![t] = "ended"]
          /\ heard' = [heard EXCEPT ![t] = frame[2]]
      BY <1>6 DEF ReadEvent
    <2>2. frame[2] \in {from[t] + Len(got[t]), Unmarked}
      BY <1>1, <1>4, <2>1 DEF TailInv, TailTypeOK
    <2>3. Stream!Finish(t)
      BY <1>1, <1>2, <1>3, <2>1, <2>2 DEF Stream!Finish, Stream!Position, Start
    <2> QED
      BY <2>3 DEF Stream!LogNext
  <1>7. CASE frame[1] \notin {"entry", "closed"}
    BY <1>1, <1>7, TailStutters DEF ReadEvent, Placed
  <1> QED
    BY <1>5, <1>6, <1>7

LEMMA TailStepMaps ==
    ASSUME TailTypeOK, \A t \in Tails : TailInv(t), [TailNext]_tailVars
    PROVE  [Stream!LogNext]_Stream!logVars
  <1>1. CASE AppendEntry
    <2>1. Start' = Start
      BY <1>1 DEF AppendEntry, tailOnly, Start, Placed
    <2>2. Stream!Grow
      BY <1>1, <2>1 DEF AppendEntry, clientVars, Stream!Grow, Start
    <2> QED
      BY <2>2 DEF Stream!LogNext
  <1>2. CASE SetStatus \/ AgentExits \/ StopSession \/ RemoveSession
    BY <1>2, TailStutters
      DEF SetStatus, AgentExits, StopSession, RemoveSession, tailOnly, clientVars, Placed
  <1>3. ASSUME NEW t \in Tails, AckTail(t) PROVE [Stream!LogNext]_Stream!logVars
    <2>1. Start' = Start
      BY <1>3 DEF AckTail, Goto, Start, Placed, TailTypeOK
    <2>2. client[t] = "no"
      BY <1>3 DEF AckTail, TailInv, TailTypeOK
    <2>3. Stream!Open(t)
      BY <1>3, <2>1, <2>2 DEF AckTail, transcriptVars, Stream!Open, Start
    <2> QED
      BY <2>3 DEF Stream!LogNext
  <1>4. ASSUME NEW t \in Tails, FindSession(t) \/ Subscribe(t)
        PROVE  [Stream!LogNext]_Stream!logVars
    <2>1. /\ ~Placed(t) /\ client[t] # "no" /\ from[t] = 0
          /\ UNCHANGED <<entries, client, got, heard>>
          /\ \A u \in Tails \ {t} : tail'[u] = tail[u] /\ from'[u] = from[u]
      BY <1>4 DEF FindSession, Subscribe, Goto, Placed, TailInv, TailTypeOK,
                  transcriptVars, clientVars
    <2>2. CASE Placed(t)'
      <3>1. from'[t] \in {0, entries}
        BY <1>4, <2>1 DEF FindSession, Subscribe, TailTypeOK
      <3>2. Stream!Place(t)
        BY <2>1, <2>2, <3>1, TailPlaces DEF Placed
      <3> QED
        BY <3>2 DEF Stream!LogNext
    <2>3. CASE ~Placed(t)'
      <3>1. FindSession(t)
        BY <1>4, <2>3 DEF Subscribe, Goto, Placed, TailTypeOK
      <3> QED
        BY <2>1, <2>3, <3>1, TailStutters DEF FindSession, Placed
    <2> QED
      BY <2>2, <2>3
  <1>5. ASSUME NEW t \in Tails, SendEvent(t) \/ SendFails(t) \/ RecvEvent(t) \/ StreamOver(t)
        PROVE  UNCHANGED Stream!logVars
    <2>1. /\ UNCHANGED <<entries, client, got, heard>> /\ from' = from
          /\ \A u \in Tails \ {t} : tail'[u] = tail[u]
      BY <1>5 DEF SendEvent, SendFails, RecvEvent, StreamOver, Goto, transcriptVars,
                  clientVars, TailTypeOK
    <2>2. tail[t] \notin {"no", "acked", "found"}
      BY <1>5 DEF SendEvent, SendFails, RecvEvent, StreamOver, TailInv
    <2>3. tail'[t] \notin {"no", "acked", "found"}
      BY <1>5, <2>2 DEF SendEvent, SendFails, RecvEvent, StreamOver, Goto, TailTypeOK
    <2> QED
      BY <2>1, <2>2, <2>3, TailStutters DEF Placed
  <1>6. ASSUME NEW t \in Tails, HangUp(t) PROVE [Stream!LogNext]_Stream!logVars
    <2>1. Start' = Start
      BY <1>6 DEF HangUp, tailOnly, Start, Placed
    <2>2. Stream!Leave(t)
      BY <1>6, <2>1 DEF HangUp, transcriptVars, Stream!Leave, Start
    <2> QED
      BY <2>2 DEF Stream!LogNext
  <1>7. CASE UNCHANGED tailVars
    BY <1>7, TailStutters DEF tailVars, transcriptVars, tailOnly, clientVars, Placed
  <1> QED
    BY <1>1, <1>2, <1>3, <1>4, <1>5, <1>6, <1>7, ReadMaps DEF TailNext, TailStep

\* agt.tail implements the growing log: the lock, the channels that fill up,
\* the tasks and the sockets between the transcript and a client never show.
THEOREM TailImplementsLog == TailSpec => ImplementsLog
  <1>1. TailInit => Stream!LogInit
    BY DEF TailInit, Stream!LogInit, Placed
  <1> QED
    BY <1>1, TailInvHolds, TailStepMaps, PTL DEF TailSpec, ImplementsLog, Stream!LogSpec
=============================================================================
