--------------------------- MODULE KnowledgeProofs ---------------------------
(***************************************************************************)
(* What is proved of KnowledgeDaemon for every value of its constants:     *)
(* what an incremental pass skips is in qdrant, and without failures no    *)
(* point is orphaned.                                                      *)
(***************************************************************************)
EXTENDS KnowledgeDaemon, TLAPS

-----------------------------------------------------------------------------
(* Types. *)

LEMMA PointFacts ==
  /\ \A f \in Files : PointsOf(f) \subseteq Points
  /\ \A f : \A p \in PointsOf(f) : p[1] = f
  /\ \A p \in Points : p[1] \in Files /\ p \in PointsOf(p[1])
  BY DEF Points, PointsOf

LEMMA NoPassType == NoPass \in Passes /\ [f \in Files |-> None] \in Indexes
  <1>1. 0 \in Versions
    BY ChunksAssumption DEF Versions
  <1>2. [f \in Files |-> None] \in Indexes
    BY DEF Indexes
  <1>3. [f \in Files |-> 0] \in [Files -> Versions]
    BY <1>1
  <1>4. << >> \in Seq(Files)
    OBVIOUS
  <1> QED
    BY <1>2, <1>3, <1>4 DEF NoPass, Passes

LEMMA KTypes ==
  ASSUME KTypeOK
  PROVE  /\ disk \in [Files -> [ver: Versions, mtime: Versions]]
         /\ enabled \in SUBSET Files
         /\ index \in Indexes
         /\ qdrant \in [Points -> Versions]
         /\ loopAt \in {"loop", "decide", "purge", "start", "walk", "embed", "save", "down"}
         /\ folders \in SUBSET Files /\ retire \in SUBSET Files
         /\ want \in [user: BOOLEAN, fs: BOOLEAN, full: BOOLEAN]
         /\ first \in BOOLEAN /\ due \in BOOLEAN
         /\ pass \in Passes
         /\ ops \in SUBSET Ops
         /\ paused \in BOOLEAN /\ cancel \in BOOLEAN /\ ready \in BOOLEAN
         /\ suspect \in SUBSET Files
         /\ edits \in 0 .. MaxEdits /\ calls \in 0 .. MaxOps /\ faults \in 0 .. MaxFaults
  BY Zenon DEF KTypeOK

\* The parts of a pass.
LEMMA PassTypes ==
  ASSUME KTypeOK
  PROVE  /\ pass.full \in BOOLEAN /\ pass.idx \in Indexes /\ pass.jobs \in SUBSET Files
         /\ pass.seen \in SUBSET Files /\ pass.pending \in Seq(Files)
         /\ pass.ver \in [Files -> Versions] /\ pass.todo \in SUBSET Points
         /\ pass.ids \in SUBSET Points
         /\ Pending \in SUBSET Files
  <1>1. pass \in Passes
    BY KTypes
  <1>2. /\ pass.full \in BOOLEAN /\ pass.idx \in Indexes /\ pass.jobs \in SUBSET Files
        /\ pass.seen \in SUBSET Files /\ pass.pending \in Seq(Files)
        /\ pass.ver \in [Files -> Versions] /\ pass.todo \in SUBSET Points
        /\ pass.ids \in SUBSET Points
    BY <1>1 DEF Passes
  <1>3. Pending \in SUBSET Files
    BY <1>2 DEF Pending
  <1> QED
    BY <1>2, <1>3

LEMMA WithoutType ==
  ASSUME KTypeOK, NEW points
  PROVE  /\ Without(qdrant, points) \in [Points -> Versions]
         /\ \A p \in Points : Without(qdrant, points)[p] = IF p \in points THEN 0 ELSE qdrant[p]
  <1>1. 0 \in Versions
    BY ChunksAssumption DEF Versions
  <1>2. qdrant \in [Points -> Versions]
    BY KTypes
  <1> QED
    BY <1>1, <1>2 DEF Without

\* faults goes up by one, where it may.
LEMMA FaultType ==
  ASSUME KTypeOK, faults' = faults \/ (faults < MaxFaults /\ faults' = faults + 1)
  PROVE  faults' \in 0 .. MaxFaults
  <1>1. faults \in 0 .. MaxFaults /\ MaxFaults \in Nat
    BY KTypes, ChunksAssumption
  <1> QED
    BY <1>1

LEMMA LoopTypes ==
  ASSUME KTypeOK, LoopStep
  PROVE  KTypeOK'
  <1>a. NoWants \in [user: BOOLEAN, fs: BOOLEAN, full: BOOLEAN]
    BY DEF NoWants
  <1>1. CASE DrainOps
    <2>1. loopAt' \in {"loop", "decide", "purge", "start", "walk", "embed", "save", "down"}
      BY <1>1 DEF DrainOps
    <2>2. ops' \in SUBSET Ops
      BY <1>1 DEF DrainOps
    <2>3. folders' \in SUBSET Files /\ retire' \in SUBSET Files
      BY <1>1, KTypes DEF DrainOps, loopVars
    <2>4. first' \in BOOLEAN /\ due' \in BOOLEAN
      BY <1>1, KTypes DEF DrainOps, loopVars
    <2>5. want' \in [user: BOOLEAN, fs: BOOLEAN, full: BOOLEAN]
      <3>1. CASE "Shutdown" \in ops
        BY <1>1, <3>1, KTypes DEF DrainOps, loopVars
      <3>2. ASSUME "Shutdown" \notin ops
            PROVE  \E u, v, w \in BOOLEAN : want' = [user |-> u, fs |-> v, full |-> w]
        <4>1. first \in BOOLEAN
          BY KTypes
        <4> DEFINE rescan == {"RescanDiscovery", "RefreshSources"} \intersect ops # {}
                   changed == rescan /\ folders # enabled
                   u == first \/ changed \/ {"IndexNow", "RefreshSources"} \intersect ops # {}
                   v == "FsTickle" \in ops
                   w == "FullResync" \in ops
        <4>2. want' = [user |-> u, fs |-> v, full |-> w]
          BY <1>1, <3>2, Zenon DEF DrainOps
        <4>3. u \in BOOLEAN /\ v \in BOOLEAN /\ w \in BOOLEAN
          BY <4>1
        <4> HIDE DEF u, v, w
        <4> QED
          BY <4>2, <4>3
      <3> QED
        BY <3>1, <3>2
    <2> QED
      BY <1>1, <2>1, <2>2, <2>3, <2>4, <2>5, Zenon
      DEF KTypeOK, DrainOps, diskVars, storeVars, flagVars, boundVars
  <1>2. CASE DeleteSource
    <2>1. qdrant' \in [Points -> Versions]
      BY <1>2, KTypes, WithoutType DEF DeleteSource
    <2>2. faults' \in 0 .. MaxFaults
      BY <1>2, FaultType DEF DeleteSource
    <2>3. loopAt' \in {"loop", "decide", "purge", "start", "walk", "embed", "save", "down"}
      BY <1>2 DEF DeleteSource
    <2> QED
      BY <1>2, <2>1, <2>2, <2>3, Zenon
      DEF KTypeOK, DeleteSource, diskVars, loopVars, flagVars
  <1>3. CASE Purge
    <2>1. index' \in Indexes /\ retire' \in SUBSET Files
      BY <1>3, KTypes DEF Purge, Indexes
    <2>2. loopAt' \in {"loop", "decide", "purge", "start", "walk", "embed", "save", "down"}
      BY <1>3 DEF Purge
    <2> QED
      BY <1>3, <2>1, <2>2, Zenon DEF KTypeOK, Purge, diskVars, flagVars, boundVars
  <1>4. CASE DecidePass
    <2>1. pass' \in Passes
      <3>1. want.full \in BOOLEAN
        <4>1. want \in [user: BOOLEAN, fs: BOOLEAN, full: BOOLEAN]
          BY KTypes
        <4> QED
          BY <4>1
      <3>2. [NoPass EXCEPT !.full = want.full] \in Passes
        BY <3>1, NoPassType DEF Passes
      <3> QED
        BY <1>4, <3>2, KTypes DEF DecidePass
    <2>2. loopAt' \in {"loop", "decide", "purge", "start", "walk", "embed", "save", "down"}
      BY <1>4 DEF DecidePass
    <2> QED
      BY <1>4, <1>a, <2>1, <2>2, Zenon
      DEF KTypeOK, DecidePass, diskVars, storeVars, flagVars, boundVars
  <1>5. CASE StartPass
    <2> DEFINE idx == IF pass.full THEN [f \in Files |-> None] ELSE index
    <2>1. idx \in Indexes
      BY KTypes, NoPassType
    <2>2. pass' \in Passes
      <3>1. [pass EXCEPT !.idx = idx, !.jobs = enabled] \in Passes
        <4>1. pass \in Passes /\ enabled \in SUBSET Files
          BY KTypes
        <4> HIDE DEF idx
        <4> QED
          BY <2>1, <4>1 DEF Passes
      <3> QED
        BY <1>5, <3>1, NoPassType DEF StartPass, PassOver
    <2>3. index' \in Indexes /\ due' \in BOOLEAN
      BY <1>5, <2>1, KTypes DEF StartPass, PassOver, storeVars
    <2>4. qdrant' \in [Points -> Versions]
      <3>1. 0 \in Versions
        BY ChunksAssumption DEF Versions
      <3>2. qdrant \in [Points -> Versions] /\ [p \in Points |-> 0] \in [Points -> Versions]
        BY <3>1, KTypes
      <3> QED
        BY <1>5, <3>2 DEF StartPass, storeVars
    <2>5. loopAt' \in {"loop", "decide", "purge", "start", "walk", "embed", "save", "down"}
      BY <1>5 DEF StartPass, PassOver
    <2>6. faults' \in 0 .. MaxFaults
      BY <1>5, FaultType DEF StartPass
    <2>7. cancel' \in BOOLEAN
      BY <1>5 DEF StartPass
    <2> QED
      BY <1>5, <2>2, <2>3, <2>4, <2>5, <2>6, <2>7, Zenon DEF KTypeOK, StartPass, diskVars
  <1> QED
    BY <1>1, <1>2, <1>3, <1>4, <1>5 DEF LoopStep

LEMMA PassStepTypes ==
  ASSUME KTypeOK, PassStep \/ PassFails
  PROVE  KTypeOK'
  <1>a. pass \in Passes /\ qdrant \in [Points -> Versions] /\ index \in Indexes
    BY KTypes
  <1>1. ASSUME NEW f \in Files, Walk(f) PROVE KTypeOK'
    <2>1. /\ pass.seen \union {f} \in SUBSET Files /\ Append(pass.pending, f) \in Seq(Files)
          /\ [pass.idx EXCEPT ![f] = None] \in Indexes
          /\ [pass.ver EXCEPT ![f] = disk[f].ver] \in [Files -> Versions]
      <3>1. disk \in [Files -> [ver: Versions, mtime: Versions]]
        BY KTypes
      <3>2. disk[f].ver \in Versions
        BY <3>1
      <3>3. pass.pending \in Seq(Files) /\ pass.seen \in SUBSET Files
        BY PassTypes
      <3>4. pass.idx \in Indexes /\ pass.ver \in [Files -> Versions]
        BY PassTypes
      <3>5. Append(pass.pending, f) \in Seq(Files)
        BY <3>3
      <3>6. [pass.idx EXCEPT ![f] = None] \in Indexes
        BY <3>4 DEF Indexes
      <3>7. [pass.ver EXCEPT ![f] = disk[f].ver] \in [Files -> Versions]
        BY <3>2, <3>4
      <3> QED
        BY <3>3, <3>5, <3>6, <3>7
    <2>2. pass' \in Passes
      <3>1. [pass EXCEPT !.seen = pass.seen \union {f}] \in Passes
        BY <1>a, <2>1 DEF Passes
      <3>2. [[pass EXCEPT !.seen = pass.seen \union {f}]
               EXCEPT !.idx = [pass.idx EXCEPT ![f] = None],
                      !.pending = Append(pass.pending, f),
                      !.ver = [pass.ver EXCEPT ![f] = disk[f].ver]] \in Passes
        BY <2>1, <3>1 DEF Passes
      <3> QED
        BY <1>1, <3>1, <3>2 DEF Walk
    <2>3. qdrant' \in [Points -> Versions]
      BY <1>1, <1>a, WithoutType DEF Walk
    <2> QED
      BY <1>1, <2>2, <2>3, Zenon DEF KTypeOK, Walk, diskVars, loopVars, flagVars, boundVars
  <1>2. CASE Walked
    <2>1. UNION {PointsOf(f) : f \in Pending} \in SUBSET Points
      BY PassTypes, PointFacts
    <2>2. [pass EXCEPT !.todo = UNION {PointsOf(f) : f \in Pending}] \in Passes
      BY <1>a, <2>1 DEF Passes
    <2>3. loopAt' \in {"loop", "decide", "purge", "start", "walk", "embed", "save", "down"}
      BY <1>2 DEF Walked
    <2> QED
      BY <1>2, <2>2, <2>3, Zenon
      DEF KTypeOK, Walked, diskVars, storeVars, loopVars, flagVars, boundVars
  <1>3. CASE EmbedBatch
    <2>1. pass.ids \union NextBatch \in SUBSET Points /\ pass.todo \ NextBatch \in SUBSET Points
      BY PassTypes DEF NextBatch
    <2>2. [pass EXCEPT !.ids = pass.ids \union NextBatch, !.todo = pass.todo \ NextBatch] \in Passes
      BY <1>a, <2>1 DEF Passes
    <2>3. qdrant' \in [Points -> Versions]
      <3>1. \A p \in Points : pass.ver[p[1]] \in Versions
        BY PassTypes, PointFacts
      <3>2. qdrant' = [p \in Points |-> IF p \in NextBatch THEN pass.ver[p[1]] ELSE qdrant[p]]
        BY <1>3 DEF EmbedBatch
      <3> QED
        BY <1>a, <3>1, <3>2
    <2> QED
      BY <1>3, <2>2, <2>3, Zenon DEF KTypeOK, EmbedBatch, diskVars, loopVars, flagVars, boundVars
  <1>4. CASE Commit
    <2>1. Committed \in Indexes
      <3>1. ASSUME NEW f \in Files
            PROVE  [mtime |-> disk[f].mtime, ver |-> pass.ver[f], points |-> Ids(f)] \in Entries
        <4>1. disk \in [Files -> [ver: Versions, mtime: Versions]]
          BY KTypes
        <4>2. disk[f].mtime \in Versions
          BY <4>1
        <4>3. pass.ver[f] \in Versions /\ Ids(f) \in SUBSET Points
          BY PassTypes DEF Ids
        <4> QED
          BY <4>2, <4>3 DEF Entries
      <3>2. pass.idx \in [Files -> Entries \union {None}]
        BY PassTypes DEF Indexes
      <3>3. ASSUME NEW f \in Files
            PROVE  (IF f \in Done
                    THEN [mtime |-> disk[f].mtime, ver |-> pass.ver[f], points |-> Ids(f)]
                    ELSE pass.idx[f]) \in Entries \union {None}
        BY <3>1, <3>2
      <3> QED
        BY <3>3 DEF Committed, Indexes
    <2> DEFINE stale == IF cancel THEN {} ELSE {f \in Files \ pass.seen : Committed[f] # None}
               idx == [f \in Files |-> IF f \in stale THEN None ELSE Committed[f]]
    <2>2. idx \in Indexes
      BY <2>1 DEF Indexes
    <2>3. pass' = [pass EXCEPT !.idx = idx]
      BY <1>4 DEF Commit
    <2>4. qdrant' \in [Points -> Versions]
      BY <1>4, <1>a, WithoutType DEF Commit
    <2>5. faults' \in 0 .. MaxFaults
      BY <1>4, FaultType DEF Commit
    <2> HIDE DEF idx, stale
    <2>6. pass' \in Passes
      BY <1>a, <2>2, <2>3 DEF Passes
    <2>7. loopAt' \in {"loop", "decide", "purge", "start", "walk", "embed", "save", "down"}
      BY <1>4 DEF Commit
    <2>8. suspect' \in SUBSET Files
      BY <1>4 DEF Commit
    <2> QED
      BY <1>4, <2>4, <2>5, <2>6, <2>7, <2>8, Zenon
      DEF KTypeOK, Commit, diskVars, loopVars, flagVars
  <1>5. CASE Save
    <2>1. index' \in Indexes
      BY <1>5, PassTypes DEF Save
    <2>2. suspect' \in SUBSET Files
      BY <1>5, KTypes DEF Save
    <2>3. /\ loopAt' \in {"loop", "decide", "purge", "start", "walk", "embed", "save", "down"}
          /\ pass' \in Passes /\ due' \in BOOLEAN /\ cancel' \in BOOLEAN
      BY <1>5, NoPassType DEF Save, PassOver
    <2> QED
      BY <1>5, <2>1, <2>2, <2>3, Zenon DEF KTypeOK, Save, diskVars, boundVars
  <1>6. CASE PassFails
    <2>1. suspect' \in SUBSET Files
      BY <1>6, KTypes DEF PassFails, Abandoned
    <2>2. faults' \in 0 .. MaxFaults
      BY <1>6, FaultType DEF PassFails
    <2>3. /\ loopAt' \in {"loop", "decide", "purge", "start", "walk", "embed", "save", "down"}
          /\ pass' \in Passes /\ due' \in BOOLEAN /\ cancel' \in BOOLEAN
      BY <1>6, NoPassType DEF PassFails, PassOver
    <2> QED
      BY <1>6, <2>1, <2>2, <2>3, Zenon DEF KTypeOK, PassFails, diskVars, storeVars
  <1> QED
    BY <1>1, <1>2, <1>3, <1>4, <1>5, <1>6 DEF PassStep

LEMMA CallTypes ==
  ASSUME KTypeOK, \/ \E op \in Ops \ {"FsTickle"} : SendOp(op)
                  \/ Pause \/ Resume \/ TogglePause \/ CancelPass
  PROVE  KTypeOK'
  <1>a. ASSUME Call PROVE calls' \in 0 .. MaxOps
    <2>1. calls \in 0 .. MaxOps /\ MaxOps \in Nat
      BY KTypes, ChunksAssumption
    <2> QED
      BY <1>a, <2>1 DEF Call
  <1>1. ASSUME NEW op \in Ops \ {"FsTickle"}, SendOp(op) PROVE KTypeOK'
    <2>1. ops' \in SUBSET Ops
      BY <1>1, KTypes DEF SendOp
    <2> QED
      BY <1>1, <1>a, <2>1, Zenon DEF KTypeOK, SendOp, diskVars, storeVars, loopVars, flagVars
  <1>2. CASE Pause
    <2>1. paused' \in BOOLEAN /\ cancel' \in BOOLEAN
      BY <1>2 DEF Pause
    <2> QED
      BY <1>2, <1>a, <2>1, Zenon DEF KTypeOK, Pause, diskVars, storeVars, loopVars
  <1>3. CASE Resume
    <2>1. ops' \in SUBSET Ops /\ paused' \in BOOLEAN
      BY <1>3, KTypes DEF Resume, Ops
    <2> QED
      BY <1>3, <1>a, <2>1, Zenon DEF KTypeOK, Resume, diskVars, storeVars, loopVars
  <1>4. CASE CancelPass
    <2>1. cancel' \in BOOLEAN
      BY <1>4 DEF CancelPass
    <2> QED
      BY <1>4, <1>a, <2>1, Zenon DEF KTypeOK, CancelPass, diskVars, storeVars, loopVars
  <1> QED
    BY <1>1, <1>2, <1>3, <1>4 DEF TogglePause

\* While a folder is retired, there is one.
PurgeInv == loopAt = "purge" => retire # {}

LEMMA EnvironmentTypes ==
  ASSUME KTypeOK, PurgeInv,
                  \/ \E f \in Files : Edit(f) \/ Unlink(f) \/ Toggle(f)
                  \/ IntervalElapses \/ Recover \/ KCrash
  PROVE  KTypeOK'
  <1>a. ASSUME EditBound
        PROVE  edits' \in 0 .. MaxEdits /\ edits + 2 \in Versions /\ 0 \in Versions
    <2>1. edits \in 0 .. MaxEdits /\ MaxEdits \in Nat
      BY KTypes, ChunksAssumption
    <2> QED
      BY <1>a, <2>1 DEF EditBound, Versions
  <1>b. disk \in [Files -> [ver: Versions, mtime: Versions]]
    BY KTypes
  <1>1. ASSUME NEW f \in Files, Edit(f) PROVE KTypeOK'
    <2>1. disk' \in [Files -> [ver: Versions, mtime: Versions]]
      <3>1. PICK m \in Versions : disk' = [disk EXCEPT ![f] = [ver |-> edits + 2, mtime |-> m]]
        BY <1>1, <1>a, <1>b DEF Edit
      <3> QED
        BY <1>1, <1>a, <1>b, <3>1 DEF Edit
    <2>2. suspect' \in SUBSET Files
      BY <1>1, KTypes DEF Edit
    <2>3. ops' \in SUBSET Ops
      BY <1>1, KTypes DEF Edit, Ops
    <2>4. edits' \in 0 .. MaxEdits
      BY <1>1, <1>a DEF Edit
    <2> QED
      BY <1>1, <2>1, <2>2, <2>3, <2>4, Zenon
      DEF KTypeOK, Edit, storeVars, loopVars, flagVars
  <1>2. ASSUME NEW f \in Files, Unlink(f) PROVE KTypeOK'
    <2>1. disk' \in [Files -> [ver: Versions, mtime: Versions]]
      BY <1>2, <1>a, <1>b DEF Unlink
    <2>2. ops' \in SUBSET Ops
      BY <1>2, KTypes DEF Unlink, Ops
    <2>3. edits' \in 0 .. MaxEdits
      BY <1>2, <1>a DEF Unlink
    <2> QED
      BY <1>2, <2>1, <2>2, <2>3, Zenon DEF KTypeOK, Unlink, storeVars, loopVars, flagVars
  <1>3. ASSUME NEW f \in Files, Toggle(f) PROVE KTypeOK'
    <2>1. enabled' \in SUBSET Files
      BY <1>3, KTypes DEF Toggle
    <2>2. ops' \in SUBSET Ops
      BY <1>3, KTypes DEF Toggle, Ops
    <2>3. edits' \in 0 .. MaxEdits
      BY <1>3, <1>a DEF Toggle
    <2> QED
      BY <1>3, <2>1, <2>2, <2>3, Zenon DEF KTypeOK, Toggle, storeVars, loopVars, flagVars
  <1>4. CASE IntervalElapses
    <2>1. due' \in BOOLEAN
      BY <1>4 DEF IntervalElapses
    <2> QED
      BY <1>4, <2>1, Zenon DEF KTypeOK, IntervalElapses, diskVars, storeVars, flagVars, boundVars
  <1>5. CASE Recover
    <2>1. ready' \in BOOLEAN
      BY <1>5 DEF Recover
    <2> QED
      BY <1>5, <2>1, Zenon DEF KTypeOK, Recover, diskVars, storeVars, loopVars, boundVars
  <1>6. CASE KCrash
    <2>1. suspect' \in SUBSET Files
      <3>1. retire \in SUBSET Files /\ suspect \in SUBSET Files
        BY KTypes
      <3>2. loopAt = "purge" => Victim \in Files
        BY <3>1 DEF Victim, PurgeInv
      <3> QED
        BY <1>6, <3>1, <3>2 DEF KCrash, Abandoned
    <2>2. faults' \in 0 .. MaxFaults
      BY <1>6, FaultType DEF KCrash
    <2>3. /\ loopAt' \in {"loop", "decide", "purge", "start", "walk", "embed", "save", "down"}
          /\ pass' \in Passes /\ due' \in BOOLEAN /\ first' \in BOOLEAN
          /\ paused' \in BOOLEAN /\ cancel' \in BOOLEAN /\ ready' \in BOOLEAN
          /\ folders' \in SUBSET Files /\ retire' \in SUBSET Files /\ ops' \in SUBSET Ops
      BY <1>6, NoPassType, KTypes DEF KCrash
    <2>4. want' \in [user: BOOLEAN, fs: BOOLEAN, full: BOOLEAN]
      BY <1>6 DEF KCrash, NoWants
    <2> QED
      BY <1>6, <2>1, <2>2, <2>3, <2>4, Zenon DEF KTypeOK, KCrash, diskVars, storeVars
  <1> QED
    BY <1>1, <1>2, <1>3, <1>4, <1>5, <1>6

-----------------------------------------------------------------------------
(* The inductive invariant. *)

\* The points of an entry are the file's own.
OwnInv ==
    \A f \in Files : /\ index[f] # None => index[f].points \subseteq PointsOf(f)
                     /\ pass.idx[f] # None => pass.idx[f].points \subseteq PointsOf(f)

\* No mtime is later than the last edit: an edit in another second makes one
\* that no entry has.
MtimeInv ==
    \A f \in Files : /\ disk[f].mtime <= edits + 1
                     /\ index[f] # None => index[f].mtime <= edits + 1
                     /\ pass.idx[f] # None => pass.idx[f].mtime <= edits + 1

\* What the locals of a pass say while it walks and embeds: the files it will
\* embed have no entry, the others have the one of index.json (of a full resync:
\* none), and what was upserted is in qdrant.
PassInv ==
    /\ Pending \subseteq pass.seen
    /\ \A p \in pass.ids \union pass.todo : p[1] \in Pending
    /\ loopAt \in {"walk", "embed"} =>
        \A f \in Files :
            pass.idx[f] = IF pass.full \/ f \in Pending THEN None ELSE index[f]
    /\ loopAt = "embed" => \A p \in pass.ids : qdrant[p] = pass.ver[p[1]]
    /\ loopAt = "walk" => pass.ids = {} /\ pass.todo = {}
    /\ loopAt \notin {"walk", "embed", "save"} =>
        /\ pass.ids = {} /\ pass.todo = {} /\ pass.pending = << >>
        /\ pass.idx = [f \in Files |-> None]
    /\ loopAt = "save" /\ ~pass.full => \A f \in Files :
         f \notin Pending /\ pass.idx[f] # None => pass.idx[f] = index[f]

\* A file that is embedded anew has changed since its entry in index.json, and
\* no later edit brings the entry's mtime back.
ChangedInv ==
    loopAt \in {"walk", "embed", "save"} /\ ~pass.full =>
        \A f \in Pending : index[f] # None =>
            index[f].mtime # disk[f].mtime \/ disk[f].ver = 0

\* An incremental pass that skips f because of the entry e is right to.
Rightly(e, f) ==
    e # None /\ e.mtime = disk[f].mtime /\ disk[f].ver # 0
        => \A p \in PointsOf(f) : qdrant[p] = disk[f].ver

\* Which entries must be right: those of index.json, where a crash now would go
\* back to them, and those a save is about to write.
RightInv ==
    \A f \in Files \ suspect :
        /\ BetweenPasses => Rightly(index[f], f)
        /\ loopAt = "purge" /\ f # Victim => Rightly(index[f], f)
        /\ loopAt \in {"walk", "embed"} /\ ~pass.full => Rightly(index[f], f)
        /\ loopAt = "save" /\ ~pass.full /\ pass.idx[f] # None => Rightly(index[f], f)
        /\ loopAt = "save" => Rightly(pass.idx[f], f)

\* Where a point is known from, when nothing has failed.
Known(e, p) == e # None /\ p \in e.points
KnownInv ==
    faults = 0 => \A f \in Files : \A p \in PointsOf(f) : qdrant[p] # 0 =>
        /\ BetweenPasses \/ loopAt = "purge" => Known(index[f], p)
        /\ loopAt = "purge" => f # Victim
        /\ loopAt \in {"walk", "save"} => Known(pass.idx[f], p)
        /\ loopAt = "embed" => p \in pass.ids \/ Known(pass.idx[f], p)

KnowledgeInv ==
    KTypeOK /\ PurgeInv /\ OwnInv /\ MtimeInv /\ PassInv /\ ChangedInv /\ RightInv /\ KnownInv

\* The facts every step uses of the state it starts in.
LEMMA KFacts ==
  ASSUME KnowledgeInv
  PROVE  /\ KTypeOK /\ PurgeInv /\ OwnInv /\ MtimeInv /\ PassInv /\ ChangedInv
         /\ RightInv /\ KnownInv
         /\ faults \in Nat /\ edits \in Nat
         /\ \A f \in Files : disk[f].mtime \in Nat /\ disk[f].ver \in Nat
         /\ \A f \in Files : index[f] # None => index[f].mtime \in Nat
         /\ \A f \in Files : pass.idx[f] # None => pass.idx[f].mtime \in Nat
  <1>1. KTypeOK
    BY DEF KnowledgeInv
  <1>2. faults \in 0 .. MaxFaults /\ edits \in 0 .. MaxEdits
    BY <1>1, KTypes
  <1>3. disk \in [Files -> [ver: Versions, mtime: Versions]]
    BY <1>1, KTypes
  <1>4. index \in [Files -> Entries \union {None}] /\ pass.idx \in [Files -> Entries \union {None}]
    BY <1>1, KTypes, PassTypes DEF Indexes
  <1>5. \A e \in Entries : e.mtime \in Versions
    BY DEF Entries
  <1>6. \A v \in Versions : v \in Nat
    BY ChunksAssumption DEF Versions
  <1>7. \A f \in Files : disk[f].mtime \in Nat /\ disk[f].ver \in Nat
    BY <1>3, <1>6
  <1>8. /\ \A f \in Files : index[f] # None => index[f].mtime \in Nat
        /\ \A f \in Files : pass.idx[f] # None => pass.idx[f].mtime \in Nat
    BY <1>4, <1>5, <1>6
  <1>9. faults \in Nat /\ edits \in Nat
    BY <1>2, ChunksAssumption
  <1> QED
    BY <1>7, <1>8, <1>9 DEF KnowledgeInv

\* A step that touches none of the stores, nor the pass, nor what is on disk.
LEMMA StillKeeps ==
  ASSUME KnowledgeInv, KTypeOK', edits' = edits \/ edits' = edits + 1,
         UNCHANGED <<disk, index, qdrant, loopAt, retire, pass, suspect, faults>>
  PROVE  KnowledgeInv'
  <1>1. PurgeInv' /\ OwnInv'
    BY KFacts DEF PurgeInv, OwnInv
  <1>2. MtimeInv'
    BY KFacts DEF MtimeInv
  <1>3. PassInv'
    BY KFacts DEF PassInv, Pending
  <1>4. ChangedInv'
    BY KFacts DEF ChangedInv, Pending
  <1>5. RightInv'
    BY KFacts DEF RightInv, Rightly, BetweenPasses, Victim
  <1>6. KnownInv'
    BY KFacts DEF KnownInv, Known, BetweenPasses, Victim
  <1> QED
    BY <1>1, <1>2, <1>3, <1>4, <1>5, <1>6 DEF KnowledgeInv

\* Between passes the pass has no say: what index.json says is enough.
LEMMA BetweenKeeps ==
  ASSUME KnowledgeInv, KTypeOK', UNCHANGED <<disk, edits>>,
         BetweenPasses', pass'.pending = << >>, pass'.ids = {}, pass'.todo = {},
         pass'.idx = [f \in Files |-> None],
         \A f \in Files : index'[f] # None => /\ index'[f].points \subseteq PointsOf(f)
                                              /\ index'[f].mtime <= edits + 1,
         \A f \in Files \ suspect' : Rightly(index[f], f)',
         faults' = 0 => \A f \in Files : \A p \in PointsOf(f) :
                           qdrant'[p] # 0 => Known(index[f], p)'
  PROVE  KnowledgeInv'
  <1>a. /\ loopAt' \notin {"purge", "walk", "embed", "save"}
        /\ \A f \in Files : pass'.idx[f] = None
        /\ Pending' = {}
    BY DEF BetweenPasses, Pending
  <1>1. PurgeInv'
    BY <1>a DEF PurgeInv
  <1>2. OwnInv'
    BY <1>a DEF OwnInv
  <1>3. MtimeInv'
    BY <1>a, KFacts DEF MtimeInv
  <1>4. PassInv'
    BY <1>a DEF PassInv
  <1>5. ChangedInv'
    BY <1>a DEF ChangedInv
  <1>6. RightInv'
    BY <1>a DEF RightInv
  <1>7. KnownInv'
    BY <1>a DEF KnownInv
  <1> QED
    BY <1>1, <1>2, <1>3, <1>4, <1>5, <1>6, <1>7 DEF KnowledgeInv

-----------------------------------------------------------------------------
(* The main loop's steps. *)

LEMMA EmptyPass ==
  /\ NoPass.pending = << >> /\ NoPass.ids = {} /\ NoPass.todo = {}
  /\ NoPass.idx = [f \in Files |-> None]
  /\ \A b \in BOOLEAN : LET q == [NoPass EXCEPT !.full = b] IN
        /\ q.pending = << >> /\ q.ids = {} /\ q.todo = {} /\ q.idx = [f \in Files |-> None]
  BY DEF NoPass

\* index.json, where neither it nor qdrant changes between passes.
LEMMA RestKeeps ==
  ASSUME KnowledgeInv, KTypeOK', BetweenPasses, BetweenPasses',
         UNCHANGED <<disk, edits, index, qdrant, suspect>>,
         faults' = faults \/ faults' = faults + 1,
         pass'.pending = << >>, pass'.ids = {}, pass'.todo = {},
         pass'.idx = [f \in Files |-> None]
  PROVE  KnowledgeInv'
  <1>1. \A f \in Files : index'[f] # None => /\ index'[f].points \subseteq PointsOf(f)
                                             /\ index'[f].mtime <= edits + 1
    BY KFacts DEF OwnInv, MtimeInv
  <1>2. \A f \in Files \ suspect' : Rightly(index[f], f)'
    BY KFacts DEF RightInv, Rightly
  <1>3. faults' = 0 => \A f \in Files : \A p \in PointsOf(f) :
                          qdrant'[p] # 0 => Known(index[f], p)'
    BY KFacts DEF KnownInv, Known
  <1> QED
    BY <1>1, <1>2, <1>3, BetweenKeeps

LEMMA DrainKeeps ==
  ASSUME KnowledgeInv, DrainOps
  PROVE  KnowledgeInv'
  <1>1. KTypeOK'
    BY KFacts, LoopTypes DEF LoopStep
  <1>2. loopAt = "loop" /\ loopAt' \in {"decide", "down"} /\ pass' = pass
    BY DEF DrainOps
  <1>3. /\ pass'.pending = << >> /\ pass'.ids = {} /\ pass'.todo = {}
        /\ pass'.idx = [f \in Files |-> None]
    BY <1>2, KFacts DEF PassInv
  <1>4. BetweenPasses /\ BetweenPasses'
    BY <1>2 DEF BetweenPasses
  <1>5. UNCHANGED <<disk, edits, index, qdrant, suspect, faults>>
    BY DEF DrainOps, diskVars, storeVars, boundVars
  <1> QED
    BY <1>1, <1>3, <1>4, <1>5, RestKeeps

LEMMA DecideKeeps ==
  ASSUME KnowledgeInv, DecidePass
  PROVE  KnowledgeInv'
  <1>1. KTypeOK'
    BY KFacts, LoopTypes DEF LoopStep
  <1>2. /\ loopAt = "decide" /\ loopAt' \in {"loop", "start"}
        /\ pass' = pass \/ pass' = [NoPass EXCEPT !.full = want.full]
    BY DEF DecidePass
  <1>3. /\ pass'.pending = << >> /\ pass'.ids = {} /\ pass'.todo = {}
        /\ pass'.idx = [f \in Files |-> None]
    <2>1. CASE pass' = pass
      BY <1>2, <2>1, KFacts DEF PassInv
    <2>2. CASE pass' = [NoPass EXCEPT !.full = want.full]
      BY <2>2 DEF NoPass
    <2> QED
      BY <1>2, <2>1, <2>2
  <1>4. BetweenPasses /\ BetweenPasses'
    BY <1>2 DEF BetweenPasses
  <1>5. UNCHANGED <<disk, edits, index, qdrant, suspect, faults>>
    BY DEF DecidePass, diskVars, storeVars, boundVars
  <1> QED
    BY <1>1, <1>3, <1>4, <1>5, RestKeeps

\* The points of the folder that is retired go; those of other files stay.
LEMMA DeleteKeeps ==
  ASSUME KnowledgeInv, DeleteSource
  PROVE  KnowledgeInv'
  <1>1. KTypeOK'
    BY KFacts, LoopTypes DEF LoopStep
  <1>2. /\ loopAt = "decide" /\ loopAt' = "purge" /\ retire # {} /\ retire' = retire
        /\ UNCHANGED <<disk, edits, index, suspect, pass>>
        /\ \/ qdrant' = Without(qdrant, PointsOf(Victim)) /\ faults' = faults
           \/ qdrant' = qdrant /\ faults' = faults + 1
    BY DEF DeleteSource, diskVars, loopVars
  <1>3. Victim' = Victim
    BY <1>2 DEF Victim
  <1>4. /\ PurgeInv' /\ OwnInv' /\ MtimeInv'
    BY <1>2, KFacts DEF PurgeInv, OwnInv, MtimeInv
  <1>5. PassInv' /\ ChangedInv'
    BY <1>2, KFacts DEF PassInv, ChangedInv, Pending
  <1>6. ASSUME NEW f \in Files, NEW p \in PointsOf(f)
        PROVE  /\ f # Victim => qdrant'[p] = qdrant[p]
               /\ faults' = faults => qdrant'[p] = 0 \/ (f # Victim /\ qdrant'[p] = qdrant[p])
    <2>1. p \in Points /\ (p \in PointsOf(Victim) <=> f = Victim)
      BY PointFacts
    <2>2. Without(qdrant, PointsOf(Victim))[p] = IF f = Victim THEN 0 ELSE qdrant[p]
      BY <2>1, KFacts, WithoutType
    <2>4. CASE qdrant' = Without(qdrant, PointsOf(Victim))
      <3>1. qdrant'[p] = IF f = Victim THEN 0 ELSE qdrant[p]
        BY <2>2, <2>4, Zenon
      <3> QED
        BY <3>1
    <2>5. CASE qdrant' = qdrant /\ faults' = faults + 1
      BY <2>5, KFacts
    <2> QED
      BY <1>2, <2>4, <2>5
  <1>7. RightInv'
    <2>1. ASSUME NEW f \in Files \ suspect', f # Victim PROVE Rightly(index[f], f)'
      <3>1. Rightly(index[f], f)
        BY <1>2, KFacts DEF RightInv, BetweenPasses
      <3> QED
        BY <1>2, <1>6, <2>1, <3>1 DEF Rightly
    <2> QED
      BY <1>2, <1>3, <2>1 DEF RightInv, BetweenPasses
  <1>8. KnownInv'
    <2>1. ASSUME faults' = 0, NEW f \in Files, NEW p \in PointsOf(f), qdrant'[p] # 0
          PROVE  Known(index[f], p)' /\ f # Victim'
      <3>1. faults' = faults
        BY <1>2, <2>1, KFacts
      <3>2. f # Victim /\ qdrant[p] # 0
        BY <1>6, <2>1, <3>1
      <3> QED
        BY <1>2, <1>3, <2>1, <3>1, <3>2, KFacts DEF KnownInv, BetweenPasses, Known
    <2> QED
      BY <1>2, <2>1 DEF KnownInv, BetweenPasses
  <1> QED
    BY <1>1, <1>4, <1>5, <1>7, <1>8 DEF KnowledgeInv

LEMMA PurgeKeeps ==
  ASSUME KnowledgeInv, Purge
  PROVE  KnowledgeInv'
  <1>1. KTypeOK'
    BY KFacts, LoopTypes DEF LoopStep
  <1>2. /\ loopAt = "purge" /\ loopAt' = "decide"
        /\ UNCHANGED <<disk, edits, qdrant, suspect, pass, faults>>
    BY DEF Purge, diskVars, boundVars
  <1>3. \A f \in Files : index'[f] = IF f = Victim THEN None ELSE index[f]
    <2>1. index \in [Files -> Entries \union {None}]
      BY KFacts, KTypes DEF Indexes
    <2> QED
      BY <2>1 DEF Purge
  <1>4. /\ pass'.pending = << >> /\ pass'.ids = {} /\ pass'.todo = {}
        /\ pass'.idx = [f \in Files |-> None] /\ BetweenPasses'
    BY <1>2, KFacts DEF PassInv, BetweenPasses
  <1>5. \A f \in Files : index'[f] # None => /\ index'[f].points \subseteq PointsOf(f)
                                             /\ index'[f].mtime <= edits + 1
    BY <1>3, KFacts DEF OwnInv, MtimeInv
  <1>6. \A f \in Files \ suspect' : Rightly(index[f], f)'
    BY <1>2, <1>3, KFacts DEF RightInv, Rightly
  <1>7. faults' = 0 => \A f \in Files : \A p \in PointsOf(f) :
                          qdrant'[p] # 0 => Known(index[f], p)'
    BY <1>2, <1>3, KFacts DEF KnownInv, Known
  <1> QED
    BY <1>1, <1>2, <1>4, <1>5, <1>6, <1>7, BetweenKeeps

LEMMA StartKeeps ==
  ASSUME KnowledgeInv, StartPass
  PROVE  KnowledgeInv'
  <1> DEFINE idx == IF pass.full THEN [f \in Files |-> None] ELSE index
             store == IF pass.full THEN [p \in Points |-> 0] ELSE qdrant
  <1>1. KTypeOK'
    BY KFacts, LoopTypes DEF LoopStep
  <1>2. loopAt = "start" /\ UNCHANGED <<disk, edits, suspect>> /\ BetweenPasses
    BY DEF StartPass, diskVars, BetweenPasses
  <1>3. /\ \A f \in Files : idx[f] = None \/ (~pass.full /\ idx[f] = index[f])
        /\ \A p \in Points : store[p] = 0 \/ (~pass.full /\ store[p] = qdrant[p])
        /\ ~pass.full => idx = index /\ store = qdrant
        /\ pass.full => \A f \in Files : idx[f] = None
        /\ pass.full => \A p \in Points : store[p] = 0
    OBVIOUS
  <1>4. CASE pass' = NoPass /\ loopAt' = "loop" /\ UNCHANGED storeVars /\ faults' = faults + 1
    <2>1. BetweenPasses'
      BY <1>4 DEF BetweenPasses
    <2> QED
      BY <1>1, <1>2, <1>4, <2>1, EmptyPass, RestKeeps DEF storeVars
  <1>5. CASE pass' = NoPass /\ loopAt' = "loop" /\ index' = idx /\ qdrant' = store
             /\ faults' = faults
    <2> HIDE DEF idx, store
    <2>1. BetweenPasses'
      BY <1>5 DEF BetweenPasses
    <2>2. \A f \in Files : index'[f] # None => /\ index'[f].points \subseteq PointsOf(f)
                                               /\ index'[f].mtime <= edits + 1
      BY <1>3, <1>5, KFacts DEF OwnInv, MtimeInv
    <2>3. ASSUME NEW f \in Files \ suspect' PROVE Rightly(index[f], f)'
      <3>1. CASE pass.full
        BY <1>3, <1>5, <3>1 DEF Rightly
      <3>2. CASE ~pass.full
        BY <1>2, <1>3, <1>5, <3>2, KFacts DEF Rightly, RightInv
      <3> QED
        BY <3>1, <3>2
    <2>4. ASSUME faults' = 0, NEW f \in Files, NEW p \in PointsOf(f), qdrant'[p] # 0
          PROVE  Known(index[f], p)'
      <3>1. p \in Points
        BY PointFacts
      <3> QED
        BY <1>2, <1>3, <1>5, <2>4, <3>1, KFacts DEF Known, KnownInv
    <2> QED
      BY <1>1, <1>2, <1>5, <2>1, <2>2, <2>3, <2>4, EmptyPass, BetweenKeeps
  <1>6. CASE /\ pass' = [pass EXCEPT !.idx = idx, !.jobs = enabled] /\ loopAt' = "walk"
             /\ index' = index /\ qdrant' = store /\ faults' = faults
    <2> HIDE DEF idx, store
    <2>1. /\ pass'.idx = idx /\ pass'.pending = << >> /\ pass'.ids = {} /\ pass'.todo = {}
          /\ pass'.full = pass.full /\ Pending' = {}
      <3>1. pass \in Passes
        BY KFacts, KTypes
      <3>2. /\ pass'.idx = idx /\ pass'.pending = pass.pending /\ pass'.ids = pass.ids
            /\ pass'.todo = pass.todo /\ pass'.full = pass.full
        BY <1>6, <3>1 DEF Passes
      <3>3. pass'.pending = << >> /\ pass'.ids = {} /\ pass'.todo = {}
        BY <1>2, <3>2, KFacts DEF PassInv
      <3> QED
        BY <3>2, <3>3 DEF Pending
    <2>2. PurgeInv' /\ ChangedInv'
      BY <1>6, <2>1 DEF PurgeInv, ChangedInv
    <2>3. OwnInv' /\ MtimeInv'
      BY <1>2, <1>3, <1>6, <2>1, KFacts DEF OwnInv, MtimeInv
    <2>4. PassInv'
      BY <1>3, <1>6, <2>1 DEF PassInv
    <2>5. RightInv'
      <3>1. ASSUME NEW f \in Files \ suspect', ~pass'.full PROVE Rightly(index[f], f)'
        BY <1>2, <1>3, <1>6, <2>1, <3>1, KFacts DEF RightInv, Rightly
      <3> QED
        BY <1>6, <3>1 DEF RightInv, BetweenPasses
    <2>6. KnownInv'
      <3>1. ASSUME faults' = 0, NEW f \in Files, NEW p \in PointsOf(f), qdrant'[p] # 0
            PROVE  Known(pass.idx[f], p)'
        <4>1. p \in Points
          BY PointFacts
        <4> QED
          BY <1>2, <1>3, <1>6, <2>1, <3>1, <4>1, KFacts DEF Known, KnownInv
      <3> QED
        BY <1>6, <3>1 DEF KnownInv, BetweenPasses
    <2> QED
      BY <1>1, <2>2, <2>3, <2>4, <2>5, <2>6 DEF KnowledgeInv
  <1> QED
    BY <1>4, <1>5, <1>6 DEF StartPass, PassOver

-----------------------------------------------------------------------------
(* The steps of a pass. *)

\* A file is walked: unchanged, or with its old points gone.
LEMMA WalkKeeps ==
  ASSUME KnowledgeInv, NEW f \in Files, Walk(f)
  PROVE  KnowledgeInv'
  <1> DEFINE e == pass.idx[f]
             next == [pass EXCEPT !.seen = pass.seen \union {f}]
  <1>1. KTypeOK'
    BY KFacts, PassStepTypes DEF PassStep
  <1>2. /\ loopAt = "walk" /\ loopAt' = "walk" /\ f \notin pass.seen
        /\ UNCHANGED <<disk, edits, index, suspect, faults, retire>>
    BY DEF Walk, Unwalked, diskVars, boundVars, loopVars
  <1>3. pass \in Passes
    BY KFacts, KTypes
  <1>4. f \notin Pending
    BY <1>2, KFacts DEF PassInv
  <1>5. CASE pass' = next /\ qdrant' = qdrant
    <2>1. /\ pass'.seen = pass.seen \union {f} /\ pass'.full = pass.full /\ pass'.idx = pass.idx
          /\ pass'.pending = pass.pending /\ pass'.ids = pass.ids /\ pass'.todo = pass.todo
          /\ pass'.ver = pass.ver
      BY <1>3, <1>5 DEF Passes
    <2>2. Pending' = Pending
      BY <2>1 DEF Pending
    <2>3. PurgeInv' /\ OwnInv' /\ MtimeInv'
      BY <1>2, <2>1, KFacts DEF PurgeInv, OwnInv, MtimeInv
    <2>4. PassInv'
      BY <1>2, <1>5, <2>1, <2>2, KFacts DEF PassInv
    <2>5. ChangedInv'
      BY <1>2, <2>1, <2>2, KFacts DEF ChangedInv
    <2>6. RightInv'
      BY <1>2, <1>5, <2>1, KFacts DEF RightInv, Rightly, BetweenPasses
    <2>7. KnownInv'
      BY <1>2, <1>5, <2>1, KFacts DEF KnownInv, Known, BetweenPasses
    <2> QED
      BY <1>1, <2>3, <2>4, <2>5, <2>6, <2>7 DEF KnowledgeInv
  <1>6. CASE /\ ~(e # None /\ e.mtime = disk[f].mtime)
             /\ pass' = [next EXCEPT !.idx = [pass.idx EXCEPT ![f] = None],
                                     !.pending = Append(pass.pending, f),
                                     !.ver = [pass.ver EXCEPT ![f] = disk[f].ver]]
             /\ qdrant' = IF e = None THEN qdrant ELSE Without(qdrant, e.points)
    <2>1. /\ pass'.seen = pass.seen \union {f} /\ pass'.full = pass.full
          /\ pass'.idx = [pass.idx EXCEPT ![f] = None]
          /\ pass'.pending = Append(pass.pending, f) /\ pass'.ids = pass.ids
          /\ pass'.todo = pass.todo
      BY <1>3, <1>6 DEF Passes
    <2>2. \A g \in Files : pass'.idx[g] = IF g = f THEN None ELSE pass.idx[g]
      <3>1. pass.idx \in [Files -> Entries \union {None}]
        BY KFacts, PassTypes DEF Indexes
      <3> QED
        BY <2>1, <3>1
    <2>3. Pending' = Pending \union {f}
      <3>1. pass.pending \in Seq(Files)
        BY KFacts, PassTypes
      <3>2. /\ Len(pass'.pending) = Len(pass.pending) + 1 /\ Len(pass.pending) \in Nat
            /\ pass'.pending[Len(pass.pending) + 1] = f
            /\ \A i \in 1 .. Len(pass.pending) : pass'.pending[i] = pass.pending[i]
        BY <2>1, <3>1
      <3>3. Pending' \subseteq Pending \union {f}
        BY <3>2 DEF Pending
      <3>4. Pending \union {f} \subseteq Pending'
        BY <3>2 DEF Pending
      <3> QED
        BY <3>3, <3>4
    <2>4. pass.idx[f] = IF pass.full THEN None ELSE index[f]
      BY <1>2, <1>4, KFacts DEF PassInv
    <2>5. ASSUME NEW g \in Files, NEW p \in PointsOf(g)
          PROVE  /\ g # f => qdrant'[p] = qdrant[p]
                 /\ g = f => qdrant'[p] = 0 \/ (qdrant'[p] = qdrant[p] /\ ~Known(e, p))
      <3>1. p \in Points /\ (p \in PointsOf(f) <=> g = f)
        BY PointFacts
      <3>2. CASE e = None
        BY <1>6, <3>2 DEF Known
      <3>3. CASE e # None
        <4>1. e.points \subseteq PointsOf(f)
          BY <3>3, KFacts DEF OwnInv
        <4>2. Without(qdrant, e.points)[p] = IF p \in e.points THEN 0 ELSE qdrant[p]
          BY <3>1, KFacts, WithoutType
        <4>3. qdrant' = Without(qdrant, e.points)
          BY <1>6, <3>3
        <4>4. qdrant'[p] = IF p \in e.points THEN 0 ELSE qdrant[p]
          BY <4>2, <4>3, Zenon
        <4> QED
          BY <3>1, <4>1, <4>4 DEF Known
      <3> QED
        BY <3>2, <3>3
    <2>6. PurgeInv' /\ OwnInv' /\ MtimeInv'
      BY <1>2, <2>2, KFacts DEF PurgeInv, OwnInv, MtimeInv
    <2>7. PassInv'
      BY <1>2, <2>1, <2>2, <2>3, KFacts DEF PassInv
    <2>8. ChangedInv'
      BY <1>2, <1>6, <2>1, <2>3, <2>4, KFacts DEF ChangedInv
    <2>9. RightInv'
      <3>1. ASSUME NEW g \in Files \ suspect', ~pass'.full PROVE Rightly(index[g], g)'
        <4>1. CASE g = f
          BY <1>2, <2>1, <2>3, <2>8, <3>1, <4>1 DEF ChangedInv, Rightly
        <4>2. CASE g # f
          <5>1. Rightly(index[g], g)
            BY <1>2, <2>1, <3>1, KFacts DEF RightInv
          <5> QED
            BY <1>2, <2>5, <3>1, <4>2, <5>1 DEF Rightly
        <4> QED
          BY <4>1, <4>2
      <3> QED
        BY <1>2, <3>1 DEF RightInv, BetweenPasses
    <2>10. KnownInv'
      <3>1. ASSUME faults' = 0, NEW g \in Files, NEW p \in PointsOf(g), qdrant'[p] # 0
            PROVE  Known(pass.idx[g], p)'
        <4>1. qdrant'[p] = qdrant[p]
          BY <2>5, <3>1
        <4>2. Known(pass.idx[g], p)
          BY <1>2, <3>1, <4>1, KFacts DEF KnownInv
        <4>3. g # f
          BY <2>5, <3>1, <4>2
        <4> QED
          BY <2>2, <4>2, <4>3 DEF Known
      <3> QED
        BY <1>2, <3>1 DEF KnownInv, BetweenPasses
    <2> QED
      BY <1>1, <2>6, <2>7, <2>8, <2>9, <2>10 DEF KnowledgeInv
  <1> QED
    BY <1>5, <1>6 DEF Walk

LEMMA WalkedKeeps ==
  ASSUME KnowledgeInv, Walked
  PROVE  KnowledgeInv'
  <1>1. KTypeOK'
    BY KFacts, PassStepTypes DEF PassStep
  <1>2. /\ loopAt = "walk" /\ loopAt' = "embed"
        /\ UNCHANGED <<disk, edits, index, qdrant, suspect, faults, retire>>
    BY DEF Walked, diskVars, storeVars, boundVars, loopVars
  <1>3. /\ pass'.seen = pass.seen /\ pass'.full = pass.full /\ pass'.idx = pass.idx
        /\ pass'.pending = pass.pending /\ pass'.ids = pass.ids
        /\ pass'.todo = UNION {PointsOf(f) : f \in Pending} /\ pass'.ver = pass.ver
    <2>1. pass \in Passes
      BY KFacts, KTypes
    <2>2. pass' = [pass EXCEPT !.todo = UNION {PointsOf(f) : f \in Pending}]
      BY DEF Walked
    <2> QED
      BY <2>1, <2>2 DEF Passes
  <1>4. Pending' = Pending
    BY <1>3 DEF Pending
  <1>5. PurgeInv' /\ OwnInv' /\ MtimeInv'
    BY <1>2, <1>3, KFacts DEF PurgeInv, OwnInv, MtimeInv
  <1>6. PassInv'
    <2>1. \A p \in pass'.todo : p[1] \in Pending'
      BY <1>3, <1>4, PointFacts
    <2>2. pass'.ids = {}
      BY <1>2, <1>3, KFacts DEF PassInv
    <2> QED
      BY <1>2, <1>3, <1>4, <2>1, <2>2, KFacts DEF PassInv
  <1>7. ChangedInv'
    BY <1>2, <1>3, <1>4, KFacts DEF ChangedInv
  <1>8. RightInv'
    BY <1>2, <1>3, KFacts DEF RightInv, Rightly, BetweenPasses
  <1>9. KnownInv'
    BY <1>2, <1>3, KFacts DEF KnownInv, Known, BetweenPasses
  <1> QED
    BY <1>1, <1>5, <1>6, <1>7, <1>8, <1>9 DEF KnowledgeInv

\* A batch is upserted: points of files that are embedded anew, no others.
LEMMA EmbedKeeps ==
  ASSUME KnowledgeInv, EmbedBatch
  PROVE  KnowledgeInv'
  <1>1. KTypeOK'
    BY KFacts, PassStepTypes DEF PassStep
  <1>2. /\ loopAt = "embed" /\ loopAt' = "embed"
        /\ UNCHANGED <<disk, edits, index, suspect, faults, retire>>
    BY DEF EmbedBatch, diskVars, boundVars, loopVars
  <1>3. /\ pass'.seen = pass.seen /\ pass'.full = pass.full /\ pass'.idx = pass.idx
        /\ pass'.pending = pass.pending /\ pass'.ids = pass.ids \union NextBatch
        /\ pass'.todo = pass.todo \ NextBatch /\ pass'.ver = pass.ver
    <2>1. pass \in Passes
      BY KFacts, KTypes
    <2>2. pass' = [pass EXCEPT !.ids = pass.ids \union NextBatch, !.todo = pass.todo \ NextBatch]
      BY DEF EmbedBatch
    <2> HIDE DEF NextBatch
    <2> QED
      BY <2>1, <2>2 DEF Passes
  <1>4. Pending' = Pending
    BY <1>3 DEF Pending
  <1>5. NextBatch \subseteq pass.todo /\ \A p \in NextBatch : p[1] \in Pending
    BY KFacts DEF NextBatch, PassInv
  <1>6. /\ \A p \in Points : qdrant'[p] = IF p \in NextBatch THEN pass.ver[p[1]] ELSE qdrant[p]
        /\ pass.ids \subseteq Points /\ pass.todo \subseteq Points
    BY KFacts, PassTypes DEF EmbedBatch
  <1>7. PurgeInv' /\ OwnInv' /\ MtimeInv'
    BY <1>2, <1>3, KFacts DEF PurgeInv, OwnInv, MtimeInv
  <1>8. PassInv'
    <2>1. \A p \in pass'.ids : qdrant'[p] = pass'.ver[p[1]]
      BY <1>2, <1>3, <1>5, <1>6, KFacts DEF PassInv
    <2>2. \A p \in pass'.ids \union pass'.todo : p[1] \in Pending'
      BY <1>3, <1>4, <1>5, KFacts DEF PassInv
    <2> QED
      BY <1>2, <1>3, <1>4, <2>1, <2>2, KFacts DEF PassInv
  <1>9. ChangedInv'
    BY <1>2, <1>3, <1>4, KFacts DEF ChangedInv
  <1>10. RightInv'
    <2>1. ASSUME NEW f \in Files \ suspect', ~pass'.full PROVE Rightly(index[f], f)'
      <3>1. CASE f \in Pending
        BY <1>2, <1>3, <2>1, <3>1, KFacts DEF ChangedInv, Rightly
      <3>2. CASE f \notin Pending
        <4>1. Rightly(index[f], f)
          BY <1>2, <1>3, <2>1, KFacts DEF RightInv
        <4>2. \A p \in PointsOf(f) : qdrant'[p] = qdrant[p]
          BY <1>5, <1>6, <3>2, PointFacts
        <4> QED
          BY <1>2, <4>1, <4>2 DEF Rightly
      <3> QED
        BY <3>1, <3>2
    <2> QED
      BY <1>2, <2>1 DEF RightInv, BetweenPasses
  <1>11. KnownInv'
    <2>1. ASSUME faults' = 0, NEW f \in Files, NEW p \in PointsOf(f), qdrant'[p] # 0
          PROVE  p \in pass'.ids \/ Known(pass.idx[f], p)'
      <3>1. p \in Points
        BY PointFacts
      <3>2. CASE p \in NextBatch
        BY <1>3, <3>2
      <3>3. CASE p \notin NextBatch
        BY <1>2, <1>3, <1>6, <2>1, <3>1, <3>3, KFacts DEF KnownInv, Known
      <3> QED
        BY <3>2, <3>3
    <2> QED
      BY <1>2, <2>1 DEF KnownInv, BetweenPasses
  <1> QED
    BY <1>1, <1>7, <1>8, <1>9, <1>10, <1>11 DEF KnowledgeInv

\* The commit.  A file that was embedded gets an entry with the points it got;
\* one the walk has not seen loses its entry and its points; the rest keep theirs.
LEMMA CommitKeeps ==
  ASSUME KnowledgeInv, Commit
  PROVE  KnowledgeInv'
  <1> DEFINE stale == IF cancel THEN {} ELSE {f \in Files \ pass.seen : Committed[f] # None}
             gone == UNION {Committed[f].points : f \in stale}
             idx == [f \in Files |-> IF f \in stale THEN None ELSE Committed[f]]
             entry(f) == [mtime |-> disk[f].mtime, ver |-> pass.ver[f], points |-> Ids(f)]
  <1>1. KTypeOK'
    BY KFacts, PassStepTypes DEF PassStep
  <1>2. /\ loopAt = "embed" /\ loopAt' = "save"
        /\ UNCHANGED <<disk, edits, index, retire>>
        /\ \/ qdrant' = Without(qdrant, gone) /\ faults' = faults
           \/ qdrant' = qdrant /\ faults' = faults + 1
        /\ pass' = [pass EXCEPT !.idx = idx]
        /\ suspect' = {f \in Files : \/ f \in Done /\ (Ids(f) # PointsOf(f) \/ pass.ver[f] # disk[f].ver)
                                     \/ f \in suspect \ Done}
    BY DEF Commit, diskVars, loopVars
  <1>3. /\ stale \subseteq Files \ pass.seen
        /\ \A f \in stale : Committed[f] # None
    OBVIOUS
  <1>4. \A f \in Files : idx[f] = IF f \in stale THEN None ELSE Committed[f]
    OBVIOUS
  <1>5. /\ \A f \in Files : Committed[f] = IF f \in Done THEN entry(f) ELSE pass.idx[f]
        /\ Done = {f \in Pending : Ids(f) # {}}
        /\ Done \subseteq Pending /\ Pending \subseteq pass.seen /\ Pending \subseteq Files
    BY KFacts, PassTypes DEF Committed, Done, PassInv
  <1>6. \A f \in Files :
          /\ entry(f) # None /\ entry(f).mtime = disk[f].mtime /\ entry(f).points = Ids(f)
          /\ Ids(f) \subseteq PointsOf(f) /\ Ids(f) \subseteq pass.ids
    <2>1. ASSUME NEW f \in Files PROVE entry(f) \in Entries
      <3>1. disk \in [Files -> [ver: Versions, mtime: Versions]]
        BY KFacts, KTypes
      <3>2. disk[f].mtime \in Versions
        BY <3>1
      <3>3. pass.ver[f] \in Versions /\ Ids(f) \in SUBSET Points
        BY KFacts, PassTypes DEF Ids
      <3> QED
        BY <3>2, <3>3 DEF Entries
    <2> QED
      BY <2>1, NoneIsNoEntry DEF Ids
  <1>7. \A f \in Files : pass.idx[f] = IF pass.full \/ f \in Pending THEN None ELSE index[f]
    BY <1>2, KFacts DEF PassInv
  <1>8. /\ pass'.seen = pass.seen /\ pass'.full = pass.full /\ pass'.idx = idx
        /\ pass'.pending = pass.pending /\ pass'.ids = pass.ids /\ pass'.todo = pass.todo
        /\ pass'.ver = pass.ver
    <2>1. pass \in Passes
      BY KFacts, KTypes
    <2> HIDE DEF idx
    <2> QED
      BY <1>2, <2>1 DEF Passes
  <1>9. Pending' = Pending
    BY <1>8 DEF Pending
  <1>10. ASSUME NEW f \in Files
         PROVE  \/ f \in Done /\ f \notin stale /\ idx[f] = entry(f)
                \/ f \notin Done /\ idx[f] = None
                \/ /\ f \notin Done /\ f \notin Pending /\ f \notin stale /\ ~pass.full
                   /\ idx[f] = pass.idx[f] /\ idx[f] = index[f]
    <2> HIDE DEF stale, idx, entry
    <2> QED
      BY <1>3, <1>4, <1>5, <1>7
  <1> HIDE DEF idx, entry
  <1>11. ASSUME NEW f \in Files, f \notin stale, NEW p \in PointsOf(f)
         PROVE  qdrant'[p] = qdrant[p]
    <2>1. ASSUME NEW g \in stale PROVE Committed[g].points \subseteq PointsOf(g)
      <3>1. g \notin Done /\ g \in Files /\ pass.idx[g] # None /\ Committed[g] = pass.idx[g]
        BY <1>3, <1>5
      <3> QED
        BY <3>1, KFacts DEF OwnInv
    <2>2. p \notin gone
      <3>1. ASSUME NEW g \in stale PROVE p \notin Committed[g].points
        BY <1>11, <2>1, PointFacts
      <3> QED
        BY <3>1
    <2>3. p \in Points
      BY PointFacts
    <2> HIDE DEF gone, stale
    <2>4. Without(qdrant, gone)[p] = qdrant[p]
      BY <2>2, <2>3, KFacts, WithoutType
    <2> QED
      BY <1>2, <2>4
  <1>12. ASSUME NEW f \in Files, f \in stale, faults' = 0, NEW p \in PointsOf(f)
         PROVE  qdrant'[p] = 0
    <2>1. /\ f \notin Done /\ f \notin Pending /\ pass.idx[f] # None
          /\ Committed[f] = pass.idx[f]
      BY <1>3, <1>5, <1>12
    <2>2. p \in Points /\ p[1] = f
      BY PointFacts
    <2>3. faults = 0 /\ qdrant' = Without(qdrant, gone)
      BY <1>2, <1>12, KFacts
    <2>4. qdrant[p] = 0 \/ p \in gone
      <3>1. p \notin pass.ids
        BY <2>1, <2>2, KFacts DEF PassInv
      <3>2. qdrant[p] = 0 \/ Known(pass.idx[f], p)
        BY <1>2, <2>3, <3>1, KFacts DEF KnownInv
      <3> QED
        BY <1>12, <2>1, <3>2 DEF Known
    <2> HIDE DEF gone, stale
    <2>5. Without(qdrant, gone)[p] = 0
      BY <2>2, <2>4, KFacts, WithoutType
    <2> QED
      BY <2>3, <2>5
  <1> HIDE DEF stale, gone
  <1>13. PurgeInv'
    BY <1>2 DEF PurgeInv
  <1>14. OwnInv'
    BY <1>2, <1>6, <1>8, <1>10, KFacts DEF OwnInv
  <1>15. MtimeInv'
    BY <1>2, <1>6, <1>8, <1>10, KFacts DEF MtimeInv
  <1>16. PassInv'
    BY <1>2, <1>5, <1>8, <1>9, <1>10, KFacts DEF PassInv
  <1>17. ChangedInv'
    BY <1>2, <1>8, <1>9, KFacts DEF ChangedInv
  <1>18. RightInv'
    <2>1. ASSUME NEW f \in Files \ suspect' PROVE Rightly(pass.idx[f], f)'
      <3>1. CASE f \in Done /\ f \notin stale /\ idx[f] = entry(f)
        <4>1. Ids(f) = PointsOf(f) /\ pass.ver[f] = disk[f].ver
          BY <1>2, <2>1, <3>1
        <4>2. ASSUME NEW p \in PointsOf(f) PROVE qdrant'[p] = disk'[f].ver
          <5>1. qdrant'[p] = qdrant[p] /\ p \in pass.ids /\ p[1] = f
            BY <1>6, <1>11, <3>1, <4>1, PointFacts
          <5>2. qdrant[p] = pass.ver[f]
            BY <1>2, <5>1, KFacts DEF PassInv
          <5> QED
            BY <1>2, <4>1, <5>1, <5>2
        <4> QED
          BY <4>2 DEF Rightly
      <3>2. CASE idx[f] = None
        BY <1>8, <3>2 DEF Rightly
      <3>3. CASE /\ f \notin Done /\ f \notin stale /\ ~pass.full /\ idx[f] = index[f]
        <4>1. f \notin suspect
          BY <1>2, <2>1, <3>3
        <4>2. Rightly(index[f], f)
          BY <1>2, <3>3, <4>1, KFacts DEF RightInv
        <4>3. \A p \in PointsOf(f) : qdrant'[p] = qdrant[p]
          BY <1>11, <3>3
        <4> QED
          BY <1>2, <1>8, <3>3, <4>2, <4>3 DEF Rightly
      <3> QED
        BY <1>10, <3>1, <3>2, <3>3
    <2>2. ASSUME NEW f \in Files \ suspect', ~pass'.full, pass'.idx[f] # None
          PROVE  Rightly(index[f], f)'
      <3>1. CASE f \in Pending
        BY <1>2, <1>8, <2>2, <3>1, KFacts DEF ChangedInv, Rightly
      <3>2. CASE f \notin Pending
        <4>1. pass'.idx[f] = index[f]
          BY <1>5, <1>8, <1>10, <2>2, <3>2
        <4>2. Rightly(pass.idx[f], f)'
          BY <2>1
        <4> QED
          BY <1>2, <4>1, <4>2 DEF Rightly
      <3> QED
        BY <3>1, <3>2
    <2> QED
      BY <1>2, <2>1, <2>2 DEF RightInv, BetweenPasses
  <1>19. KnownInv'
    <2>1. ASSUME faults' = 0, NEW f \in Files, NEW p \in PointsOf(f), qdrant'[p] # 0
          PROVE  Known(pass.idx[f], p)'
      <3>1. f \notin stale /\ faults = 0
        BY <1>2, <1>12, <2>1, KFacts
      <3>2. qdrant[p] # 0 /\ p \in Points /\ p[1] = f
        BY <1>11, <2>1, <3>1, PointFacts
      <3>3. p \in pass.ids \/ Known(pass.idx[f], p)
        BY <1>2, <2>1, <3>1, <3>2, KFacts DEF KnownInv
      <3>4. CASE p \in pass.ids
        <4>1. p \in Ids(f) /\ f \in Done
          BY <1>5, <3>2, <3>4, KFacts DEF Ids, PassInv
        <4>2. idx[f] = entry(f)
          BY <1>10, <4>1
        <4> QED
          BY <1>6, <1>8, <4>1, <4>2 DEF Known
      <3>5. CASE Known(pass.idx[f], p)
        <4>1. pass.idx[f] # None /\ f \notin Pending
          BY <1>7, <3>5 DEF Known
        <4>2. idx[f] = pass.idx[f]
          <5>1. f \notin Done
            BY <1>5, <4>1
          <5> QED
            BY <1>4, <1>5, <3>1, <5>1 DEF idx
        <4> QED
          BY <1>8, <3>5, <4>2 DEF Known
      <3> QED
        BY <3>3, <3>4, <3>5
    <2> QED
      BY <1>2, <2>1 DEF KnownInv, BetweenPasses
  <1> QED
    BY <1>1, <1>13, <1>14, <1>15, <1>16, <1>17, <1>18, <1>19 DEF KnowledgeInv

LEMMA SaveKeeps ==
  ASSUME KnowledgeInv, Save
  PROVE  KnowledgeInv'
  <1>1. KTypeOK'
    BY KFacts, PassStepTypes DEF PassStep
  <1>2. /\ loopAt = "save" /\ loopAt' = "loop" /\ UNCHANGED <<disk, edits, qdrant, faults>>
        /\ index' = pass.idx /\ pass' = NoPass
        /\ suspect' = {f \in suspect : pass.idx[f] # None}
    BY DEF Save, PassOver, diskVars, boundVars
  <1>3. BetweenPasses'
    BY <1>2 DEF BetweenPasses
  <1>4. \A f \in Files : index'[f] # None => /\ index'[f].points \subseteq PointsOf(f)
                                             /\ index'[f].mtime <= edits + 1
    BY <1>2, KFacts DEF OwnInv, MtimeInv
  <1>5. \A f \in Files \ suspect' : Rightly(index[f], f)'
    BY <1>2, KFacts DEF RightInv, Rightly
  <1>6. faults' = 0 => \A f \in Files : \A p \in PointsOf(f) :
                          qdrant'[p] # 0 => Known(index[f], p)'
    BY <1>2, KFacts DEF KnownInv, Known
  <1> QED
    BY <1>1, <1>2, <1>3, <1>4, <1>5, <1>6, EmptyPass, BetweenKeeps

-----------------------------------------------------------------------------
(* What goes wrong, and what changes outside. *)

\* A pass that fails and a daemon that dies go back to index.json.
LEMMA AbandonedKeeps ==
  ASSUME KnowledgeInv, KTypeOK', Abandoned, loopAt # "down", loopAt' = "loop", pass' = NoPass,
         faults' = faults + 1, UNCHANGED <<disk, edits, index, qdrant>>
  PROVE  KnowledgeInv'
  <1>1. BetweenPasses' /\ faults' # 0
    BY KFacts DEF BetweenPasses
  <1>2. \A f \in Files : index'[f] # None => /\ index'[f].points \subseteq PointsOf(f)
                                             /\ index'[f].mtime <= edits + 1
    BY KFacts DEF OwnInv, MtimeInv
  <1>3. ASSUME NEW f \in Files \ suspect' PROVE Rightly(index[f], f)'
    <2>a. loopAt \in {"loop", "decide", "purge", "start", "walk", "embed", "save", "down"}
      BY KFacts, KTypes
    <2>b. f \notin suspect
      BY <1>3 DEF Abandoned
    <2>1. index[f] = None \/ Rightly(index[f], f)
      <3>1. CASE loopAt \in {"walk", "embed"}
        <4>1. ~pass.full \/ index[f] = None
          <5>1. pass.full =>
                   suspect' = suspect \union {g \in Files : index[g] # None}
            BY <3>1 DEF Abandoned
          <5> QED
            BY <1>3, <5>1
        <4> QED
          BY <2>b, <3>1, <4>1, KFacts DEF RightInv
      <3>2. CASE loopAt = "save"
        <4>1. index[f] = None \/ (~pass.full /\ pass.idx[f] # None)
          <5>1. suspect' = suspect \union
                   {g \in Files : index[g] # None /\ (pass.full \/ pass.idx[g] = None)}
            BY <3>2 DEF Abandoned
          <5> QED
            BY <1>3, <5>1
        <4> QED
          BY <2>b, <3>2, <4>1, KFacts DEF RightInv
      <3>3. CASE loopAt = "purge"
        <4>1. suspect' = suspect \union {Victim}
          BY <3>3 DEF Abandoned
        <4>2. f # Victim
          BY <1>3, <4>1
        <4> QED
          BY <2>b, <3>3, <4>2, KFacts DEF RightInv
      <3>4. CASE BetweenPasses
        BY <2>b, <3>4, KFacts DEF RightInv
      <3> QED
        BY <2>a, <3>1, <3>2, <3>3, <3>4 DEF BetweenPasses
    <2> QED
      BY <2>1 DEF Rightly
  <1> QED
    BY <1>1, <1>2, <1>3, EmptyPass, BetweenKeeps

\* A file changes on disk.  In another second, its mtime is one no entry has; in
\* the same second it is suspect from now on.
LEMMA DiskKeeps ==
  ASSUME KnowledgeInv, KTypeOK', NEW f \in Files, edits' = edits + 1,
         UNCHANGED <<index, qdrant, loopAt, retire, pass, faults>>,
         \A g \in Files : g # f => disk'[g] = disk[g],
         \/ disk'[f].ver = 0 /\ disk'[f].mtime = 0 /\ suspect' = suspect
         \/ disk'[f].mtime = edits + 2 /\ suspect' = suspect
         \/ disk'[f].mtime = disk[f].mtime /\ disk[f].ver # 0 /\ suspect' = suspect \union {f}
  PROVE  KnowledgeInv'
  <1>1. PurgeInv' /\ OwnInv'
    BY KFacts DEF PurgeInv, OwnInv
  <1>2. MtimeInv'
    <2>1. \A g \in Files : disk'[g].mtime <= edits' + 1
      BY KFacts DEF MtimeInv
    <2>2. \A g \in Files : /\ index'[g] # None => index'[g].mtime <= edits' + 1
                           /\ pass'.idx[g] # None => pass'.idx[g].mtime <= edits' + 1
      BY KFacts DEF MtimeInv
    <2> QED
      BY <2>1, <2>2 DEF MtimeInv
  <1>3. Pending' = Pending /\ PassInv'
    BY KFacts DEF PassInv, Pending
  <1>4. ChangedInv'
    <2>1. ASSUME loopAt \in {"walk", "embed", "save"}, ~pass.full, NEW g \in Pending,
                 index[g] # None
          PROVE  index[g].mtime # disk'[g].mtime \/ disk'[g].ver = 0
      <3>1. g \in Files /\ (index[g].mtime # disk[g].mtime \/ disk[g].ver = 0)
        BY <2>1, KFacts, PassTypes DEF ChangedInv
      <3>2. index[g].mtime \in Nat /\ index[g].mtime <= edits + 1 /\ edits \in Nat
        BY <2>1, <3>1, KFacts DEF MtimeInv
      <3> QED
        BY <3>1, <3>2
    <2> QED
      BY <1>3, <2>1 DEF ChangedInv
  <1>5. ASSUME NEW g \in Files \ suspect', NEW e, Rightly(e, g),
               e # None => e.mtime \in Nat /\ e.mtime <= edits + 1
        PROVE  Rightly(e, g)'
    <2>1. CASE g # f
      BY <1>5, <2>1 DEF Rightly
    <2>2. CASE g = f
      BY <1>5, <2>2, KFacts DEF Rightly
    <2> QED
      BY <2>1, <2>2
  <1>6. \A g \in Files : /\ index[g] # None => index[g].mtime \in Nat /\ index[g].mtime <= edits + 1
                         /\ pass.idx[g] # None =>
                               pass.idx[g].mtime \in Nat /\ pass.idx[g].mtime <= edits + 1
    BY KFacts DEF MtimeInv
  <1>7. RightInv'
    <2>1. ASSUME NEW g \in Files \ suspect'
          PROVE  /\ Rightly(index[g], g) => Rightly(index[g], g)'
                 /\ Rightly(pass.idx[g], g) => Rightly(pass.idx[g], g)'
      <3>1. PICK e1, e2 : e1 = index[g] /\ e2 = pass.idx[g]
        OBVIOUS
      <3>2. /\ Rightly(e1, g) => Rightly(e1, g)'
            /\ Rightly(e2, g) => Rightly(e2, g)'
        BY <1>5, <1>6, <3>1
      <3> QED
        BY <3>1, <3>2 DEF Rightly
    <2>2. Victim' = Victim /\ suspect \subseteq suspect' /\ (BetweenPasses' <=> BetweenPasses)
      BY DEF Victim, BetweenPasses
    <2>3. ASSUME NEW g \in Files \ suspect'
          PROVE  /\ BetweenPasses' => Rightly(index[g], g)'
                 /\ loopAt' = "purge" /\ g # Victim' => Rightly(index[g], g)'
                 /\ loopAt' \in {"walk", "embed"} /\ ~pass'.full => Rightly(index[g], g)'
                 /\ loopAt' = "save" /\ ~pass'.full /\ pass'.idx[g] # None => Rightly(index[g], g)'
                 /\ loopAt' = "save" => Rightly(pass.idx[g], g)'
      <3>1. g \in Files \ suspect
        BY <2>2
      <3> QED
        BY <2>1, <2>2, <3>1, KFacts DEF RightInv
    <2> QED
      BY <2>3 DEF RightInv
  <1>8. KnownInv'
    BY KFacts DEF KnownInv, Known, BetweenPasses, Victim
  <1> QED
    BY <1>1, <1>2, <1>3, <1>4, <1>7, <1>8 DEF KnowledgeInv

LEMMA KnowledgeStep == KnowledgeInv /\ [KNext]_kVars => KnowledgeInv'
  <1> SUFFICES ASSUME KnowledgeInv, [KNext]_kVars PROVE KnowledgeInv'
    OBVIOUS
  <1>a. KTypeOK /\ PurgeInv
    BY KFacts
  <1>1. CASE LoopStep
    BY <1>1, DrainKeeps, DeleteKeeps, PurgeKeeps, DecideKeeps, StartKeeps DEF LoopStep
  <1>2. CASE PassStep
    BY <1>2, WalkKeeps, WalkedKeeps, EmbedKeeps, CommitKeeps, SaveKeeps DEF PassStep
  <1>3. CASE PassFails
    <2>1. KTypeOK'
      BY <1>a, <1>3, PassStepTypes
    <2> QED
      BY <1>3, <2>1, AbandonedKeeps DEF PassFails, PassOver, diskVars, storeVars
  <1>4. CASE \/ \E op \in Ops \ {"FsTickle"} : SendOp(op)
             \/ Pause \/ Resume \/ TogglePause \/ CancelPass
    <2>1. KTypeOK'
      BY <1>a, <1>4, CallTypes
    <2>2. UNCHANGED <<disk, index, qdrant, loopAt, retire, pass, suspect, faults, edits>>
      BY <1>4 DEF SendOp, Pause, Resume, TogglePause, CancelPass, diskVars, storeVars, loopVars
    <2> QED
      BY <2>1, <2>2, StillKeeps
  <1>5. ASSUME NEW f \in Files, Edit(f) PROVE KnowledgeInv'
    <2>1. KTypeOK'
      BY <1>a, <1>5, EnvironmentTypes
    <2>2. disk \in [Files -> [ver: Versions, mtime: Versions]]
      BY <1>a, KTypes
    <2>3. \/ /\ disk' = [disk EXCEPT ![f] = [ver |-> edits + 2, mtime |-> edits + 2]]
             /\ suspect' = suspect
          \/ /\ disk' = [disk EXCEPT ![f] = [ver |-> edits + 2, mtime |-> disk[f].mtime]]
             /\ disk[f].ver # 0 /\ suspect' = suspect \union {f}
      BY <1>5, <2>2 DEF Edit
    <2>4. /\ \A g \in Files : g # f => disk'[g] = disk[g]
          /\ \/ disk'[f].mtime = edits + 2 /\ suspect' = suspect
             \/ disk'[f].mtime = disk[f].mtime /\ disk[f].ver # 0 /\ suspect' = suspect \union {f}
      BY <2>2, <2>3
    <2>5. edits' = edits + 1 /\ UNCHANGED <<index, qdrant, loopAt, retire, pass, faults>>
      BY <1>5 DEF Edit, EditBound, storeVars, loopVars
    <2> QED
      BY <2>1, <2>4, <2>5, DiskKeeps
  <1>6. ASSUME NEW f \in Files, Unlink(f) PROVE KnowledgeInv'
    <2>1. KTypeOK'
      BY <1>a, <1>6, EnvironmentTypes
    <2>2. disk \in [Files -> [ver: Versions, mtime: Versions]]
      BY <1>a, KTypes
    <2>3. /\ \A g \in Files : g # f => disk'[g] = disk[g]
          /\ disk'[f].ver = 0 /\ disk'[f].mtime = 0 /\ suspect' = suspect
      BY <1>6, <2>2 DEF Unlink
    <2>4. edits' = edits + 1 /\ UNCHANGED <<index, qdrant, loopAt, retire, pass, faults>>
      BY <1>6 DEF Unlink, EditBound, storeVars, loopVars
    <2> QED
      BY <2>1, <2>3, <2>4, DiskKeeps
  <1>7. CASE (\E f \in Files : Toggle(f)) \/ IntervalElapses \/ Recover
    <2>1. KTypeOK'
      BY <1>a, <1>7, EnvironmentTypes
    <2>2. /\ UNCHANGED <<disk, index, qdrant, loopAt, retire, pass, suspect, faults>>
          /\ edits' = edits \/ edits' = edits + 1
      BY <1>7 DEF Toggle, EditBound, IntervalElapses, Recover, diskVars, storeVars, loopVars,
                  boundVars
    <2> QED
      BY <2>1, <2>2, StillKeeps
  <1>8. CASE KCrash
    <2>1. KTypeOK'
      BY <1>a, <1>8, EnvironmentTypes
    <2> QED
      BY <1>8, <2>1, AbandonedKeeps DEF KCrash, diskVars, storeVars
  <1>9. CASE UNCHANGED kVars
    <2>1. UNCHANGED <<diskVars, storeVars, loopAt, loopVars, pass, ops, flagVars, suspect, boundVars>>
      BY <1>9 DEF kVars
    <2>2. KTypeOK'
      BY <1>a, <2>1, Zenon DEF KTypeOK, diskVars, storeVars, loopVars, flagVars, boundVars
    <2> QED
      BY <2>1, <2>2, StillKeeps DEF diskVars, storeVars, loopVars, boundVars
  <1> QED
    BY <1>1, <1>2, <1>3, <1>4, <1>5, <1>6, <1>7, <1>8, <1>9 DEF KNext

LEMMA KnowledgeStart == KInit => KnowledgeInv
  <1> SUFFICES ASSUME KInit PROVE KnowledgeInv
    OBVIOUS
  <1>1. 0 \in Versions /\ 1 \in Versions /\ 0 \in 0 .. MaxEdits /\ 0 \in 0 .. MaxOps
        /\ 0 \in 0 .. MaxFaults
    BY ChunksAssumption DEF Versions
  <1>2. KTypeOK
    <2>1. disk \in [Files -> [ver: Versions, mtime: Versions]] /\ qdrant \in [Points -> Versions]
      BY <1>1 DEF KInit
    <2>2. enabled \subseteq Files /\ folders \subseteq Files /\ retire \subseteq Files
          /\ suspect \subseteq Files
      BY DEF KInit
    <2>3. index \in Indexes /\ pass \in Passes
      BY NoPassType DEF KInit
    <2>4. /\ loopAt \in {"loop", "decide", "purge", "start", "walk", "embed", "save", "down"}
          /\ first \in BOOLEAN /\ due \in BOOLEAN
          /\ paused \in BOOLEAN /\ cancel \in BOOLEAN /\ ready \in BOOLEAN
      BY DEF KInit
    <2>5. want \in [user: BOOLEAN, fs: BOOLEAN, full: BOOLEAN]
      BY DEF KInit, NoWants
    <2>6. ops \subseteq Ops
      BY DEF KInit, Ops
    <2>7. edits \in 0 .. MaxEdits /\ calls \in 0 .. MaxOps /\ faults \in 0 .. MaxFaults
      BY <1>1 DEF KInit
    <2> QED
      BY <2>1, <2>2, <2>3, <2>4, <2>5, <2>6, <2>7, Zenon DEF KTypeOK
  <1>3. /\ loopAt = "loop" /\ edits = 0 /\ pass = NoPass
        /\ \A f \in Files : index[f] = None /\ disk[f].mtime = 1
        /\ \A f \in Files : \A p \in PointsOf(f) : qdrant[p] = 0
    BY PointFacts DEF KInit
  <1>4. /\ pass.pending = << >> /\ pass.ids = {} /\ pass.todo = {}
        /\ pass.idx = [f \in Files |-> None] /\ Pending = {}
    BY <1>3, EmptyPass DEF Pending
  <1>5. PurgeInv /\ OwnInv /\ MtimeInv
    BY <1>3, <1>4 DEF PurgeInv, OwnInv, MtimeInv
  <1>6. PassInv /\ ChangedInv
    BY <1>3, <1>4 DEF PassInv, ChangedInv
  <1>7. RightInv /\ KnownInv
    BY <1>3, <1>4 DEF RightInv, Rightly, KnownInv, BetweenPasses
  <1> QED
    BY <1>2, <1>5, <1>6, <1>7 DEF KnowledgeInv

\* The types of the knowledge daemon hold in every reachable state.
THEOREM KnowledgeTypeCorrect == KSpec => []KTypeOK
  <1>1. KInit => KnowledgeInv
    BY KnowledgeStart
  <1>2. KnowledgeInv /\ [KNext]_kVars => KnowledgeInv'
    BY KnowledgeStep
  <1>3. KnowledgeInv => KTypeOK
    BY DEF KnowledgeInv
  <1> QED
    BY <1>1, <1>2, <1>3, PTL DEF KSpec

\* Whatever was cancelled, failed or crashed before, what the next incremental
\* pass of run_index would skip as unchanged is in qdrant at its present content,
\* the suspect files excepted.
THEOREM SkipsAreRight == KSpec => []SkippedIsPresent
  <1>1. KInit => KnowledgeInv
    BY KnowledgeStart
  <1>2. KnowledgeInv /\ [KNext]_kVars => KnowledgeInv'
    BY KnowledgeStep
  <1>3. KnowledgeInv => SkippedIsPresent
    <2> SUFFICES ASSUME KnowledgeInv PROVE SkippedIsPresent
      OBVIOUS
    <2>1. enabled \subseteq Files
      BY KFacts, KTypes
    <2> QED
      BY <2>1, KFacts DEF RightInv, Rightly, SkippedIsPresent
  <1> QED
    BY <1>1, <1>2, <1>3, PTL DEF KSpec

\* As long as nothing failed, every point in qdrant is in an entry of index.json,
\* through full resyncs, cancelled passes and folders that are retired: it can
\* be deleted again.
THEOREM PointsAreKnown == KSpec => []NoOrphans
  <1>1. KInit => KnowledgeInv
    BY KnowledgeStart
  <1>2. KnowledgeInv /\ [KNext]_kVars => KnowledgeInv'
    BY KnowledgeStep
  <1>3. KnowledgeInv => NoOrphans
    BY KFacts DEF KnownInv, Known, NoOrphans
  <1> QED
    BY <1>1, <1>2, <1>3, PTL DEF KSpec
=============================================================================
