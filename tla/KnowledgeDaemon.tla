-------------------------- MODULE KnowledgeDaemon --------------------------
(***************************************************************************)
(* sy-knowledge: the daemon's loop, the passes it runs, and the three      *)
(* places that must agree: the files on disk, index.json and qdrant.       *)
(*                                                                         *)
(* The main thread alone touches index.json and qdrant.  The IPC bridge    *)
(* thread sets the flags paused and cancel in the middle of its work.      *)
(* Files, folders, clients, the workers' health and crashes are the        *)
(* environment.  Every file has a folder of its own, with a manifest.      *)
(*                                                                         *)
(* A file's content is a version; its points are numbered chunks.  What is *)
(* left out: the text, its extraction and embedding, files that are        *)
(* skipped, the status file, throttling and the collection's schema.       *)
(***************************************************************************)
EXTENDS Integers, Sequences, FiniteSets

CONSTANTS
    Files,
    Chunks,        \* Chunks[f]: how many chunks a version of f has
    UpsertBatch,
    MaxEdits,      \* bounds on what the environment does
    MaxOps,
    MaxFaults,
    None

ASSUME ChunksAssumption ==
    /\ Chunks \in [Files -> Nat \ {0}] /\ UpsertBatch \in Nat \ {0}
    /\ MaxEdits \in Nat /\ MaxOps \in Nat /\ MaxFaults \in Nat

VARIABLES
    disk,       \* version and mtime of a file; version 0: absent
    enabled,    \* files whose folder has an enabled manifest
    index,      \* index.json
    qdrant,     \* version of each point; 0: no such point
    loopAt,     \* where the main thread stands
    folders,    \* active_folders
    retire,     \* folders that this iteration has yet to retire
    want,       \* the want_* flags
    first,      \* first_pass
    due,        \* last_run.elapsed() >= interval
    pass,       \* the locals of run_index
    ops,        \* the channel of the main loop
    paused, cancel,
    ready,      \* no worker that indexing needs is degraded
    suspect,    \* history: files an incremental pass may wrongly skip
    edits, calls, faults

diskVars   == <<disk, enabled>>
storeVars  == <<index, qdrant>>
loopVars   == <<folders, retire, want, first, due>>
flagVars   == <<paused, cancel, ready>>
boundVars  == <<edits, calls, faults>>
kVars == <<diskVars, storeVars, loopAt, loopVars, pass, ops, flagVars, suspect, boundVars>>

Ops == {"IndexNow", "RefreshSources", "FullResync", "RescanDiscovery", "FsTickle", "Shutdown"}

Versions == 0 .. MaxEdits + 1
ChunksOf(f) == 1 .. Chunks[f]
PointsOf(f) == {f} \X ChunksOf(f)
Points == UNION {PointsOf(f) : f \in Files}

(* state::FileEntry: the version stands for the content hash. *)
Entries == [mtime: Versions, ver: Versions, points: SUBSET Points]
Indexes == [Files -> Entries \union {None}]

ASSUME NoneIsNoEntry == None \notin Entries

Passes == [full: BOOLEAN, idx: Indexes, jobs: SUBSET Files, seen: SUBSET Files,
           pending: Seq(Files), ver: [Files -> Versions], todo: SUBSET Points,
           ids: SUBSET Points]

NoWants == [user |-> FALSE, fs |-> FALSE, full |-> FALSE]
NoPass == [full |-> FALSE, idx |-> [f \in Files |-> None], jobs |-> {}, seen |-> {},
           pending |-> << >>, ver |-> [f \in Files |-> 0], todo |-> {}, ids |-> {}]

KTypeOK ==
    /\ disk \in [Files -> [ver: Versions, mtime: Versions]]
    /\ enabled \subseteq Files
    /\ index \in Indexes
    /\ qdrant \in [Points -> Versions]
    /\ loopAt \in {"loop", "decide", "purge", "start", "walk", "embed", "save", "down"}
    /\ folders \subseteq Files /\ retire \subseteq Files
    /\ want \in [user: BOOLEAN, fs: BOOLEAN, full: BOOLEAN]
    /\ first \in BOOLEAN /\ due \in BOOLEAN
    /\ pass \in Passes
    /\ ops \subseteq Ops
    /\ paused \in BOOLEAN /\ cancel \in BOOLEAN /\ ready \in BOOLEAN
    /\ suspect \subseteq Files
    /\ edits \in 0 .. MaxEdits /\ calls \in 0 .. MaxOps /\ faults \in 0 .. MaxFaults

(* Fresh stores.  A collection of an older schema queues a full resync. *)
KInit ==
    /\ disk = [f \in Files |-> [ver |-> 1, mtime |-> 1]]
    /\ enabled = Files /\ folders = Files /\ retire = {}
    /\ index = [f \in Files |-> None]
    /\ qdrant = [p \in Points |-> 0]
    /\ loopAt = "loop" /\ first = TRUE /\ due = FALSE
    /\ want = NoWants /\ pass = NoPass
    /\ ops \in {{}, {"FullResync"}}
    /\ paused = FALSE /\ cancel = FALSE /\ ready \in BOOLEAN
    /\ suspect = {}
    /\ edits = 0 /\ calls = 0 /\ faults = 0

-----------------------------------------------------------------------------
(* The main loop. *)

(* All queued ops become flags of this iteration. *)
DrainOps ==
    /\ loopAt = "loop" /\ (ops # {} \/ due \/ first)
    /\ ops' = {}
    /\ IF "Shutdown" \in ops
       THEN /\ loopAt' = "down"
            /\ UNCHANGED loopVars
       ELSE LET rescan  == {"RescanDiscovery", "RefreshSources"} \intersect ops # {}
                changed == rescan /\ folders # enabled IN
            /\ loopAt' = "decide"
            /\ first' = FALSE
            /\ retire' = IF rescan THEN folders \ enabled ELSE {}
            /\ folders' = IF rescan THEN enabled ELSE folders
            /\ want' = [user |-> first \/ changed \/ {"IndexNow", "RefreshSources"} \intersect ops # {},
                        fs   |-> "FsTickle" \in ops,
                        full |-> "FullResync" \in ops]
            /\ UNCHANGED due
    /\ UNCHANGED <<diskVars, storeVars, pass, flagVars, suspect, boundVars>>

Without(store, points) == [p \in Points |-> IF p \in points THEN 0 ELSE store[p]]

Victim == CHOOSE f \in retire : TRUE

(* delete_by_source, which may fail and is not tried again. *)
DeleteSource ==
    /\ loopAt = "decide" /\ retire # {}
    /\ loopAt' = "purge"
    /\ \/ /\ qdrant' = Without(qdrant, PointsOf(Victim))
          /\ UNCHANGED faults
       \/ /\ faults < MaxFaults /\ faults' = faults + 1
          /\ UNCHANGED qdrant
    /\ UNCHANGED <<diskVars, index, loopVars, pass, ops, flagVars, suspect, edits, calls>>

(* purge_index_subtree *)
Purge ==
    /\ loopAt = "purge"
    /\ loopAt' = "decide"
    /\ index' = [index EXCEPT ![Victim] = None]
    /\ retire' = retire \ {Victim}
    /\ UNCHANGED <<diskVars, qdrant, folders, want, first, due, pass, ops, flagVars, suspect,
                   boundVars>>

(* Mutant: the schedule is only looked at when something else is wanted. *)
DecideUnscheduled ==
    /\ loopAt = "decide" /\ retire = {}
    /\ want' = NoWants
    /\ \/ /\ ready /\ ~paused
          /\ want.full \/ want.user \/ want.fs
          /\ loopAt' = "start"
          /\ pass' = [NoPass EXCEPT !.full = want.full]
       \/ /\ ready /\ ~paused => ~want.full /\ ~want.user
          /\ loopAt' = "loop"
          /\ UNCHANGED pass
    /\ due' = FALSE
    /\ UNCHANGED <<diskVars, storeVars, folders, retire, first, ops, flagVars, suspect, boundVars>>

(* Which pass, if any.  What is wanted and not done now is forgotten; a    *)
(* tickle is not heeded within FS_TICKLE_FLOOR of the last such pass.      *)
DecidePass ==
    /\ loopAt = "decide" /\ retire = {}
    /\ want' = NoWants
    /\ \/ /\ ready /\ ~paused
          /\ want.full \/ want.user \/ due \/ want.fs
          /\ loopAt' = "start"
          /\ pass' = [NoPass EXCEPT !.full = want.full]
       \/ /\ ready /\ ~paused => ~want.full /\ ~want.user /\ ~due
          /\ loopAt' = "loop"
          /\ UNCHANGED pass
    /\ UNCHANGED <<diskVars, storeVars, folders, retire, first, due, ops, flagVars, suspect,
                   boundVars>>

(* last_run = now *)
PassOver ==
    /\ loopAt' = "loop"
    /\ pass' = NoPass
    /\ due' = FALSE

(* Mutant: the full resync starts from the old index. *)
StartKeepsIndex ==
    /\ loopAt = "start"
    /\ cancel' = FALSE
    /\ LET idx == index IN
       \/ /\ qdrant' = IF pass.full THEN [p \in Points |-> 0] ELSE qdrant
          /\ IF enabled = {}
             THEN /\ index' = idx
                  /\ PassOver
             ELSE /\ pass' = [pass EXCEPT !.idx = idx, !.jobs = enabled]
                  /\ loopAt' = "walk"
                  /\ UNCHANGED <<index, due>>
          /\ UNCHANGED faults
       \/ /\ pass.full /\ faults < MaxFaults                  \* recreate_collection fails
          /\ faults' = faults + 1
          /\ PassOver
          /\ UNCHANGED storeVars
    /\ UNCHANGED <<diskVars, folders, retire, want, first, ops, paused, ready, suspect, edits, calls>>

(* The head of run_one_pass and run_full_resync, up to the walk.  A full   *)
(* resync drops the collection first.  Without any folder run_index        *)
(* returns at once, and what it was given is saved.                        *)
StartPass ==
    /\ loopAt = "start"
    /\ cancel' = FALSE
    /\ LET idx == IF pass.full THEN [f \in Files |-> None] ELSE index IN
       \/ /\ qdrant' = IF pass.full THEN [p \in Points |-> 0] ELSE qdrant
          /\ IF enabled = {}
             THEN /\ index' = idx
                  /\ PassOver
             ELSE /\ pass' = [pass EXCEPT !.idx = idx, !.jobs = enabled]
                  /\ loopAt' = "walk"
                  /\ UNCHANGED <<index, due>>
          /\ UNCHANGED faults
       \/ /\ pass.full /\ faults < MaxFaults                  \* recreate_collection fails
          /\ faults' = faults + 1
          /\ PassOver
          /\ UNCHANGED storeVars
    /\ UNCHANGED <<diskVars, folders, retire, want, first, ops, paused, ready, suspect, edits, calls>>

-----------------------------------------------------------------------------
(* run_index *)

Unwalked == {f \in pass.jobs \ pass.seen : disk[f].ver # 0}

(* A file that changed since index.json: its old points go now. *)
Walk(f) ==
    /\ loopAt = "walk" /\ ~cancel /\ f \in Unwalked
    /\ LET e == pass.idx[f]
           unchanged == e # None /\ e.mtime = disk[f].mtime
           next == [pass EXCEPT !.seen = pass.seen \union {f}] IN
       IF unchanged
       THEN /\ pass' = next
            /\ UNCHANGED qdrant
       ELSE /\ pass' = [next EXCEPT !.idx = [pass.idx EXCEPT ![f] = None],
                                    !.pending = Append(pass.pending, f),
                                    !.ver = [pass.ver EXCEPT ![f] = disk[f].ver]]
            /\ qdrant' = IF e = None THEN qdrant ELSE Without(qdrant, e.points)
    /\ UNCHANGED <<diskVars, index, loopAt, loopVars, ops, flagVars, suspect, boundVars>>

Pending == {pass.pending[i] : i \in 1 .. Len(pass.pending)}

Walked ==
    /\ loopAt = "walk" /\ (cancel \/ Unwalked = {})
    /\ loopAt' = "embed"
    /\ pass' = [pass EXCEPT !.todo = UNION {PointsOf(f) : f \in Pending}]
    /\ UNCHANGED <<diskVars, storeVars, loopVars, ops, flagVars, suspect, boundVars>>

(* The order in which batches take chunks: that of the walk and of a file. *)
QueuedBefore(p, q) ==
    \/ p[1] = q[1] /\ p[2] < q[2]
    \/ \E i, j \in 1 .. Len(pass.pending) :
          i < j /\ pass.pending[i] = p[1] /\ pass.pending[j] = q[1]

NextBatch == {p \in pass.todo : Cardinality({q \in pass.todo : QueuedBefore(q, p)}) < UpsertBatch}

(* flush_batch *)
EmbedBatch ==
    /\ loopAt = "embed" /\ ~cancel /\ pass.todo # {}
    /\ qdrant' = [p \in Points |-> IF p \in NextBatch THEN pass.ver[p[1]] ELSE qdrant[p]]
    /\ pass' = [pass EXCEPT !.ids = pass.ids \union NextBatch, !.todo = pass.todo \ NextBatch]
    /\ UNCHANGED <<diskVars, index, loopAt, loopVars, ops, flagVars, suspect, boundVars>>

Ids(f) == pass.ids \intersect PointsOf(f)

(* Mutant: files that were cut short are not committed, but their points stay. *)
DoneComplete == {f \in Pending : Ids(f) = PointsOf(f)}

(* The files that are committed. *)
Done == {f \in Pending : Ids(f) # {}}

(* The mtime is read again here, not the one that the walk compared. *)
Committed == [f \in Files |-> IF f \in Done
                              THEN [mtime |-> disk[f].mtime, ver |-> pass.ver[f], points |-> Ids(f)]
                              ELSE pass.idx[f]]

(* Commit, and unless cancelled drop what the walk has not seen.  The      *)
(* result of that delete is not looked at.                                 *)
Commit ==
    /\ loopAt = "embed" /\ (cancel \/ pass.todo = {})
    /\ loopAt' = "save"
    /\ LET stale == IF cancel THEN {} ELSE {f \in Files \ pass.seen : Committed[f] # None} IN
       /\ pass' = [pass EXCEPT !.idx = [f \in Files |-> IF f \in stale THEN None ELSE Committed[f]]]
       /\ \/ /\ qdrant' = Without(qdrant, UNION {Committed[f].points : f \in stale})
             /\ UNCHANGED faults
          \/ /\ stale # {} /\ faults < MaxFaults /\ faults' = faults + 1
             /\ UNCHANGED qdrant
    /\ suspect' = {f \in Files : \/ f \in Done /\ (Ids(f) # PointsOf(f) \/ pass.ver[f] # disk[f].ver)
                                 \/ f \in suspect \ Done}
    /\ UNCHANGED <<diskVars, index, loopVars, ops, flagVars, edits, calls>>

Save ==
    /\ loopAt = "save"
    /\ index' = pass.idx
    /\ cancel' = FALSE
    /\ suspect' = {f \in suspect : pass.idx[f] # None}
    /\ PassOver
    /\ UNCHANGED <<diskVars, qdrant, folders, retire, want, first, ops, paused, ready, boundVars>>

(* What a pass that does not get to its save leaves behind. *)
Abandoned ==
    suspect' = suspect \union
        CASE loopAt \in {"walk", "embed"} /\ pass.full -> {f \in Files : index[f] # None}
          [] loopAt = "save" -> {f \in Files : index[f] # None /\ (pass.full \/ pass.idx[f] = None)}
          [] loopAt = "purge" -> {Victim}
          [] OTHER -> {}

(* An extraction, a worker or qdrant fails: run_index returns an error,    *)
(* and index.json stays as it was.                                         *)
PassFails ==
    /\ loopAt \in {"walk", "embed"} /\ faults < MaxFaults
    /\ faults' = faults + 1
    /\ cancel' = FALSE
    /\ Abandoned
    /\ PassOver
    /\ UNCHANGED <<diskVars, storeVars, folders, retire, want, first, ops, paused, ready, edits, calls>>

-----------------------------------------------------------------------------
(* The IPC bridge: flags are set here, everything else goes to the loop. *)

Call == calls < MaxOps /\ loopAt # "down" /\ calls' = calls + 1

SendOp(op) ==
    /\ Call
    /\ ops' = ops \union {op}
    /\ UNCHANGED <<diskVars, storeVars, loopAt, loopVars, pass, flagVars, suspect, edits, faults>>

Pause ==
    /\ Call
    /\ paused' = TRUE /\ cancel' = TRUE
    /\ UNCHANGED <<diskVars, storeVars, loopAt, loopVars, pass, ops, ready, suspect, edits, faults>>

Resume ==
    /\ Call
    /\ paused' = FALSE
    /\ ops' = IF paused THEN ops \union {"IndexNow"} ELSE ops
    /\ UNCHANGED <<diskVars, storeVars, loopAt, loopVars, pass, cancel, ready, suspect, edits, faults>>

TogglePause == (~paused /\ Pause) \/ (paused /\ Resume)

CancelPass ==
    /\ Call
    /\ cancel' = TRUE
    /\ UNCHANGED <<diskVars, storeVars, loopAt, loopVars, pass, ops, paused, ready, suspect, edits, faults>>

-----------------------------------------------------------------------------
(* The environment. *)

EditBound == edits < MaxEdits /\ edits' = edits + 1

(* mtime has whole seconds: a second edit may not change it. *)
Edit(f) ==
    /\ EditBound
    /\ \E sameSecond \in {disk[f].ver # 0, FALSE} :
        /\ disk' = [disk EXCEPT ![f] = [ver   |-> edits + 2,
                                        mtime |-> IF sameSecond THEN @.mtime ELSE edits + 2]]
        /\ suspect' = IF sameSecond THEN suspect \union {f} ELSE suspect
    /\ ops' = ops \union {"FsTickle"}
    /\ UNCHANGED <<enabled, storeVars, loopAt, loopVars, pass, flagVars, calls, faults>>

Unlink(f) ==
    /\ EditBound /\ disk[f].ver # 0
    /\ disk' = [disk EXCEPT ![f] = [ver |-> 0, mtime |-> 0]]
    /\ ops' = ops \union {"FsTickle"}
    /\ UNCHANGED <<enabled, storeVars, loopAt, loopVars, pass, flagVars, suspect, calls, faults>>

(* A manifest is enabled or disabled; the watcher tells the loop. *)
Toggle(f) ==
    /\ EditBound
    /\ enabled' = IF f \in enabled THEN enabled \ {f} ELSE enabled \union {f}
    /\ ops' = ops \union {"RescanDiscovery"}
    /\ UNCHANGED <<disk, storeVars, loopAt, loopVars, pass, flagVars, suspect, calls, faults>>

IntervalElapses ==
    /\ ~due /\ loopAt # "down"
    /\ due' = TRUE
    /\ UNCHANGED <<diskVars, storeVars, loopAt, folders, retire, want, first, pass, ops, flagVars,
                   suspect, boundVars>>

(* The workers that did not load at the start have come up. *)
Recover ==
    /\ ~ready
    /\ ready' = TRUE
    /\ UNCHANGED <<diskVars, storeVars, loopAt, loopVars, pass, ops, paused, cancel, suspect, boundVars>>

(* The daemon dies and systemd starts it again, with its workers or         *)
(* degraded: workers are recorded as degraded only at the start.           *)
KCrash ==
    /\ loopAt # "down" /\ faults < MaxFaults
    /\ faults' = faults + 1
    /\ Abandoned
    /\ loopAt' = "loop" /\ pass' = NoPass /\ want' = NoWants /\ first' = TRUE /\ due' = FALSE
    /\ folders' = enabled /\ retire' = {} /\ ops' = {}
    /\ paused' = FALSE /\ cancel' = FALSE /\ ready' \in BOOLEAN
    /\ UNCHANGED <<diskVars, storeVars, edits, calls>>

-----------------------------------------------------------------------------
LoopStep == DrainOps \/ DeleteSource \/ Purge \/ DecidePass \/ StartPass
PassStep == (\E f \in Files : Walk(f)) \/ Walked \/ EmbedBatch \/ Commit \/ Save

KNext ==
    \/ LoopStep \/ PassStep \/ PassFails
    \/ \E op \in Ops \ {"FsTickle"} : SendOp(op)
    \/ Pause \/ Resume \/ TogglePause \/ CancelPass
    \/ \E f \in Files : Edit(f) \/ Unlink(f) \/ Toggle(f)
    \/ IntervalElapses \/ Recover \/ KCrash

KSpec == KInit /\ [][KNext]_kVars

(* The main thread runs, the interval elapses, degraded workers come back. *)
KFairness ==
    /\ WF_kVars(LoopStep) /\ WF_kVars(PassStep)
    /\ WF_kVars(IntervalElapses) /\ WF_kVars(Recover)

KFairSpec == KSpec /\ KFairness

-----------------------------------------------------------------------------
(* Properties. *)

BetweenPasses == loopAt \in {"loop", "decide", "start", "down"}

(* What the next incremental pass would skip as unchanged is in qdrant, at *)
(* its present content, whatever was cancelled, failed or crashed before.  *)
(* Files that are suspect are excepted.                                    *)
SkippedIsPresent ==
    BetweenPasses => \A f \in enabled \ suspect :
        index[f] # None /\ index[f].mtime = disk[f].mtime /\ disk[f].ver # 0
            => \A p \in PointsOf(f) : qdrant[p] = disk[f].ver

(* As long as nothing failed, every point in qdrant is known to index.json *)
(* and can be deleted again: passes that were cancelled leave no orphans.  *)
NoOrphans ==
    BetweenPasses /\ faults = 0 => \A f \in Files : \A p \in PointsOf(f) :
        qdrant[p] # 0 => index[f] # None /\ p \in index[f].points

(* A daemon that is not paused and has its workers catches up with the     *)
(* disk: through lost tickles, dropped wishes, cancels, failures and       *)
(* crashes, the schedule brings every file in and every absent one out.    *)
Synced ==
    /\ \A f \in enabled \ suspect : disk[f].ver # 0 =>
        index[f] # None /\ \A p \in PointsOf(f) : qdrant[p] = disk[f].ver
    /\ enabled # {} => \A f \in Files : (f \notin enabled \/ disk[f].ver = 0) => index[f] = None
CatchesUp == <>[](ready /\ ~paused /\ loopAt # "down") => <>[]Synced
=============================================================================
