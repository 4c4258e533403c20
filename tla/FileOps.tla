------------------------------ MODULE FileOps -------------------------------
(***************************************************************************)
(* One file operation of the file manager's daemon                         *)
(* (crates/sy-filemanager/src/file/ipc.rs) with the copy executor behind   *)
(* it (file/fs/copy.rs): file.copy or file.move of a batch of sources into *)
(* one directory, file.op_cancel, the row that file.ops_list shows, and    *)
(* the task that turns the executor's events into that row.  Paths and     *)
(* inodes are kept apart: a file that is unlinked while it is written goes *)
(* on existing for its writer only.                                        *)
(***************************************************************************)
EXTENDS Integers, Sequences, FiniteSets

CONSTANTS
    Batch,      \* the sources of the request, in its order
    BaseName,   \* BaseName[s]: the file name of source s
    Inside,     \* the sources that lie in the destination directory itself
    Existing,   \* other names taken in the destination at the start
    MaxSuffix,  \* the last suffix " (k)" that rename tries, u32::MAX - 1
    Depth,      \* EVENT_CHANNEL_DEPTH
    Kinds, Policies, Engines, \* the requests considered
    Absent      \* no inode

Sources == {Batch[i] : i \in 1 .. Len(Batch)}
Names == {BaseName[s] : s \in Sources} \union Existing

ASSUME BatchAssumption ==
    /\ Len(Batch) \in Nat
    /\ IsFiniteSet(Sources) /\ Cardinality(Sources) = Len(Batch)
    /\ Inside \subseteq Sources
    /\ \A s, t \in Inside : BaseName[s] = BaseName[t] => s = t
    /\ \A s \in Inside : BaseName[s] \notin Existing
    /\ MaxSuffix \in Nat /\ MaxSuffix >= Len(Batch)
    /\ Depth \in Nat \ {0}
    /\ Kinds \subseteq {"copy", "move"}
    /\ Policies \subseteq {"skip", "overwrite", "rename"}
    /\ Engines \subseteq {"sequential", "io_uring"}

\* <<name, k>> is `name (k)` in the destination, `name` itself for k = 0; a
\* source outside the destination is its own name.
DestPaths == Names \X (0 .. MaxSuffix)
SourcePath(s) == <<IF s \in Inside THEN BaseName[s] ELSE s, 0>>
Paths == DestPaths \union {SourcePath(s) : s \in Sources}
Base(s) == <<BaseName[s], 0>>

\* An inode is named after the path it had at the start, or after the source
\* whose copy created it.
Inodes == Paths \union Sources

ASSUME InodesAreApart == Paths \intersect Sources = {} /\ Absent \notin Inodes

VARIABLES
    request,  \* [kind, policy, engine], kind "none" before there is one
    entry,    \* entry[p]: the inode that path p names, or Absent
    data,     \* data[i]: whose content inode i has, and whether all of it
    stage,    \* stage[s]: how far the executor is with source s
    to,       \* to[s]: the path that resolve_dst has chosen
    fd,       \* fd[s]: the inode that the copy of s writes, or Absent
    events,   \* the executor's channel
    watcher,  \* the task that reads it; "sweep" while it removes, "gone" after
    swept,    \* sources whose base path it has removed
    pending,  \* its cancel_rx holds the id of this operation
    shown,    \* the row's state
    moved     \* sources that file.move has been through, and failed on

fileVars == <<entry, data>>
execVars == <<stage, to, fd>>
watchVars == <<watcher, swept, pending>>
opsVars == <<request, fileVars, execVars, events, watchVars, shown, moved>>

AtStart(p) ==
    IF (\E s \in Sources : p = SourcePath(s)) \/ p \in Existing \X {0} THEN p ELSE Absent

OpsInit ==
    /\ request = [kind |-> "none", policy |-> "none", engine |-> "none"]
    /\ entry = [p \in Paths |-> AtStart(p)]
    /\ data = [i \in Inodes |-> [of |-> i, whole |-> i \in Paths]]
    /\ stage = [s \in Sources |-> "none"]
    /\ to = [s \in Sources |-> SourcePath(s)]
    /\ fd = [s \in Sources |-> Absent]
    /\ events = <<>>
    /\ watcher = "none"
    /\ swept = {}
    /\ pending = FALSE
    /\ shown = "none"
    /\ moved = [through |-> {}, failed |-> {}]

\* The sources before s in the batch.
Before(s) ==
    {Batch[i] : i \in {j \in 1 .. Len(Batch) :
                          \E k \in j + 1 .. Len(Batch) : Batch[k] = s}}

-----------------------------------------------------------------------------
(* The requests. *)

\* file.copy: a row, a subscription to the cancel broadcast, the watching
\* task and the executor.  The request may name no source at all.
AcceptCopy(policy, engine) ==
    /\ request.kind = "none" /\ "copy" \in Kinds
    /\ request' = [kind |-> "copy", policy |-> policy, engine |-> engine]
    /\ \E all \in {"todo", "ended"} : stage' = [s \in Sources |-> all]
    /\ watcher' = "listening"
    /\ shown' = "running"
    /\ UNCHANGED <<fileVars, to, fd, events, swept, pending, moved>>

\* file.move: the policy is parsed and dropped; sources on another mount are
\* refused before there is an operation.
AcceptMove(policy) ==
    /\ request.kind = "none" /\ "move" \in Kinds
    /\ request' = [kind |-> "move", policy |-> policy, engine |-> "sequential"]
    /\ shown' = "running"
    /\ UNCHANGED <<fileVars, execVars, events, watchVars, moved>>

\* file.op_cancel: the broadcast reaches the watching task while there is
\* one; the row says cancelled at once.
OpCancel ==
    /\ request.kind # "none" /\ ~pending
    /\ pending' = (watcher = "listening")
    /\ shown' = "cancelled"
    /\ UNCHANGED <<request, fileVars, execVars, events, watcher, swept, moved>>

-----------------------------------------------------------------------------
(* The copy executor. *)

Dropped == watcher \in {"sweep", "gone"}
Room == Len(events) < Depth

\* tx.send: waits for room, fails once the stream is dropped.
Emit(e) ==
    \/ Dropped /\ UNCHANGED events
    \/ ~Dropped /\ Room /\ events' = Append(events, e)

Ended(s) == stage' = [stage EXCEPT ![s] = "ended"]

\* Started: with the stream dropped the sequential loop returns, an io_uring
\* task ends alone.
Begin(s) ==
    /\ stage[s] = "todo"
    /\ request.engine = "sequential" => \A t \in Before(s) : stage[t] = "ended"
    /\ Emit("Started")
    /\ \/ ~Dropped /\ stage' = [stage EXCEPT ![s] = "started"]
       \/ /\ Dropped
          /\ stage' = IF request.engine = "io_uring" THEN [stage EXCEPT ![s] = "ended"]
                      ELSE [t \in Sources |-> "ended"]
    /\ UNCHANGED <<request, fileVars, to, fd, watchVars, shown, moved>>

FreeSuffixes(s) == {k \in 1 .. MaxSuffix : entry[<<BaseName[s], k>>] = Absent}
\* Mutant: the name itself is the first candidate, and nobody looks.
RenameWithSuffixBlind(s) == <<BaseName[s], 0>>
\* When no suffix is left, the name itself.
RenameWithSuffix(s) ==
    <<BaseName[s], IF FreeSuffixes(s) = {} THEN 0
                   ELSE CHOOSE k \in FreeSuffixes(s) : \A l \in FreeSuffixes(s) : k <= l>>

\* resolve_dst, where a path is free or the policy finds or makes one.
Resolve(s) ==
    /\ stage[s] = "started"
    /\ \/ /\ entry[Base(s)] = Absent
          /\ to' = [to EXCEPT ![s] = Base(s)]
          /\ UNCHANGED entry
       \/ /\ entry[Base(s)] # Absent /\ request.policy = "overwrite"
          /\ to' = [to EXCEPT ![s] = Base(s)]
          /\ entry' = [entry EXCEPT ![Base(s)] = Absent]
       \/ /\ entry[Base(s)] # Absent /\ request.policy = "rename"
          /\ to' = [to EXCEPT ![s] = RenameWithSuffix(s)]
          /\ UNCHANGED entry
    /\ stage' = [stage EXCEPT ![s] = "resolved"]
    /\ UNCHANGED <<request, data, fd, events, watchVars, shown, moved>>

\* The policy is skip and the name is taken: one beat, and the source is
\* reported as if it were copied.
Skip(s) ==
    /\ stage[s] = "started"
    /\ entry[Base(s)] # Absent /\ request.policy = "skip"
    /\ Emit("Progress")
    /\ stage' = [stage EXCEPT ![s] = "whole"]
    /\ UNCHANGED <<request, fileVars, to, fd, watchVars, shown, moved>>

\* Both files are opened, the destination created or truncated.
Open(s) ==
    /\ stage[s] = "resolved"
    /\ entry[SourcePath(s)] # Absent
    /\ LET dst == IF entry[to[s]] = Absent THEN s ELSE entry[to[s]]
       IN  /\ entry' = [entry EXCEPT ![to[s]] = dst]
           /\ data' = [data EXCEPT ![dst] =
                          [of |-> data[entry[SourcePath(s)]].of, whole |-> FALSE]]
           /\ fd' = [fd EXCEPT ![s] = dst]
    /\ stage' = [stage EXCEPT ![s] = "writing"]
    /\ UNCHANGED <<request, to, events, watchVars, shown, moved>>

\* An open, a read or a write fails: the destination is unlinked.
Fails(s) ==
    /\ stage[s] \in {"resolved", "writing"}
    /\ entry' = [entry EXCEPT ![to[s]] = Absent]
    /\ Emit("Failed")
    /\ Ended(s)
    /\ UNCHANGED <<request, data, to, fd, watchVars, shown, moved>>

\* The source is gone, as when overwriting has unlinked it: open fails.
SourceMissing(s) ==
    /\ stage[s] = "resolved" /\ entry[SourcePath(s)] = Absent
    /\ Fails(s)

\* A progress beat, 100 ms or 4 MiB after the last one.
Progress(s) ==
    /\ stage[s] = "writing"
    /\ ~Dropped /\ Room
    /\ events' = Append(events, "Progress")
    /\ UNCHANGED <<request, fileVars, execVars, watchVars, shown, moved>>

\* Mutant: the partial destination is left in both engines.
AbandonedKeeps(s) ==
    /\ stage[s] = "writing" /\ Dropped
    /\ Ended(s)
    /\ UNCHANGED <<request, fileVars, to, fd, events, watchVars, shown, moved>>

\* A beat that finds the stream dropped: the sequential executor unlinks the
\* destination, the io_uring task returns as if it were done.
BeatFindsDropped(s) ==
    /\ stage[s] = "writing" /\ Dropped
    /\ entry' = IF request.engine = "io_uring" THEN entry
                ELSE [entry EXCEPT ![to[s]] = Absent]
    /\ Ended(s)
    /\ UNCHANGED <<request, data, to, fd, events, watchVars, shown, moved>>

\* The end of the source, and a last beat.  An inode that another task has
\* truncated and writes too is left a mixture.
ReachEof(s) ==
    /\ stage[s] = "writing"
    /\ Emit("Progress")
    /\ data' = [data EXCEPT ![fd[s]] =
                   [of |-> data[fd[s]].of,
                    whole |-> \A t \in Sources \ {s} :
                        stage[t] \in {"writing", "whole"} => fd[t] # fd[s]]]
    /\ stage' = [stage EXCEPT ![s] = "whole"]
    /\ UNCHANGED <<request, entry, to, fd, watchVars, shown, moved>>

Report(s) ==
    /\ stage[s] = "whole"
    /\ Emit("Completed")
    /\ Ended(s)
    /\ UNCHANGED <<request, fileVars, to, fd, watchVars, shown, moved>>

-----------------------------------------------------------------------------
(* The watching task, and file.move. *)

\* What an event makes of the row.
Row(e) ==
    CASE e = "Started" -> shown
      [] e = "Progress" -> "running"
      [] e = "Completed" -> "completed"
      [] e = "Failed" -> "failed"

\* The first event of the stream; a Completed or Failed ends the task, and the
\* stream with it.
TakeEvent ==
    /\ watcher = "listening" /\ events # <<>>
    /\ shown' = Row(Head(events))
    /\ IF Head(events) \in {"Started", "Progress"}
       THEN watcher' = watcher /\ events' = Tail(events)
       ELSE watcher' = "gone" /\ events' = <<>>
    /\ UNCHANGED <<request, fileVars, execVars, swept, pending, moved>>

\* Mutant: the end of the stream is waited out.
StreamEndsUnseen == FALSE /\ UNCHANGED opsVars

\* The stream is over: all senders are gone.
StreamEnds ==
    /\ watcher = "listening" /\ events = <<>>
    /\ \A s \in Sources : stage[s] = "ended"
    /\ watcher' = "gone"
    /\ shown' = "completed"
    /\ UNCHANGED <<request, fileVars, execVars, events, swept, pending, moved>>

\* The cancel is received: the stream is dropped, the row marked.
TakeCancel ==
    /\ watcher = "listening" /\ pending
    /\ watcher' = "sweep" /\ events' = <<>>
    /\ shown' = "cancelled"
    /\ UNCHANGED <<request, fileVars, execVars, swept, pending, moved>>

\* Then the base path of every source is removed, one after another.
Sweep ==
    /\ watcher = "sweep"
    /\ \/ \E s \in Sources \ swept :
             /\ Before(s) \subseteq swept
             /\ entry' = [entry EXCEPT ![Base(s)] = Absent]
             /\ swept' = swept \union {s}
             /\ UNCHANGED watcher
       \/ swept = Sources /\ watcher' = "gone" /\ UNCHANGED <<entry, swept>>
    /\ UNCHANGED <<request, data, execVars, events, pending, shown, moved>>

\* rename(2) of one source over whatever the destination has.
MoveOne(s) ==
    /\ request.kind = "move"
    /\ s \notin moved.through /\ Before(s) \subseteq moved.through
    /\ moved' = [through |-> moved.through \union {s},
                 failed |-> IF entry[SourcePath(s)] = Absent THEN moved.failed \union {s}
                            ELSE moved.failed]
    /\ entry' = IF entry[SourcePath(s)] = Absent \/ SourcePath(s) = Base(s) THEN entry
                ELSE [entry EXCEPT ![Base(s)] = entry[SourcePath(s)],
                                   ![SourcePath(s)] = Absent]
    /\ UNCHANGED <<request, data, execVars, events, watchVars, shown>>

MoveDone ==
    /\ request.kind = "move" /\ moved.through = Sources /\ watcher = "none"
    /\ watcher' = "gone"
    /\ shown' = IF moved.failed = {} THEN "completed" ELSE "failed"
    /\ UNCHANGED <<request, fileVars, execVars, events, swept, pending, moved>>

-----------------------------------------------------------------------------

Executor(s) ==
    \/ Begin(s) \/ Resolve(s) \/ Skip(s) \/ Open(s) \/ BeatFindsDropped(s) \/ ReachEof(s)
    \/ Report(s) \/ SourceMissing(s)

Watcher == TakeEvent \/ StreamEnds \/ TakeCancel \/ Sweep

\* file.move is carried out by its handler, one source after the other.
Mover == MoveDone \/ \E s \in Sources : MoveOne(s)

OpsNext ==
    \/ \E p \in Policies : (\E e \in Engines : AcceptCopy(p, e)) \/ AcceptMove(p)
    \/ OpCancel
    \/ \E s \in Sources : Executor(s) \/ Fails(s) \/ Progress(s)
    \/ Watcher \/ Mover

OpsSpec == OpsInit /\ [][OpsNext]_opsVars

\* Tasks and threads run; a sender that waits for room is served in its turn.
OpsFairness ==
    /\ SF_opsVars(\E s \in Sources : Executor(s))
    /\ WF_opsVars(Watcher) /\ WF_opsVars(Mover)

FairOpsSpec == OpsSpec /\ OpsFairness

-----------------------------------------------------------------------------

\* Type invariant; the channel keeps its bound, and is empty once dropped.
OpsTypeOK ==
    /\ request \in [kind : {"none"} \union Kinds, policy : {"none"} \union Policies,
                    engine : {"none", "sequential"} \union Engines]
    /\ entry \in [Paths -> Inodes \union {Absent}]
    /\ data \in [Inodes -> [of : Inodes, whole : BOOLEAN]]
    /\ stage \in [Sources -> {"none", "todo", "started", "resolved", "writing", "whole",
                              "ended"}]
    /\ to \in [Sources -> Paths]
    /\ fd \in [Sources -> Inodes \union {Absent}]
    /\ events \in Seq({"Started", "Progress", "Completed", "Failed"}) /\ Len(events) <= Depth
    /\ watcher \in {"none", "listening", "sweep", "gone"}
    /\ Dropped => events = <<>>
    /\ swept \subseteq Sources
    /\ pending \in BOOLEAN
    /\ shown \in {"none", "running", "completed", "failed", "cancelled"}
    /\ moved \in [through : SUBSET Sources, failed : SUBSET Sources]

Over == \A s \in Sources : stage[s] = "ended"

Kept(p) == entry[p] = AtStart(p) /\ data[entry[p]] = [of |-> p, whole |-> TRUE]

\* Whatever failed or was cancelled, a sequential copy that is over has left
\* no partial file: the executor rolls back what it was writing.
NoPartialLeft ==
    Over /\ request.engine = "sequential" =>
        \A p \in Paths : entry[p] # Absent => data[entry[p]].whole

\* A copy that nobody cancels and whose policy is skip or rename changes no
\* file that was there before, sources included, in whatever order io_uring
\* tasks look for a free name and create it.
CopyKeepsWhatWasThere ==
    request.kind = "copy" /\ request.policy \in {"skip", "rename"} /\ ~pending =>
        \A p \in Paths : AtStart(p) # Absent => Kept(p)

\* Every operation comes to an end: its executor stops, its task returns and
\* the row leaves "running".
OpEnds ==
    request.kind # "none" ~>
        /\ watcher = "gone" /\ shown \notin {"none", "running"}
        /\ request.kind = "copy" => Over

\* A row that says completed: the batch was gone through, source by source.
CompletedMeansCopied ==
    request.kind = "copy" /\ shown = "completed" =>
        \A s \in Sources : stage[s] # "todo"
=============================================================================
