---------------------------- MODULE DesktopProofs ----------------------------
(***************************************************************************)
(* What is proved, for every value of the constants, about the desktop     *)
(* components of this project: the file manager's preview bridge           *)
(* (PluginBridge), its copies and moves (FileOps), and the session's       *)
(* authentication agent (PolkitAgent).                                     *)
(***************************************************************************)
EXTENDS PluginBridge, FileOps, PolkitAgent, FiniteSetTheorems, WellFoundedInduction, TLAPS

-----------------------------------------------------------------------------
(* The preview bridge. *)

\* Who is under the mutex: the hover whose spawn or request is under way, and
\* nobody else.
GuardInv ==
    /\ \A h \in Hovers : h \in lock <=> step[h] \in {"spawning", "awaiting"}
    /\ \A g, h \in lock : g = h

\* A hover has no supervisor before its request; while the request is under
\* way the cache holds the supervisor it went to, for the mutex is held; and
\* when that supervisor has failed it, the cache does not hold it.
ServedInv ==
    \A h \in Hovers :
        /\ step[h] \in {"idle", "ensure", "spawning", "request"} => used[h] = 0
        /\ step[h] = "awaiting" => used[h] = procs[Target[h]]
        /\ step[h] = "failed" /\ used[h] # 0 => procs[Target[h]] # used[h]

PreviewInv == PreviewTypeOK /\ GuardInv /\ ServedInv

\* The mutex goes to nobody or to one hover.
LEMMA GuardIsOne ==
  ASSUME NEW L, \A g, h \in L : g = h
  PROVE  Cardinality(L) <= 1
  <1>1. CASE L = {}
    BY <1>1, FS_EmptySet
  <1>2. CASE \E h \in L : TRUE
    <2>1. PICK h \in L : L = {h}
      BY <1>2
    <2>2. Cardinality({h}) = 1
      BY FS_Singleton
    <2> QED
      BY <2>1, <2>2
  <1> QED
    BY <1>1, <1>2

\* The queue of the mutex.
LEMMA QueueTypes ==
  ASSUME waiters \in Seq(Hovers \union {Quit})
  PROVE  /\ \A t \in Hovers \union {Quit} : Append(waiters, t) \in Seq(Hovers \union {Quit})
         /\ waiters # <<>> => /\ Tail(waiters) \in Seq(Hovers \union {Quit})
                              /\ \A t \in Hovers \union {Quit} :
                                    Append(Tail(waiters), t) \in Seq(Hovers \union {Quit})
  OBVIOUS

LEMMA PreviewStep == PreviewInv /\ [PreviewNext]_previewVars => PreviewInv'
  <1> SUFFICES ASSUME PreviewInv, [PreviewNext]_previewVars PROVE PreviewInv'
    OBVIOUS
  <1>a. /\ Target \in [Hovers -> Plugins] /\ Quit \notin Hovers
    BY BridgeAssumption
  <1>b. /\ step \in [Hovers -> Steps] /\ lock \in SUBSET Hovers
        /\ waiters \in Seq(Hovers \union {Quit}) /\ spawned \in Nat
        /\ procs \in [Plugins -> 0 .. spawned] /\ used \in [Hovers -> 0 .. spawned]
        /\ quitStep \in {"idle", "lock", "stopping", "done"}
        /\ drained \in SUBSET (1 .. spawned)
        /\ \A g, h \in lock : g = h
    BY DEF PreviewInv, PreviewTypeOK, GuardInv
  <1> DEFINE Typed == /\ step \in [Hovers -> Steps] /\ lock \in SUBSET Hovers
                      /\ waiters \in Seq(Hovers \union {Quit}) /\ spawned \in Nat
                      /\ procs \in [Plugins -> 0 .. spawned]
                      /\ used \in [Hovers -> 0 .. spawned]
                      /\ quitStep \in {"idle", "lock", "stopping", "done"}
                      /\ drained \in SUBSET (1 .. spawned)
  <1>0. ASSUME Typed', GuardInv', ServedInv' PROVE PreviewInv'
    <2>1. \A g, h \in lock' : g = h
      BY <1>0 DEF GuardInv
    <2>2. Cardinality(lock') <= 1
      BY <2>1, GuardIsOne
    <2> QED
      BY <1>0, <2>2 DEF PreviewInv, PreviewTypeOK
  <1>1. ASSUME NEW h \in Hovers, Hover(h) PROVE PreviewInv'
    <2>1. /\ step' \in [Hovers -> Steps]
          /\ \A g \in Hovers : step'[g] = IF g = h THEN "ensure" ELSE step[g]
      BY <1>1, <1>b DEF Hover, Moves, Steps
    <2>2. waiters' \in Seq(Hovers \union {Quit})
      BY <1>1, <1>b, QueueTypes DEF Hover
    <2>3. Typed'
      BY <1>1, <1>b, <2>1, <2>2 DEF Hover, quitVars
    <2>4. GuardInv'
      BY <1>1, <2>1 DEF Hover, PreviewInv, GuardInv
    <2>5. ServedInv'
      BY <1>1, <2>1 DEF Hover, PreviewInv, ServedInv
    <2> QED
      BY <1>0, <2>3, <2>4, <2>5
  <1>2. ASSUME NEW h \in Hovers, EnsurePlugin(h) PROVE PreviewInv'
    <2>1. CASE Cached(h)
      <3>1. /\ step' \in [Hovers -> Steps]
            /\ \A g \in Hovers : step'[g] = IF g = h THEN "request" ELSE step[g]
        BY <1>2, <1>b, <2>1 DEF EnsurePlugin, Moves, Steps
      <3>2. waiters' \in Seq(Hovers \union {Quit})
        BY <1>2, <1>b, <2>1, QueueTypes DEF EnsurePlugin, Acquires
      <3>3. Typed'
        BY <1>2, <1>b, <2>1, <3>1, <3>2 DEF EnsurePlugin, quitVars
      <3>4. GuardInv'
        BY <1>2, <2>1, <3>1 DEF EnsurePlugin, PreviewInv, GuardInv
      <3>5. ServedInv'
        BY <1>2, <2>1, <3>1 DEF EnsurePlugin, PreviewInv, ServedInv
      <3> QED
        BY <1>0, <3>3, <3>4, <3>5
    <2>2. CASE ~Cached(h)
      <3>1. /\ step' \in [Hovers -> Steps]
            /\ \A g \in Hovers : step'[g] = IF g = h THEN "spawning" ELSE step[g]
            /\ lock = {} /\ lock' = {h}
        BY <1>2, <1>b, <2>2 DEF EnsurePlugin, Moves, Steps, Acquires
      <3>2. waiters' \in Seq(Hovers \union {Quit})
        BY <1>2, <1>b, <2>2, QueueTypes DEF EnsurePlugin, Acquires
      <3>3. Typed'
        BY <1>2, <1>b, <2>2, <3>1, <3>2 DEF EnsurePlugin, quitVars
      <3>4. GuardInv'
        BY <1>2, <2>2, <3>1 DEF PreviewInv, GuardInv
      <3>5. ServedInv'
        BY <1>2, <2>2, <3>1 DEF EnsurePlugin, PreviewInv, ServedInv
      <3> QED
        BY <1>0, <3>3, <3>4, <3>5
    <2> QED
      BY <2>1, <2>2
  <1>3. ASSUME NEW h \in Hovers, Spawned(h) PROVE PreviewInv'
    <2>1. lock = {h} /\ lock' = {}
      BY <1>3 DEF Spawned, PreviewInv, GuardInv
    <2>2. \A g \in Hovers : step[g] # "awaiting"
      BY <1>3, <2>1 DEF Spawned, PreviewInv, GuardInv
    <2>3. CASE Moves(h, "request") /\ spawned' = spawned + 1
               /\ procs' = [procs EXCEPT ![Target[h]] = spawned + 1]
               /\ waiters' = Append(waiters, h)
      <3>1. /\ step' \in [Hovers -> Steps]
            /\ \A g \in Hovers : step'[g] = IF g = h THEN "request" ELSE step[g]
        BY <1>b, <2>3 DEF Moves, Steps
      <3>2. waiters' \in Seq(Hovers \union {Quit})
        BY <1>b, <2>3, QueueTypes
      <3>3. /\ spawned' \in Nat /\ procs' \in [Plugins -> 0 .. spawned']
            /\ \A p \in Plugins : procs'[p] = IF p = Target[h] THEN spawned + 1 ELSE procs[p]
        BY <1>a, <1>b, <2>3
      <3>4. used' \in [Hovers -> 0 .. spawned'] /\ drained' \in SUBSET (1 .. spawned')
        BY <1>3, <1>b, <2>3 DEF Spawned, quitVars
      <3>5. Typed'
        BY <1>3, <1>b, <2>1, <3>1, <3>2, <3>3, <3>4 DEF Spawned, quitVars
      <3>6. GuardInv'
        BY <1>3, <2>1, <3>1 DEF PreviewInv, GuardInv
      <3>7. \A g \in Hovers : used[g] \in 0 .. spawned /\ used[g] # spawned + 1 /\ Target[g] \in Plugins
        BY <1>a, <1>b
      <3>8. ServedInv'
        BY <1>3, <2>2, <3>1, <3>3, <3>7 DEF Spawned, PreviewInv, ServedInv
      <3> QED
        BY <1>0, <3>5, <3>6, <3>8
    <2>4. CASE Moves(h, "failed") /\ UNCHANGED <<procs, spawned, waiters>>
      <3>1. /\ step' \in [Hovers -> Steps]
            /\ \A g \in Hovers : step'[g] = IF g = h THEN "failed" ELSE step[g]
        BY <1>b, <2>4 DEF Moves, Steps
      <3>2. Typed'
        BY <1>3, <1>b, <2>1, <2>4, <3>1 DEF Spawned, quitVars
      <3>3. GuardInv'
        BY <1>3, <2>1, <3>1 DEF PreviewInv, GuardInv
      <3>4. ServedInv'
        BY <1>3, <2>4, <3>1 DEF Spawned, PreviewInv, ServedInv
      <3> QED
        BY <1>0, <3>2, <3>3, <3>4
    <2> QED
      BY <1>3, <2>3, <2>4 DEF Spawned
  <1>4. ASSUME NEW h \in Hovers, SendRequest(h) PROVE PreviewInv'
    <2>1. waiters' \in Seq(Hovers \union {Quit}) /\ lock = {}
      BY <1>4, <1>b, QueueTypes DEF SendRequest, Acquires
    <2>2. CASE Cached(h)
      <3>1. /\ step' \in [Hovers -> Steps]
            /\ \A g \in Hovers : step'[g] = IF g = h THEN "awaiting" ELSE step[g]
            /\ lock' = {h}
        BY <1>4, <1>b, <2>1, <2>2 DEF SendRequest, Moves, Steps
      <3>2. /\ used' \in [Hovers -> 0 .. spawned]
            /\ \A g \in Hovers : used'[g] = IF g = h THEN procs[Target[h]] ELSE used[g]
        BY <1>4, <1>a, <1>b, <2>2 DEF SendRequest
      <3>3. Typed'
        BY <1>4, <1>b, <2>1, <3>1, <3>2 DEF SendRequest, quitVars
      <3>4. GuardInv'
        BY <2>1, <3>1 DEF PreviewInv, GuardInv
      <3>5. ServedInv'
        BY <1>4, <3>1, <3>2 DEF SendRequest, PreviewInv, ServedInv
      <3> QED
        BY <1>0, <3>3, <3>4, <3>5
    <2>3. CASE ~Cached(h)
      <3>1. /\ step' \in [Hovers -> Steps]
            /\ \A g \in Hovers : step'[g] = IF g = h THEN "failed" ELSE step[g]
        BY <1>4, <1>b, <2>3 DEF SendRequest, Moves, Steps
      <3>2. Typed'
        BY <1>4, <1>b, <2>1, <2>3, <3>1 DEF SendRequest, quitVars
      <3>3. GuardInv'
        BY <1>4, <2>1, <2>3, <3>1 DEF SendRequest, PreviewInv, GuardInv
      <3>4. ServedInv'
        BY <1>4, <2>3, <3>1 DEF SendRequest, PreviewInv, ServedInv
      <3> QED
        BY <1>0, <3>2, <3>3, <3>4
    <2> QED
      BY <2>2, <2>3
  <1>5. ASSUME NEW h \in Hovers, Returns(h) PROVE PreviewInv'
    <2>1. lock = {h} /\ lock' = {}
      BY <1>5 DEF Returns, PreviewInv, GuardInv
    <2>2. PICK s \in {"shown", "evict"} : Moves(h, s)
      BY <1>5 DEF Returns
    <2>3. /\ step' \in [Hovers -> Steps]
          /\ \A g \in Hovers : step'[g] = IF g = h THEN s ELSE step[g]
      BY <1>b, <2>2 DEF Moves, Steps
    <2>4. waiters' \in Seq(Hovers \union {Quit})
      BY <1>5, <1>b, QueueTypes DEF Returns
    <2>5. Typed'
      BY <1>5, <1>b, <2>1, <2>3, <2>4 DEF Returns, quitVars
    <2>6. GuardInv'
      BY <2>1, <2>2, <2>3 DEF PreviewInv, GuardInv
    <2>7. ServedInv'
      BY <1>5, <2>2, <2>3 DEF Returns, PreviewInv, ServedInv
    <2> QED
      BY <1>0, <2>5, <2>6, <2>7
  <1>6. ASSUME NEW h \in Hovers, Evict(h) PROVE PreviewInv'
    <2>1. waiters' \in Seq(Hovers \union {Quit}) /\ lock = {} /\ lock' = {}
      BY <1>6, <1>b, QueueTypes DEF Evict, Acquires
    <2>2. /\ step' \in [Hovers -> Steps]
          /\ \A g \in Hovers : step'[g] = IF g = h THEN "failed" ELSE step[g]
      BY <1>6, <1>b DEF Evict, Moves, Steps
    <2>3. /\ procs' \in [Plugins -> 0 .. spawned]
          /\ \A p \in Plugins : procs'[p] = IF p = Target[h] THEN 0 ELSE procs[p]
      BY <1>6, <1>a, <1>b DEF Evict
    <2>4. Typed'
      BY <1>6, <1>b, <2>1, <2>2, <2>3 DEF Evict, quitVars
    <2>5. GuardInv'
      BY <1>6, <2>1, <2>2 DEF Evict, PreviewInv, GuardInv
    <2>6. \A g \in Hovers : step[g] # "awaiting" /\ Target[g] \in Plugins
      BY <1>a, <2>1 DEF PreviewInv, GuardInv
    <2>7. ServedInv'
      BY <1>6, <2>2, <2>3, <2>6 DEF Evict, PreviewInv, ServedInv
    <2> QED
      BY <1>0, <2>4, <2>5, <2>7
  <1>7. CASE StartQuit
    <2>1. Typed'
      BY <1>7, <1>b, QueueTypes DEF StartQuit
    <2>2. GuardInv' /\ ServedInv'
      BY <1>7 DEF StartQuit, PreviewInv, GuardInv, ServedInv
    <2> QED
      BY <1>0, <2>1, <2>2
  <1>8. CASE Drain
    <2>1. waiters' \in Seq(Hovers \union {Quit}) /\ lock = {}
      BY <1>8, <1>b, QueueTypes DEF Drain, Acquires
    <2>2. drained' \in SUBSET (1 .. spawned)
      <3>1. \A p \in Plugins : procs[p] \in 1 .. spawned \/ procs[p] = 0
        BY <1>b
      <3> QED
        BY <1>8, <3>1 DEF Drain
    <2>3. procs' \in [Plugins -> 0 .. spawned] /\ \A p \in Plugins : procs'[p] = 0
      BY <1>8, <1>b DEF Drain
    <2>4. Typed'
      BY <1>8, <1>b, <2>1, <2>2, <2>3 DEF Drain
    <2>5. GuardInv'
      BY <1>8 DEF Drain, PreviewInv, GuardInv
    <2>6. \A g \in Hovers : step[g] # "awaiting" /\ Target[g] \in Plugins
      BY <1>a, <2>1 DEF PreviewInv, GuardInv
    <2>7. ServedInv'
      BY <1>8, <2>3, <2>6 DEF Drain, PreviewInv, ServedInv
    <2> QED
      BY <1>0, <2>4, <2>5, <2>7
  <1>9. CASE StopOne
    <2>1. Typed'
      BY <1>9, <1>b DEF StopOne
    <2>2. GuardInv' /\ ServedInv'
      BY <1>9 DEF StopOne, PreviewInv, GuardInv, ServedInv
    <2> QED
      BY <1>0, <2>1, <2>2
  <1>10. CASE UNCHANGED previewVars
    BY <1>10 DEF previewVars, quitVars, PreviewInv, PreviewTypeOK, GuardInv, ServedInv
  <1> QED
    BY <1>1, <1>2, <1>3, <1>4, <1>5, <1>6, <1>7, <1>8, <1>9, <1>10 DEF PreviewNext, Proceeds

LEMMA PreviewInvariance == PreviewSpec => []PreviewInv
  <1>1. PreviewInit => PreviewInv
    <2> SUFFICES ASSUME PreviewInit PROVE PreviewInv
      OBVIOUS
    <2>1. Cardinality(lock) <= 1
      BY GuardIsOne DEF PreviewInit
    <2>2. PreviewTypeOK
      BY <2>1 DEF PreviewInit, PreviewTypeOK, Steps
    <2> QED
      BY <2>2 DEF PreviewInit, PreviewInv, GuardInv, ServedInv
  <1> QED
    BY <1>1, PreviewStep, PTL DEF PreviewSpec

\* Types, for any number of hovers and plugins; at most one hover is under the
\* mutex of the cache.
THEOREM PreviewTypeCorrect == PreviewSpec => []PreviewTypeOK
  <1>1. PreviewInv => PreviewTypeOK
    BY DEF PreviewInv
  <1> QED
    BY <1>1, PreviewInvariance, PTL

\* A supervisor that failed a hover is out of the cache before the hover ends,
\* and never comes back: supervisors are numbered, and only new ones are put
\* in.
THEOREM FailedAreEvicted == PreviewSpec => []FailedIsEvicted
  <1>1. PreviewInv => FailedIsEvicted
    BY DEF PreviewInv, ServedInv, FailedIsEvicted
  <1> QED
    BY <1>1, PreviewInvariance, PTL

-----------------------------------------------------------------------------
(* The file operations. *)

\* A set of numbers has a least one.
LEMMA LeastExists ==
  ASSUME NEW S \in SUBSET Nat, S # {}
  PROVE  \E m \in S : \A n \in S : m <= n
  <1> DEFINE R == OpToRel(<, Nat)
  <1>1. IsWellFoundedOn(R, Nat)
    BY NatLessThanWellFounded
  <1>2. \A a, b \in Nat : <<a, b>> \in R <=> a < b
    BY DEF OpToRel
  <1> HIDE DEF R
  <1>3. PICK m \in S : \A n \in S : ~(<<n, m>> \in R)
    BY <1>1, WFMin
  <1>4. \A n \in S : n \in Nat /\ m \in Nat /\ ~(n < m)
    BY <1>2, <1>3
  <1> QED
    BY <1>3, <1>4

\* Before a request nothing is touched, and nothing runs.
FreshInv ==
    request.kind = "none" =>
        /\ \A p \in Paths : entry[p] = AtStart(p) /\ data[p] = [of |-> p, whole |-> TRUE]
        /\ \A s \in Sources : stage[s] = "none"
        /\ watcher = "none" /\ ~pending /\ events = <<>>

\* In a copy a path names what it named at the start, or the file that the
\* copy of one source has created there.
CreatedInv ==
    request.kind = "copy" =>
        /\ request.engine # "none"
        /\ \A p \in Paths :
              /\ entry[p] \in {AtStart(p), Absent} \union Sources
              /\ \A t \in Sources :
                    entry[p] = t => p = to[t] /\ stage[t] \in {"writing", "whole", "ended"}

SequentialCopy == request.kind = "copy" /\ request.engine = "sequential"

\* The sequential executor goes through the batch in its order.
OrderInv ==
    SequentialCopy => \A s \in Sources : \A t \in Before(s) :
        stage[s] \notin {"none", "todo"} => stage[t] = "ended"

\* It opens a path that is free, so the file it writes is a new one: what was
\* there is whole, and so is every new file but the one that is being written.
WholeInv ==
    SequentialCopy =>
        /\ \A p \in Paths : data[p].whole
        /\ \A s \in Sources :
              /\ stage[s] = "resolved" => entry[to[s]] = Absent
              /\ stage[s] = "writing" => fd[s] = s
              /\ stage[s] # "writing" /\ entry[to[s]] = s => data[s].whole

KeepingCopy == request.kind = "copy" /\ request.policy \in {"skip", "rename"} /\ ~pending

\* A copy that may not overwrite has chosen paths that no file had at the
\* start, and writes into files of its own making.
KeptInv ==
    KeepingCopy =>
        /\ \A p \in Paths : AtStart(p) # Absent => Kept(p)
        /\ \A s \in Sources :
              /\ stage[s] \in {"resolved", "writing"} => AtStart(to[s]) = Absent
              /\ stage[s] = "writing" => fd[s] \in Sources

\* file.move renames whole files and starts no executor.
MoveInv ==
    request.kind = "move" =>
        /\ \A p \in Paths : entry[p] \in Paths \union {Absent} /\ data[p].whole
        /\ \A s \in Sources : stage[s] = "none"
        /\ watcher \in {"none", "gone"} /\ events = <<>>

SweepInv == watcher = "sweep" => pending

FileInv == FreshInv /\ CreatedInv /\ OrderInv /\ WholeInv /\ KeptInv /\ MoveInv /\ SweepInv

\* The paths of a source, and what they named at the start.
LEMMA PathFacts ==
  ASSUME NEW s \in Sources
  PROVE  /\ Base(s) \in Paths /\ SourcePath(s) \in Paths
         /\ \A k \in 1 .. MaxSuffix : <<BaseName[s], k>> \in Paths /\ AtStart(<<BaseName[s], k>>) = Absent
         /\ \A p \in Paths : AtStart(p) \in {p, Absent}
  <1>1. 0 \in 0 .. MaxSuffix /\ \A k \in 1 .. MaxSuffix : k \in 0 .. MaxSuffix /\ k # 0
    BY BatchAssumption
  <1>2. \A k \in 0 .. MaxSuffix : <<BaseName[s], k>> \in Paths
    BY DEF Paths, DestPaths, Names
  <1>3. Base(s) \in Paths /\ SourcePath(s) \in Paths
    BY <1>1, <1>2 DEF Base, Paths
  <1>4. \A k \in 1 .. MaxSuffix : AtStart(<<BaseName[s], k>>) = Absent
    BY <1>1 DEF AtStart, SourcePath
  <1>5. \A p \in Paths : AtStart(p) \in {p, Absent}
    BY DEF AtStart
  <1> QED
    BY <1>1, <1>2, <1>3, <1>4, <1>5

\* Every other source has created one file at the most: there is a suffix left.
LEMMA SuffixIsLeft ==
  ASSUME entry \in [Paths -> Inodes \union {Absent}], request.kind = "copy", CreatedInv,
         NEW s \in Sources, stage[s] = "started"
  PROVE  FreeSuffixes(s) # {}
  <1> SUFFICES ASSUME FreeSuffixes(s) = {} PROVE FALSE
    OBVIOUS
  <1> DEFINE D == 1 .. MaxSuffix
             Others == Sources \ {s}
             f == [k \in D |-> entry[<<BaseName[s], k>>]]
  <1>1. ASSUME NEW k \in D
        PROVE  f[k] \in Others /\ <<BaseName[s], k>> = to[f[k]]
    <2>1. /\ <<BaseName[s], k>> \in Paths /\ AtStart(<<BaseName[s], k>>) = Absent
          /\ f[k] = entry[<<BaseName[s], k>>] /\ f[k] # Absent
      BY PathFacts DEF FreeSuffixes
    <2>2. f[k] \in Sources
      BY <2>1 DEF CreatedInv
    <2> QED
      BY <2>1, <2>2 DEF CreatedInv
  <1>2. f \in Injection(D, Others)
    <2>1. f \in [D -> Others]
      BY <1>1
    <2>2. \A k, l \in D : f[k] = f[l] => k = l
      BY <1>1
    <2> HIDE DEF f
    <2> QED
      BY <2>1, <2>2 DEF Injection, IsInjective
  <1>3. /\ IsFiniteSet(Others) /\ Cardinality(Others) = Len(Batch) - 1
        /\ MaxSuffix \in Nat /\ MaxSuffix >= Len(Batch) /\ Len(Batch) \in Nat
    BY BatchAssumption, FS_RemoveElement
  <1>4. Cardinality(D) = MaxSuffix
    BY <1>3, FS_Interval
  <1> HIDE DEF f, D, Others
  <1>5. Cardinality(D) <= Cardinality(Others)
    BY <1>2, <1>3, FS_Injection
  <1> QED
    BY <1>3, <1>4, <1>5

LEMMA RenameIsFree ==
  ASSUME entry \in [Paths -> Inodes \union {Absent}], request.kind = "copy", CreatedInv,
         NEW s \in Sources, stage[s] = "started"
  PROVE  /\ RenameWithSuffix(s) \in Paths /\ entry[RenameWithSuffix(s)] = Absent
         /\ AtStart(RenameWithSuffix(s)) = Absent
  <1> DEFINE S == FreeSuffixes(s)
             k == CHOOSE m \in S : \A l \in S : m <= l
  <1>1. S # {} /\ S \in SUBSET (1 .. MaxSuffix) /\ S \in SUBSET Nat
    BY SuffixIsLeft, BatchAssumption DEF FreeSuffixes
  <1>2. k \in S
    BY <1>1, LeastExists
  <1>3. RenameWithSuffix(s) = <<BaseName[s], k>>
    BY <1>1 DEF RenameWithSuffix
  <1>4. k \in 1 .. MaxSuffix /\ entry[<<BaseName[s], k>>] = Absent
    BY <1>1, <1>2 DEF FreeSuffixes
  <1> HIDE DEF k
  <1> QED
    BY <1>3, <1>4, PathFacts

\* A sequential copy has one source in hand at a time.
LEMMA OneInHand ==
  ASSUME OrderInv, SequentialCopy, NEW s \in Sources, NEW t \in Sources, s # t,
         stage[s] \notin {"none", "todo", "ended"}
  PROVE  stage[t] \in {"none", "todo", "ended"}
  <1>1. PICK i \in 1 .. Len(Batch), j \in 1 .. Len(Batch) : s = Batch[i] /\ t = Batch[j] /\ i # j
    BY DEF Sources
  <1>2. CASE i < j
    <2>1. s \in Before(t)
      BY <1>1, <1>2, BatchAssumption DEF Before
    <2> QED
      BY <2>1 DEF OrderInv
  <1>3. CASE j < i
    <2>1. t \in Before(s)
      BY <1>1, <1>3, BatchAssumption DEF Before
    <2> QED
      BY <2>1 DEF OrderInv
  <1> QED
    BY <1>1, <1>2, <1>3, BatchAssumption

EventsOK ==
    /\ events \in Seq({"Started", "Progress", "Completed", "Failed"}) /\ Len(events) <= Depth
    /\ Dropped => events = <<>>

LEMMA EmitKeeps ==
  ASSUME EventsOK, NEW e \in {"Started", "Progress", "Completed", "Failed"},
         Emit(e) \/ (~Dropped /\ Room /\ events' = Append(events, e)), UNCHANGED watcher
  PROVE  EventsOK'
  <1>0. Dropped' <=> Dropped
    BY DEF Dropped
  <1>1. CASE UNCHANGED events
    BY <1>0, <1>1 DEF EventsOK
  <1>2. CASE ~Dropped /\ Room /\ events' = Append(events, e)
    <2>1. Depth \in Nat
      BY BatchAssumption
    <2>2. /\ Append(events, e) \in Seq({"Started", "Progress", "Completed", "Failed"})
          /\ Len(Append(events, e)) = Len(events) + 1 /\ Len(events) \in Nat
      BY DEF EventsOK
    <2> QED
      BY <1>0, <1>2, <2>1, <2>2 DEF EventsOK, Room
  <1> QED
    BY <1>1, <1>2 DEF Emit

LEMMA OpsTypeStep ==
  ASSUME OpsTypeOK, FileInv, [OpsNext]_opsVars
  PROVE  OpsTypeOK'
  <1> DEFINE S == {"none", "todo", "started", "resolved", "writing", "whole", "ended"}
             FilesOK == /\ entry \in [Paths -> Inodes \union {Absent}]
                        /\ data \in [Inodes -> [of : Inodes, whole : BOOLEAN]]
             ExecOK == /\ stage \in [Sources -> S] /\ to \in [Sources -> Paths]
                       /\ fd \in [Sources -> Inodes \union {Absent}]
             RequestOK == request \in [kind : {"none"} \union Kinds,
                                       policy : {"none"} \union Policies,
                                       engine : {"none", "sequential"} \union Engines]
             WatchOK == /\ watcher \in {"none", "listening", "sweep", "gone"}
                        /\ swept \subseteq Sources /\ pending \in BOOLEAN
                        /\ shown \in {"none", "running", "completed", "failed", "cancelled"}
                        /\ moved \in [through : SUBSET Sources, failed : SUBSET Sources]
  <1>a. FilesOK /\ ExecOK /\ RequestOK /\ WatchOK /\ EventsOK
    BY DEF OpsTypeOK, EventsOK
  <1>b. ASSUME FilesOK', ExecOK', RequestOK', WatchOK', EventsOK' PROVE OpsTypeOK'
    BY <1>b DEF OpsTypeOK, EventsOK
  <1>c. /\ \A s \in Sources : Base(s) \in Paths /\ SourcePath(s) \in Paths
        /\ Paths \subseteq Inodes /\ Sources \subseteq Inodes
    BY PathFacts DEF Inodes
  <1>d. UNCHANGED <<events, watcher>> => EventsOK'
    BY <1>a DEF EventsOK, Dropped
  <1>1. ASSUME NEW p \in Policies, NEW e \in Engines, AcceptCopy(p, e) PROVE OpsTypeOK'
    <2>1. watcher = "none"
      BY <1>1 DEF AcceptCopy, FileInv, FreshInv
    <2>2. EventsOK'
      BY <1>a, <1>1, <2>1 DEF AcceptCopy, EventsOK, Dropped
    <2>3. RequestOK'
      BY <1>1 DEF AcceptCopy
    <2>4. ExecOK'
      BY <1>a, <1>1 DEF AcceptCopy
    <2> QED
      BY <1>a, <1>b, <1>1, <2>2, <2>3, <2>4 DEF AcceptCopy, fileVars
  <1>2. ASSUME NEW p \in Policies, AcceptMove(p) PROVE OpsTypeOK'
    <2>1. RequestOK'
      BY <1>2 DEF AcceptMove
    <2> QED
      BY <1>a, <1>b, <1>d, <1>2, <2>1 DEF AcceptMove, fileVars, execVars, watchVars
  <1>3. CASE OpCancel
    BY <1>a, <1>b, <1>d, <1>3 DEF OpCancel, fileVars, execVars
  <1>4. ASSUME NEW s \in Sources, Begin(s) PROVE OpsTypeOK'
    <2>1. EventsOK'
      BY <1>a, <1>4, EmitKeeps DEF Begin, watchVars
    <2>2. stage' \in [Sources -> S]
      BY <1>a, <1>4 DEF Begin
    <2> QED
      BY <1>a, <1>b, <1>4, <2>1, <2>2 DEF Begin, fileVars, watchVars
  <1>5. ASSUME NEW s \in Sources, Resolve(s) PROVE OpsTypeOK'
    <2>0. request.kind = "copy"
      BY <1>a, <1>5, BatchAssumption DEF Resolve, FileInv, FreshInv, MoveInv
    <2>1. RenameWithSuffix(s) \in Paths
      BY <1>a, <1>5, <2>0, RenameIsFree DEF Resolve, FileInv
    <2>2. to' \in [Sources -> Paths]
      BY <1>a, <1>c, <1>5, <2>1 DEF Resolve
    <2>3. entry' \in [Paths -> Inodes \union {Absent}]
      BY <1>a, <1>5 DEF Resolve
    <2>4. stage' \in [Sources -> S]
      BY <1>a, <1>5 DEF Resolve
    <2> QED
      BY <1>a, <1>b, <1>d, <1>5, <2>2, <2>3, <2>4 DEF Resolve, watchVars
  <1>6. ASSUME NEW s \in Sources, Skip(s) PROVE OpsTypeOK'
    <2>1. EventsOK'
      BY <1>a, <1>6, EmitKeeps DEF Skip, watchVars
    <2>2. stage' \in [Sources -> S]
      BY <1>a, <1>6 DEF Skip
    <2> QED
      BY <1>a, <1>b, <1>6, <2>1, <2>2 DEF Skip, fileVars, watchVars
  <1>7. ASSUME NEW s \in Sources, Open(s) PROVE OpsTypeOK'
    <2> DEFINE dst == IF entry[to[s]] = Absent THEN s ELSE entry[to[s]]
               src == entry[SourcePath(s)]
    <2>1. dst \in Inodes /\ src \in Inodes
      BY <1>a, <1>c, <1>7 DEF Open
    <2>2. data[src].of \in Inodes
      BY <1>a, <2>1
    <2>3. /\ entry' = [entry EXCEPT ![to[s]] = dst] /\ fd' = [fd EXCEPT ![s] = dst]
          /\ data' = [data EXCEPT ![dst] = [of |-> data[src].of, whole |-> FALSE]]
      BY <1>7 DEF Open
    <2> HIDE DEF dst, src
    <2>4. FilesOK' /\ fd' \in [Sources -> Inodes \union {Absent}]
      BY <1>a, <2>1, <2>2, <2>3
    <2>5. stage' \in [Sources -> S]
      BY <1>a, <1>7 DEF Open
    <2> QED
      BY <1>a, <1>b, <1>d, <1>7, <2>4, <2>5 DEF Open, watchVars
  <1>8. ASSUME NEW s \in Sources, BeatFindsDropped(s) PROVE OpsTypeOK'
    <2>1. entry' \in [Paths -> Inodes \union {Absent}]
      BY <1>a, <1>8 DEF BeatFindsDropped
    <2>2. stage' \in [Sources -> S]
      BY <1>a, <1>8 DEF BeatFindsDropped, Ended
    <2> QED
      BY <1>a, <1>b, <1>d, <1>8, <2>1, <2>2 DEF BeatFindsDropped, watchVars
  <1>9. ASSUME NEW s \in Sources, ReachEof(s) PROVE OpsTypeOK'
    <2>1. EventsOK'
      BY <1>a, <1>9, EmitKeeps DEF ReachEof, watchVars
    <2>2. stage' \in [Sources -> S]
      BY <1>a, <1>9 DEF ReachEof
    <2>3. data' \in [Inodes -> [of : Inodes, whole : BOOLEAN]]
      <3> DEFINE w == \A t \in Sources \ {s} : stage[t] \in {"writing", "whole"} => fd[t] # fd[s]
      <3>1. data' = [data EXCEPT ![fd[s]] = [of |-> data[fd[s]].of, whole |-> w]]
        BY <1>9 DEF ReachEof
      <3>2. w \in BOOLEAN
        BY DEF w
      <3> HIDE DEF w
      <3> QED
        BY <1>a, <3>1, <3>2
    <2> QED
      BY <1>a, <1>b, <1>9, <2>1, <2>2, <2>3 DEF ReachEof, watchVars
  <1>10. ASSUME NEW s \in Sources, Report(s) PROVE OpsTypeOK'
    <2>1. EventsOK'
      BY <1>a, <1>10, EmitKeeps DEF Report, watchVars
    <2>2. stage' \in [Sources -> S]
      BY <1>a, <1>10 DEF Report, Ended
    <2> QED
      BY <1>a, <1>b, <1>10, <2>1, <2>2 DEF Report, fileVars, watchVars
  <1>11. ASSUME NEW s \in Sources, Fails(s) PROVE OpsTypeOK'
    <2>1. EventsOK'
      BY <1>a, <1>11, EmitKeeps DEF Fails, watchVars
    <2>2. stage' \in [Sources -> S]
      BY <1>a, <1>11 DEF Fails, Ended
    <2>3. entry' \in [Paths -> Inodes \union {Absent}]
      BY <1>a, <1>11 DEF Fails
    <2> QED
      BY <1>a, <1>b, <1>11, <2>1, <2>2, <2>3 DEF Fails, watchVars
  <1>12. ASSUME NEW s \in Sources, Progress(s) PROVE OpsTypeOK'
    <2>1. EventsOK'
      BY <1>a, <1>12, EmitKeeps DEF Progress, watchVars
    <2> QED
      BY <1>a, <1>b, <1>12, <2>1 DEF Progress, fileVars, execVars, watchVars
  <1>13. CASE TakeEvent
    <2>1. Head(events) \in {"Started", "Progress", "Completed", "Failed"}
          /\ Tail(events) \in Seq({"Started", "Progress", "Completed", "Failed"})
          /\ Len(Tail(events)) <= Depth
      BY <1>a, <1>13, BatchAssumption DEF TakeEvent, EventsOK
    <2>2. shown' \in {"none", "running", "completed", "failed", "cancelled"}
      BY <1>a, <1>13, <2>1, Zenon DEF TakeEvent, Row
    <2>3. CASE Head(events) \in {"Started", "Progress"}
      <3>1. EventsOK'
        BY <1>13, <2>1, <2>3 DEF TakeEvent, EventsOK, Dropped
      <3> QED
        BY <1>a, <1>b, <1>13, <2>2, <2>3, <3>1 DEF TakeEvent, fileVars, execVars
    <2>4. CASE Head(events) \notin {"Started", "Progress"}
      <3>1. EventsOK'
        BY <1>13, <2>4, BatchAssumption DEF TakeEvent, EventsOK
      <3> QED
        BY <1>a, <1>b, <1>13, <2>2, <2>4, <3>1 DEF TakeEvent, fileVars, execVars
    <2> QED
      BY <2>3, <2>4
  <1>14. CASE StreamEnds
    <2>1. EventsOK'
      BY <1>a, <1>14 DEF StreamEnds, EventsOK
    <2> QED
      BY <1>a, <1>b, <1>14, <2>1 DEF StreamEnds, fileVars, execVars
  <1>15. CASE TakeCancel
    <2>1. EventsOK'
      BY <1>15, BatchAssumption DEF TakeCancel, EventsOK
    <2> QED
      BY <1>a, <1>b, <1>15, <2>1 DEF TakeCancel, fileVars, execVars
  <1>16. CASE Sweep
    <2>1. EventsOK'
      BY <1>a, <1>16 DEF Sweep, EventsOK, Dropped
    <2>2. entry' \in [Paths -> Inodes \union {Absent}] /\ swept' \subseteq Sources
      BY <1>a, <1>16 DEF Sweep
    <2> QED
      BY <1>a, <1>b, <1>16, <2>1, <2>2 DEF Sweep, execVars
  <1>17. ASSUME NEW s \in Sources, MoveOne(s) PROVE OpsTypeOK'
    <2>1. entry' \in [Paths -> Inodes \union {Absent}]
      BY <1>a, <1>c, <1>17 DEF MoveOne
    <2>2. moved' \in [through : SUBSET Sources, failed : SUBSET Sources]
      BY <1>a, <1>17 DEF MoveOne
    <2> QED
      BY <1>a, <1>b, <1>d, <1>17, <2>1, <2>2 DEF MoveOne, execVars, watchVars
  <1>18. CASE MoveDone
    <2>1. EventsOK'
      BY <1>a, <1>18 DEF MoveDone, EventsOK, FileInv, MoveInv
    <2> QED
      BY <1>a, <1>b, <1>18, <2>1 DEF MoveDone, fileVars, execVars
  <1>19. CASE UNCHANGED opsVars
    BY <1>a, <1>b, <1>d, <1>19 DEF opsVars, fileVars, execVars, watchVars
  <1> QED
    BY <1>1, <1>2, <1>3, <1>4, <1>5, <1>6, <1>7, <1>8, <1>9, <1>10, <1>11, <1>12, <1>13, <1>14,
       <1>15, <1>16, <1>17, <1>18, <1>19 DEF OpsNext, Executor, SourceMissing, Watcher, Mover

\* A source that goes on, in its turn, keeps the order.
LEMMA OrderGoesOn ==
  ASSUME OpsTypeOK, OrderInv, NEW s \in Sources, NEW x, stage[s] # "ended",
         SequentialCopy => \/ stage[s] \notin {"none", "todo"}
                           \/ \A t \in Before(s) : stage[t] = "ended",
         stage' = [stage EXCEPT ![s] = x], UNCHANGED request
  PROVE  OrderInv'
  <1> SUFFICES ASSUME SequentialCopy, NEW u \in Sources, NEW t \in Before(u),
                      stage'[u] \notin {"none", "todo"}
               PROVE  stage'[t] = "ended"
    BY DEF OrderInv, SequentialCopy
  <1>0. t \in Sources /\ stage \in [Sources -> {"none", "todo", "started", "resolved", "writing",
                                                "whole", "ended"}]
    BY DEF Before, Sources, OpsTypeOK
  <1>1. stage[t] = "ended"
    <2>1. CASE u = s
      BY <2>1 DEF OrderInv
    <2>2. CASE u # s
      BY <1>0, <2>2 DEF OrderInv
    <2> QED
      BY <2>1, <2>2
  <1> QED
    BY <1>0, <1>1

\* Steps that leave the files and the executor's choices alone.
LEMMA QuietKeeps ==
  ASSUME OpsTypeOK, FileInv, request.kind # "none", UNCHANGED <<request, entry, data, to, fd>>,
         \A t \in Sources : stage'[t] \in {"resolved", "writing"} => stage'[t] = stage[t],
         \A t \in Sources : stage[t] \in {"writing", "whole", "ended"} =>
                                stage'[t] \in {"writing", "whole", "ended"},
         SequentialCopy => \A t \in Sources : stage[t] = "writing" => stage'[t] = "writing",
         request.kind = "move" => /\ \A t \in Sources : stage'[t] = "none"
                                  /\ watcher' \in {"none", "gone"} /\ events' = <<>>,
         OrderInv', pending => pending', watcher' = "sweep" => pending'
  PROVE  FileInv'
  <1>1. FreshInv' /\ SweepInv'
    BY DEF FreshInv, SweepInv
  <1>2. CreatedInv'
    BY DEF FileInv, CreatedInv
  <1>3. WholeInv'
    BY DEF FileInv, WholeInv, SequentialCopy
  <1>4. KeptInv'
    BY DEF FileInv, KeptInv, KeepingCopy, Kept
  <1>5. MoveInv'
    BY DEF FileInv, MoveInv
  <1> QED
    BY <1>1, <1>2, <1>3, <1>4, <1>5 DEF FileInv

\* Where the executor is at work there is a copy.
LEMMA WorkIsCopy ==
  ASSUME OpsTypeOK, FileInv, NEW s \in Sources, stage[s] # "none"
  PROVE  request.kind = "copy"
  BY BatchAssumption DEF OpsTypeOK, FileInv, FreshInv, MoveInv

LEMMA BeginKeeps ==
  ASSUME OpsTypeOK, FileInv, NEW s \in Sources, Begin(s)
  PROVE  FileInv'
  <1>0. /\ request.kind = "copy" /\ stage[s] = "todo" /\ UNCHANGED <<request, entry, data, to, fd>>
        /\ UNCHANGED <<pending, watcher>> /\ OrderInv
        /\ (request.engine = "sequential" => \A t \in Before(s) : stage[t] = "ended")
        /\ stage \in [Sources -> {"none", "todo", "started", "resolved", "writing", "whole", "ended"}]
    BY WorkIsCopy DEF Begin, fileVars, watchVars, FileInv, OpsTypeOK
  <1>1. ASSUME NEW x \in {"started", "ended"}, stage' = [stage EXCEPT ![s] = x] PROVE FileInv'
    <2>1. OrderInv'
      BY <1>0, <1>1, OrderGoesOn DEF SequentialCopy
    <2>2. \A t \in Sources : stage'[t] = IF t = s THEN x ELSE stage[t]
      BY <1>0, <1>1
    <2> QED
      BY <1>0, <1>1, <2>1, <2>2, QuietKeeps DEF FileInv, SweepInv
  <1>2. ASSUME request.engine = "sequential", stage' = [t \in Sources |-> "ended"] PROVE FileInv'
    <2>1. SequentialCopy
      BY <1>0, <1>2 DEF SequentialCopy
    <2>2. \A t \in Sources : stage'[t] = "ended"
      BY <1>2
    <2>3. OrderInv'
      BY <2>2 DEF OrderInv, Before, Sources
    <2>4. ASSUME NEW t \in Sources PROVE stage[t] # "writing"
      <3>1. CASE t = s
        BY <1>0, <3>1
      <3>2. CASE t # s /\ stage[t] = "writing"
        <4>1. PICK i \in 1 .. Len(Batch), j \in 1 .. Len(Batch) :
                s = Batch[i] /\ t = Batch[j] /\ i # j
          BY <3>2 DEF Sources
        <4>2. s \in Before(t) \/ t \in Before(s)
          BY <4>1, BatchAssumption DEF Before
        <4> QED
          BY <1>0, <1>2, <2>1, <3>2, <4>2 DEF OrderInv
      <3> QED
        BY <3>1, <3>2
    <2> QED
      BY <1>0, <2>2, <2>3, <2>4, QuietKeeps DEF FileInv, SweepInv
  <1>3. \/ stage' = [stage EXCEPT ![s] = "started"] \/ stage' = [stage EXCEPT ![s] = "ended"]
        \/ (request.engine = "sequential" /\ stage' = [t \in Sources |-> "ended"])
    <2>1. request.engine \in {"sequential", "io_uring"}
      BY <1>0, BatchAssumption DEF OpsTypeOK, FileInv, CreatedInv
    <2> QED
      BY <2>1 DEF Begin
  <1> QED
    BY <1>1, <1>2, <1>3

LEMMA SkipKeeps ==
  ASSUME OpsTypeOK, FileInv, NEW s \in Sources, NEW x \in {"whole", "ended"},
         stage[s] \in {"started", "whole"}, stage' = [stage EXCEPT ![s] = x],
         UNCHANGED <<request, entry, data, to, fd, pending, watcher>>
  PROVE  FileInv'
  <1>0. /\ request.kind = "copy" /\ OrderInv
        /\ stage \in [Sources -> {"none", "todo", "started", "resolved", "writing", "whole", "ended"}]
    BY WorkIsCopy DEF FileInv, OpsTypeOK
  <1>1. OrderInv'
    BY <1>0, OrderGoesOn
  <1>2. \A t \in Sources : stage'[t] = IF t = s THEN x ELSE stage[t]
    BY <1>0
  <1> QED
    BY <1>0, <1>1, <1>2, QuietKeeps DEF FileInv, SweepInv

\* The executor unlinks what it was writing, or was about to.
LEMMA UnlinkKeeps ==
  ASSUME OpsTypeOK, FileInv, NEW s \in Sources, stage[s] \in {"resolved", "writing"},
         stage' = [stage EXCEPT ![s] = "ended"], entry' = [entry EXCEPT ![to[s]] = Absent],
         UNCHANGED <<request, data, to, fd, pending, watcher>>
  PROVE  FileInv'
  <1>0. /\ request.kind = "copy" /\ OrderInv
        /\ stage \in [Sources -> {"none", "todo", "started", "resolved", "writing", "whole", "ended"}]
        /\ to \in [Sources -> Paths] /\ entry \in [Paths -> Inodes \union {Absent}]
    BY WorkIsCopy DEF FileInv, OpsTypeOK
  <1>1. \A t \in Sources : stage'[t] = IF t = s THEN "ended" ELSE stage[t]
    BY <1>0
  <1>2. /\ \A p \in Paths : entry'[p] = IF p = to[s] THEN Absent ELSE entry[p]
        /\ \A t \in Sources : t # Absent
    BY <1>0, InodesAreApart DEF Inodes
  <1>3. OrderInv'
    BY <1>0, OrderGoesOn
  <1>4. CreatedInv'
    BY <1>0, <1>1, <1>2 DEF FileInv, CreatedInv
  <1>5. WholeInv'
    BY <1>0, <1>1, <1>2 DEF FileInv, WholeInv, SequentialCopy
  <1>6. KeptInv'
    BY <1>0, <1>1, <1>2 DEF FileInv, KeptInv, KeepingCopy, Kept
  <1>7. FreshInv' /\ MoveInv' /\ SweepInv'
    BY <1>0 DEF FileInv, FreshInv, MoveInv, SweepInv
  <1> QED
    BY <1>3, <1>4, <1>5, <1>6, <1>7 DEF FileInv

\* The io_uring task returns and leaves the file.
LEMMA LeaveKeeps ==
  ASSUME OpsTypeOK, FileInv, NEW s \in Sources, stage[s] = "writing", request.engine = "io_uring",
         stage' = [stage EXCEPT ![s] = "ended"],
         UNCHANGED <<request, entry, data, to, fd, pending, watcher>>
  PROVE  FileInv'
  <1>0. /\ request.kind = "copy" /\ OrderInv
        /\ stage \in [Sources -> {"none", "todo", "started", "resolved", "writing", "whole", "ended"}]
    BY WorkIsCopy DEF FileInv, OpsTypeOK
  <1>1. OrderInv'
    BY <1>0, OrderGoesOn
  <1>2. \A t \in Sources : stage'[t] = IF t = s THEN "ended" ELSE stage[t]
    BY <1>0
  <1> QED
    BY <1>0, <1>1, <1>2, QuietKeeps DEF FileInv, SweepInv, SequentialCopy

LEMMA ResolveKeeps ==
  ASSUME OpsTypeOK, FileInv, NEW s \in Sources, Resolve(s)
  PROVE  FileInv'
  <1>0. /\ request.kind = "copy" /\ OrderInv /\ CreatedInv /\ stage[s] = "started"
        /\ stage \in [Sources -> {"none", "todo", "started", "resolved", "writing", "whole", "ended"}]
        /\ to \in [Sources -> Paths] /\ entry \in [Paths -> Inodes \union {Absent}]
        /\ UNCHANGED <<request, data, fd, pending, watcher>>
        /\ \A t \in Sources : t # Absent
        /\ Base(s) \in Paths
        /\ stage' = [stage EXCEPT ![s] = "resolved"]
    BY WorkIsCopy, InodesAreApart, PathFacts DEF FileInv, OpsTypeOK, Resolve, watchVars, Inodes
  <1>1. \A t \in Sources : stage'[t] = IF t = s THEN "resolved" ELSE stage[t]
    BY <1>0
  <1>2. OrderInv'
    BY <1>0, OrderGoesOn
  <1>3. \E p0 \in Paths :
          /\ to' = [to EXCEPT ![s] = p0] /\ entry'[p0] = Absent
          /\ \A p \in Paths : p # p0 => entry'[p] = entry[p]
          /\ \A p \in Paths : entry'[p] \in {entry[p], Absent}
          /\ KeepingCopy => entry' = entry /\ AtStart(p0) = Absent
    <2>1. CASE entry[Base(s)] = Absent
      <3>1. KeepingCopy => AtStart(Base(s)) = Absent
        BY <1>0, <2>1 DEF FileInv, KeptInv, Kept
      <3> QED
        BY <1>0, <2>1, <3>1 DEF Resolve
    <2>2. CASE entry[Base(s)] # Absent /\ request.policy = "overwrite"
      BY <1>0, <2>2 DEF Resolve, KeepingCopy
    <2>3. CASE entry[Base(s)] # Absent /\ request.policy = "rename"
      <3>1. /\ RenameWithSuffix(s) \in Paths /\ entry[RenameWithSuffix(s)] = Absent
            /\ AtStart(RenameWithSuffix(s)) = Absent
        BY <1>0, RenameIsFree
      <3>2. to' = [to EXCEPT ![s] = RenameWithSuffix(s)] /\ entry' = entry
        BY <2>3 DEF Resolve
      <3> QED
        BY <1>0, <3>1, <3>2
    <2> QED
      BY <2>1, <2>2, <2>3 DEF Resolve
  <1>4. PICK p0 \in Paths :
          /\ to' = [to EXCEPT ![s] = p0] /\ entry'[p0] = Absent
          /\ \A p \in Paths : p # p0 => entry'[p] = entry[p]
          /\ \A p \in Paths : entry'[p] \in {entry[p], Absent}
          /\ KeepingCopy => entry' = entry /\ AtStart(p0) = Absent
    BY <1>3
  <1>5. \A t \in Sources : to'[t] = IF t = s THEN p0 ELSE to[t]
    BY <1>0, <1>4
  <1>6. CreatedInv'
    BY <1>0, <1>1, <1>4, <1>5 DEF CreatedInv
  <1>7. WholeInv'
    BY <1>0, <1>1, <1>4, <1>5 DEF FileInv, WholeInv, SequentialCopy
  <1>8. KeptInv'
    BY <1>0, <1>1, <1>4, <1>5 DEF FileInv, KeptInv, KeepingCopy, Kept
  <1>9. FreshInv' /\ MoveInv' /\ SweepInv'
    BY <1>0 DEF FileInv, FreshInv, MoveInv, SweepInv
  <1> QED
    BY <1>2, <1>6, <1>7, <1>8, <1>9 DEF FileInv

LEMMA OpenKeeps ==
  ASSUME OpsTypeOK, FileInv, NEW s \in Sources, Open(s)
  PROVE  FileInv'
  <1> DEFINE dst == IF entry[to[s]] = Absent THEN s ELSE entry[to[s]]
             new == [of |-> data[entry[SourcePath(s)]].of, whole |-> FALSE]
  <1>0. /\ request.kind = "copy" /\ OrderInv /\ CreatedInv /\ stage[s] = "resolved"
        /\ stage \in [Sources -> {"none", "todo", "started", "resolved", "writing", "whole", "ended"}]
        /\ to \in [Sources -> Paths] /\ entry \in [Paths -> Inodes \union {Absent}]
        /\ data \in [Inodes -> [of : Inodes, whole : BOOLEAN]]
        /\ fd \in [Sources -> Inodes \union {Absent}]
        /\ UNCHANGED <<request, to, pending, watcher>>
        /\ stage' = [stage EXCEPT ![s] = "writing"]
    BY WorkIsCopy DEF FileInv, OpsTypeOK, Open, watchVars
  <1>a. /\ \A t \in Sources : t # Absent /\ t \notin Paths /\ t \in Inodes
        /\ \A p \in Paths : p \in Inodes /\ p # Absent
    BY InodesAreApart DEF Inodes
  <1>b. \A p \in Paths : AtStart(p) \in {p, Absent}
    BY PathFacts
  <1>1. /\ entry' = [entry EXCEPT ![to[s]] = dst] /\ fd' = [fd EXCEPT ![s] = dst]
        /\ data' = [data EXCEPT ![dst] = new]
    BY DEF Open
  <1>2. dst \in Inodes /\ dst # Absent
    BY <1>0, <1>a, InodesAreApart
  <1>3. SequentialCopy => entry[to[s]] = Absent /\ dst = s
    BY <1>0 DEF FileInv, WholeInv
  <1>4. KeepingCopy => dst \in Sources /\ AtStart(to[s]) = Absent
    <2>1. KeepingCopy => AtStart(to[s]) = Absent
      BY <1>0 DEF FileInv, KeptInv
    <2>2. to[s] \in Paths
      BY <1>0
    <2> QED
      BY <1>0, <2>1, <2>2 DEF CreatedInv
  <1>5. entry[to[s]] # Absent => dst = entry[to[s]]
    OBVIOUS
  <1>6. entry[to[s]] = Absent => dst = s
    OBVIOUS
  <1> HIDE DEF dst, new
  <1>7. /\ \A t \in Sources : stage'[t] = IF t = s THEN "writing" ELSE stage[t]
        /\ \A t \in Sources : fd'[t] = IF t = s THEN dst ELSE fd[t]
    BY <1>0, <1>1
  <1>8. /\ \A p \in Paths : entry'[p] = IF p = to[s] THEN dst ELSE entry[p]
        /\ \A i \in Inodes : i # dst => data'[i] = data[i]
    BY <1>0, <1>1
  <1>9. OrderInv'
    BY <1>0, OrderGoesOn
  <1>10. CreatedInv'
    BY <1>0, <1>5, <1>6, <1>7, <1>8 DEF CreatedInv
  <1>11. WholeInv'
    <2> SUFFICES ASSUME SequentialCopy PROVE WholeInv'
      BY <1>0 DEF WholeInv, SequentialCopy
    <2>1. dst = s
      BY <1>3
    <2>2. \A p \in Paths : data'[p].whole
      BY <1>a, <1>8, <2>1 DEF FileInv, WholeInv
    <2>3. ASSUME NEW t \in Sources
          PROVE  /\ stage'[t] = "resolved" => entry'[to'[t]] = Absent
                 /\ stage'[t] = "writing" => fd'[t] = t
                 /\ stage'[t] # "writing" /\ entry'[to'[t]] = t => data'[t].whole
      <3>1. CASE t = s
        BY <1>7, <2>1, <3>1
      <3>2. CASE t # s
        <4>1. stage[t] \in {"none", "todo", "ended"}
          BY <1>0, <3>2, OneInHand
        <4>2. /\ stage'[t] = stage[t] /\ data'[t] = data[t] /\ to'[t] = to[t] /\ to[t] \in Paths
          BY <1>0, <1>a, <1>7, <1>8, <2>1, <3>2
        <4>3. entry'[to[t]] = t => entry[to[t]] = t
          BY <1>8, <2>1, <3>2, <4>2
        <4> QED
          BY <4>1, <4>2, <4>3 DEF FileInv, WholeInv
      <3> QED
        BY <3>1, <3>2
    <2> QED
      BY <2>2, <2>3 DEF WholeInv
  <1>12. KeptInv'
    <2> SUFFICES ASSUME KeepingCopy PROVE KeptInv'
      BY <1>0 DEF KeptInv, KeepingCopy
    <2>1. ASSUME NEW p \in Paths, AtStart(p) # Absent PROVE Kept(p)'
      <3>1. p # to[s] /\ entry[p] = p /\ p # dst /\ data[p] = [of |-> p, whole |-> TRUE]
        BY <1>4, <1>a, <1>b, <2>1 DEF FileInv, KeptInv, Kept
      <3>2. entry'[p] = p /\ data'[p] = data[p]
        BY <1>8, <1>a, <3>1
      <3> QED
        BY <1>b, <2>1, <3>1, <3>2 DEF Kept
    <2> QED
      BY <1>0, <1>4, <1>7, <2>1 DEF FileInv, KeptInv
  <1>13. FreshInv' /\ MoveInv' /\ SweepInv'
    BY <1>0 DEF FileInv, FreshInv, MoveInv, SweepInv
  <1> QED
    BY <1>9, <1>10, <1>11, <1>12, <1>13 DEF FileInv

LEMMA EofKeeps ==
  ASSUME OpsTypeOK, FileInv, NEW s \in Sources, ReachEof(s)
  PROVE  FileInv'
  <1> DEFINE w == \A t \in Sources \ {s} : stage[t] \in {"writing", "whole"} => fd[t] # fd[s]
             new == [of |-> data[fd[s]].of, whole |-> w]
  <1>0. /\ request.kind = "copy" /\ OrderInv /\ CreatedInv /\ stage[s] = "writing"
        /\ stage \in [Sources -> {"none", "todo", "started", "resolved", "writing", "whole", "ended"}]
        /\ to \in [Sources -> Paths] /\ entry \in [Paths -> Inodes \union {Absent}]
        /\ data \in [Inodes -> [of : Inodes, whole : BOOLEAN]]
        /\ UNCHANGED <<request, entry, to, fd, pending, watcher>>
        /\ stage' = [stage EXCEPT ![s] = "whole"]
        /\ data' = [data EXCEPT ![fd[s]] = new]
    BY WorkIsCopy DEF FileInv, OpsTypeOK, ReachEof, watchVars
  <1>a. /\ \A t \in Sources : t \notin Paths /\ t \in Inodes
        /\ \A p \in Paths : p \in Inodes
    BY InodesAreApart DEF Inodes
  <1>b. \A p \in Paths : AtStart(p) \in {p, Absent}
    BY PathFacts
  <1>1. SequentialCopy => fd[s] = s /\ w
    BY <1>0, OneInHand DEF FileInv, WholeInv
  <1>2. new.whole = w
    OBVIOUS
  <1>3. KeepingCopy => fd[s] \in Sources
    BY <1>0 DEF FileInv, KeptInv
  <1> HIDE DEF w, new
  <1>4. /\ \A t \in Sources : stage'[t] = IF t = s THEN "whole" ELSE stage[t]
        /\ \A i \in Inodes : data'[i] = IF i = fd[s] THEN new ELSE data[i]
    BY <1>0
  <1>5. OrderInv'
    BY <1>0, OrderGoesOn
  <1>6. CreatedInv'
    BY <1>0, <1>4 DEF CreatedInv
  <1>7. WholeInv'
    BY <1>0, <1>1, <1>2, <1>4, <1>a DEF FileInv, WholeInv, SequentialCopy
  <1>8. KeptInv'
    BY <1>0, <1>3, <1>4, <1>a, <1>b DEF FileInv, KeptInv, KeepingCopy, Kept
  <1>9. FreshInv' /\ MoveInv' /\ SweepInv'
    BY <1>0 DEF FileInv, FreshInv, MoveInv, SweepInv
  <1> QED
    BY <1>5, <1>6, <1>7, <1>8, <1>9 DEF FileInv

LEMMA SweepKeeps ==
  ASSUME OpsTypeOK, FileInv, Sweep
  PROVE  FileInv'
  <1>0. /\ UNCHANGED <<request, data, stage, to, fd, pending>> /\ pending
        /\ watcher = "sweep" /\ watcher' \in {"sweep", "gone"}
        /\ entry \in [Paths -> Inodes \union {Absent}] /\ to \in [Sources -> Paths]
    BY DEF Sweep, execVars, FileInv, SweepInv, OpsTypeOK
  <1>1. \A p \in Paths : entry'[p] \in {entry[p], Absent}
    BY <1>0 DEF Sweep
  <1>2. \A t \in Sources : t # Absent
    BY InodesAreApart DEF Inodes
  <1>3. CreatedInv'
    BY <1>0, <1>1, <1>2 DEF FileInv, CreatedInv
  <1>4. OrderInv' /\ SweepInv'
    BY <1>0 DEF FileInv, OrderInv, SequentialCopy, SweepInv
  <1>5. WholeInv'
    BY <1>0, <1>1, <1>2 DEF FileInv, WholeInv, SequentialCopy
  <1>6. KeptInv'
    BY <1>0 DEF KeptInv, KeepingCopy
  <1>7. FreshInv' /\ MoveInv'
    BY <1>0 DEF FileInv, FreshInv, MoveInv
  <1> QED
    BY <1>3, <1>4, <1>5, <1>6, <1>7 DEF FileInv

LEMMA FileStep ==
  ASSUME OpsTypeOK, FileInv, [OpsNext]_opsVars
  PROVE  FileInv'
  <1>0. stage \in [Sources -> {"none", "todo", "started", "resolved", "writing", "whole", "ended"}]
        /\ request.kind \in {"none", "copy", "move"}
        /\ entry \in [Paths -> Inodes \union {Absent}] /\ pending \in BOOLEAN
    BY BatchAssumption DEF OpsTypeOK
  <1>1. ASSUME NEW p \in Policies, NEW e \in Engines, AcceptCopy(p, e) PROVE FileInv'
    <2>1. /\ request.kind = "none" /\ request' = [kind |-> "copy", policy |-> p, engine |-> e]
          /\ UNCHANGED <<entry, data, to, fd, events, pending>> /\ watcher' = "listening"
      BY <1>1 DEF AcceptCopy, fileVars
    <2>2. PICK all \in {"todo", "ended"} : stage' = [s \in Sources |-> all]
      BY <1>1 DEF AcceptCopy
    <2>3. /\ \A s \in Sources : stage'[s] = all /\ s # Absent /\ s \notin Paths
          /\ \A q \in Paths : AtStart(q) \in {q, Absent} /\ q # Absent
          /\ e # "none"
      BY <2>2, InodesAreApart, PathFacts, BatchAssumption DEF Inodes, AtStart
    <2>4. /\ \A q \in Paths : entry'[q] = AtStart(q) /\ data'[q] = [of |-> q, whole |-> TRUE]
      BY <2>1 DEF FileInv, FreshInv
    <2>5. request'.kind = "copy" /\ request'.engine = e
      BY <2>1
    <2>6. CreatedInv'
      BY <2>3, <2>4, <2>5 DEF CreatedInv
    <2>7. OrderInv'
      BY <2>2, <2>3 DEF OrderInv, Before, Sources
    <2>8. WholeInv'
      <3>1. to' \in [Sources -> Paths]
        BY <2>1 DEF OpsTypeOK
      <3>2. \A s \in Sources : entry'[to'[s]] # s
        BY <2>3, <2>4, <3>1
      <3>3. \A s \in Sources : stage'[s] \notin {"resolved", "writing"}
        BY <2>2, <2>3
      <3>4. ASSUME NEW q \in Paths PROVE data'[q].whole
        <4>1. data'[q] = [of |-> q, whole |-> TRUE]
          BY <2>4
        <4> QED
          BY <4>1
      <3> QED
        BY <3>2, <3>3, <3>4 DEF WholeInv
    <2>9. KeptInv'
      <3>1. \A s \in Sources : stage'[s] \notin {"resolved", "writing"}
        BY <2>2, <2>3
      <3>2. \A q \in Paths : AtStart(q) # Absent => Kept(q)'
        BY <2>3, <2>4 DEF Kept
      <3> QED
        BY <3>1, <3>2 DEF KeptInv
    <2>10. FreshInv' /\ MoveInv' /\ SweepInv'
      BY <2>1, <2>5 DEF FreshInv, MoveInv, SweepInv
    <2> QED
      BY <2>6, <2>7, <2>8, <2>9, <2>10 DEF FileInv
  <1>2. ASSUME NEW p \in Policies, AcceptMove(p) PROVE FileInv'
    <2>1. /\ request.kind = "none" /\ request'.kind = "move"
          /\ UNCHANGED <<entry, data, stage, to, fd, events, pending, watcher>>
      BY <1>2 DEF AcceptMove, fileVars, execVars, watchVars
    <2>2. MoveInv'
      <3>1. \A q \in Paths : entry[q] \in Paths \union {Absent}
        BY <2>1 DEF FileInv, FreshInv, AtStart
      <3>2. \A q \in Paths : data[q] = [of |-> q, whole |-> TRUE]
        BY <2>1 DEF FileInv, FreshInv
      <3>3. ASSUME NEW q \in Paths PROVE data[q].whole
        <4>1. data[q] = [of |-> q, whole |-> TRUE]
          BY <3>2
        <4> QED
          BY <4>1
      <3> QED
        BY <2>1, <3>1, <3>3 DEF FileInv, FreshInv, MoveInv
    <2> QED
      BY <2>1, <2>2 DEF FileInv, FreshInv, CreatedInv, OrderInv, WholeInv, SequentialCopy, KeptInv,
                        KeepingCopy, SweepInv
  <1>3. CASE OpCancel
    <2>1. OrderInv'
      BY <1>3 DEF OpCancel, execVars, FileInv, OrderInv, SequentialCopy
    <2>2. /\ request.kind # "none" /\ UNCHANGED <<request, entry, data, to, fd, stage, watcher, events>>
          /\ ~pending
      BY <1>3 DEF OpCancel, execVars, fileVars
    <2>3. watcher # "sweep"
      BY <2>2 DEF FileInv, SweepInv
    <2> QED
      BY <2>1, <2>2, <2>3, QuietKeeps DEF FileInv, MoveInv
  <1>4. ASSUME NEW s \in Sources, Begin(s) PROVE FileInv'
    BY <1>4, BeginKeeps
  <1>5. ASSUME NEW s \in Sources, Resolve(s) PROVE FileInv'
    BY <1>5, ResolveKeeps
  <1>6. ASSUME NEW s \in Sources, Skip(s) PROVE FileInv'
    BY <1>6, SkipKeeps DEF Skip, fileVars, watchVars
  <1>7. ASSUME NEW s \in Sources, Open(s) PROVE FileInv'
    BY <1>7, OpenKeeps
  <1>8. ASSUME NEW s \in Sources, BeatFindsDropped(s) PROVE FileInv'
    <2>1. /\ stage[s] = "writing" /\ stage' = [stage EXCEPT ![s] = "ended"]
          /\ UNCHANGED <<request, data, to, fd, pending, watcher>>
      BY <1>8 DEF BeatFindsDropped, Ended, watchVars
    <2>2. CASE request.engine = "io_uring"
      BY <1>8, <2>1, <2>2, LeaveKeeps DEF BeatFindsDropped
    <2>3. CASE request.engine # "io_uring"
      BY <1>8, <2>1, <2>3, UnlinkKeeps DEF BeatFindsDropped
    <2> QED
      BY <2>2, <2>3
  <1>9. ASSUME NEW s \in Sources, ReachEof(s) PROVE FileInv'
    BY <1>9, EofKeeps
  <1>10. ASSUME NEW s \in Sources, Report(s) PROVE FileInv'
    BY <1>10, SkipKeeps DEF Report, Ended, fileVars, watchVars
  <1>11. ASSUME NEW s \in Sources, Fails(s) PROVE FileInv'
    BY <1>11, UnlinkKeeps DEF Fails, Ended, watchVars
  <1>12. ASSUME NEW s \in Sources, Progress(s) PROVE FileInv'
    <2>1. OrderInv'
      BY <1>12 DEF Progress, execVars, FileInv, OrderInv, SequentialCopy
    <2>2. /\ request.kind = "copy" /\ UNCHANGED <<request, entry, data, to, fd, stage, watcher, pending>>
      BY <1>12, WorkIsCopy DEF Progress, execVars, fileVars, watchVars
    <2> QED
      BY <2>1, <2>2, QuietKeeps DEF FileInv, SweepInv
  <1>13. CASE TakeEvent \/ StreamEnds \/ TakeCancel
    <2>1. OrderInv'
      BY <1>13 DEF TakeEvent, StreamEnds, TakeCancel, execVars, FileInv, OrderInv, SequentialCopy
    <2>2. /\ UNCHANGED <<request, entry, data, to, fd, stage, pending>> /\ watcher = "listening"
      BY <1>13 DEF TakeEvent, StreamEnds, TakeCancel, execVars, fileVars
    <2>3. watcher' = "sweep" => pending'
      BY <1>13, <2>2 DEF TakeEvent, StreamEnds, TakeCancel
    <2>4. request.kind = "copy"
      BY <1>0, <2>2 DEF FileInv, FreshInv, MoveInv
    <2> QED
      BY <2>1, <2>2, <2>3, <2>4, QuietKeeps
  <1>14. CASE Sweep
    BY <1>14, SweepKeeps
  <1>15. ASSUME NEW s \in Sources, MoveOne(s) PROVE FileInv'
    <2>1. /\ request.kind = "move" /\ UNCHANGED <<request, data, stage, watcher, events, pending>>
      BY <1>15 DEF MoveOne, execVars, watchVars
    <2>2. SourcePath(s) \in Paths /\ Base(s) \in Paths
      BY PathFacts
    <2>3. \A p \in Paths : entry'[p] \in Paths \union {Absent}
      BY <1>0, <1>15, <2>1, <2>2 DEF MoveOne, FileInv, MoveInv
    <2>4. MoveInv'
      BY <2>1, <2>3 DEF FileInv, MoveInv
    <2> QED
      BY <2>1, <2>4 DEF FileInv, FreshInv, CreatedInv, OrderInv, WholeInv, SequentialCopy, KeptInv,
                        KeepingCopy, SweepInv
  <1>16. CASE MoveDone
    <2>1. OrderInv'
      BY <1>16 DEF MoveDone, execVars, FileInv, OrderInv, SequentialCopy
    <2>2. /\ request.kind = "move" /\ UNCHANGED <<request, entry, data, to, fd, stage, pending, events>>
          /\ watcher' = "gone"
      BY <1>16 DEF MoveDone, execVars, fileVars
    <2> QED
      BY <2>1, <2>2, QuietKeeps DEF FileInv, MoveInv
  <1>17. CASE UNCHANGED opsVars
    BY <1>17 DEF opsVars, fileVars, execVars, watchVars, FileInv, FreshInv, CreatedInv, OrderInv, WholeInv,
                 SequentialCopy, KeptInv, KeepingCopy, Kept, MoveInv, SweepInv
  <1> QED
    BY <1>1, <1>2, <1>3, <1>4, <1>5, <1>6, <1>7, <1>8, <1>9, <1>10, <1>11, <1>12, <1>13, <1>14,
       <1>15, <1>16, <1>17 DEF OpsNext, Executor, SourceMissing, Watcher, Mover

LEMMA OpsInvariance == OpsSpec => [](OpsTypeOK /\ FileInv)
  <1>1. ASSUME OpsInit PROVE OpsTypeOK /\ FileInv
    <2>1. /\ \A s \in Sources : SourcePath(s) \in Paths
          /\ \A p \in Paths : AtStart(p) \in Inodes \union {Absent}
      BY PathFacts DEF Inodes, AtStart
    <2>2. /\ entry \in [Paths -> Inodes \union {Absent}]
          /\ data \in [Inodes -> [of : Inodes, whole : BOOLEAN]]
      BY <1>1, <2>1 DEF OpsInit
    <2>3. EventsOK
      BY <1>1, BatchAssumption DEF OpsInit, EventsOK
    <2>4. to \in [Sources -> Paths] /\ fd \in [Sources -> Inodes \union {Absent}]
      BY <1>1, <2>1 DEF OpsInit
    <2>5. OpsTypeOK
      BY <1>1, <2>2, <2>3, <2>4 DEF OpsInit, OpsTypeOK, EventsOK
    <2>6. FreshInv
      BY <1>1 DEF OpsInit, FreshInv, Inodes
    <2> QED
      BY <1>1, <2>5, <2>6 DEF OpsInit, FileInv, CreatedInv, OrderInv, WholeInv, SequentialCopy, KeptInv,
                              KeepingCopy, MoveInv, SweepInv
  <1>2. (OpsTypeOK /\ FileInv) /\ [OpsNext]_opsVars => (OpsTypeOK /\ FileInv)'
    BY OpsTypeStep, FileStep
  <1> QED
    BY <1>1, <1>2, PTL DEF OpsSpec

\* Types, for any batch and any depth of the channel, which it never outgrows.
THEOREM OpsTypeCorrect == OpsSpec => []OpsTypeOK
  BY OpsInvariance, PTL

\* The sequential executor leaves no partial file, whatever fails and whenever
\* the cancel comes.
THEOREM SequentialRollsBack == OpsSpec => []NoPartialLeft
  <1>1. OpsTypeOK /\ FileInv => NoPartialLeft
    <2> SUFFICES ASSUME OpsTypeOK, FileInv, Over, request.engine = "sequential",
                        NEW p \in Paths, entry[p] # Absent
                 PROVE  data[entry[p]].whole
      BY DEF NoPartialLeft
    <2>1. request.kind \in {"none", "copy", "move"} /\ AtStart(p) \in {p, Absent}
      BY BatchAssumption DEF OpsTypeOK, AtStart
    <2>2. CASE request.kind = "copy"
      BY <2>1, <2>2 DEF FileInv, CreatedInv, WholeInv, SequentialCopy, Over
    <2>3. CASE request.kind = "move"
      BY <2>3 DEF FileInv, MoveInv
    <2>4. CASE request.kind = "none"
      <3>1. entry[p] = p /\ data[p] = [of |-> p, whole |-> TRUE]
        BY <2>1, <2>4 DEF FileInv, FreshInv
      <3> QED
        BY <3>1
    <2> QED
      BY <2>1, <2>2, <2>3, <2>4
  <1> QED
    BY <1>1, OpsInvariance, PTL

\* A copy that skips or renames changes no file that was there: a free suffix
\* is always left, and a path that was free when it was chosen names a file of
\* the copy's own making when it is opened.
THEOREM CopiesKeep == OpsSpec => []CopyKeepsWhatWasThere
  <1>1. FileInv => CopyKeepsWhatWasThere
    BY DEF FileInv, KeptInv, KeepingCopy, CopyKeepsWhatWasThere
  <1> QED
    BY <1>1, OpsInvariance, PTL

-----------------------------------------------------------------------------
(* The authentication agent. *)

\* Where a prompt of c's helper can be: in the helper's output, in an event for
\* the dialog, in the dialog, and in a response to the task.
Printed(c) == stdout[c] # <<>> /\ Head(stdout[c])[1] = "Prompt"
PamAt(c, i) ==
    dialogEvents[i][1] = "Pam" /\ dialogEvents[i][2] = c /\ dialogEvents[i][3] # NoPrompt
Told(c) == \E i \in 1 .. Len(dialogEvents) : PamAt(c, i)
InDialog(c) == dialog.cookie = c /\ dialog.prompt # NoPrompt
SentAt(c, i) == controls[c][i] # Cancelled
Sent(c) == \E i \in 1 .. Len(controls[c]) : SentAt(c, i)

\* The last prompt has no answer yet.
Waits(c) == asked[c] = Len(answered[c]) + 1

\* Wherever a prompt is, it is the last one of its helper, and has no answer.
NumberAt(c) ==
    /\ asked[c] = Len(answered[c]) \/ Waits(c)
    /\ Printed(c) => Waits(c) /\ Head(stdout[c])[2] = asked[c]
    /\ \A i \in 1 .. Len(dialogEvents) :
          PamAt(c, i) => Waits(c) /\ dialogEvents[i][3] = asked[c]
    /\ InDialog(c) => Waits(c) /\ dialog.prompt = asked[c]
    /\ \A i \in 1 .. Len(controls[c]) :
          SentAt(c, i) => Waits(c) /\ controls[c][i] = <<"Response", <<c, asked[c]>>>>

\* And it is in one place: the helper says nothing more until it is answered,
\* and a submission takes the prompt out of the dialog.
OnceAt(c) ==
    /\ Printed(c) => ~Told(c) /\ ~InDialog(c) /\ ~Sent(c)
    /\ Told(c) => ~InDialog(c) /\ ~Sent(c)
    /\ InDialog(c) => ~Sent(c)
    /\ \A i, j \in 1 .. Len(controls[c]) : SentAt(c, i) /\ SentAt(c, j) => i = j
    /\ Len(stdout[c]) <= 1

\* The dialog has a cookie before it has anything else.
DialogInv == dialog.cookie = NoCookie => ~dialog.window /\ dialog.prompt = NoPrompt

PromptInv == \A c \in Cookies : NumberAt(c) /\ OnceAt(c)

PolkitInv == PolkitTypeOK /\ PromptInv /\ DialogInv /\ AnswerReachesItsPrompt

\* A step after which c's prompt is where it was or nowhere.
Fades(c) ==
    /\ asked'[c] = asked[c] /\ answered'[c] = answered[c]
    /\ Printed(c)' => Printed(c) /\ Head(stdout'[c]) = Head(stdout[c])
    /\ Len(stdout'[c]) <= 1
    /\ \A i \in 1 .. Len(dialogEvents') :
          PamAt(c, i)' => i \in 1 .. Len(dialogEvents) /\ dialogEvents'[i] = dialogEvents[i]
    /\ InDialog(c)' => InDialog(c) /\ dialog'.prompt = dialog.prompt
    /\ \/ controls'[c] = controls[c] \/ controls'[c] = <<>>
       \/ controls'[c] = Append(controls[c], Cancelled)
       \/ controls[c] # <<>> /\ controls'[c] = Tail(controls[c])

LEMMA FadesKeeps ==
  ASSUME PolkitTypeOK, NEW c \in Cookies, NumberAt(c), OnceAt(c), Fades(c)
  PROVE  NumberAt(c)' /\ OnceAt(c)'
  <1>a. /\ controls[c] \in Seq(Responses \union {Cancelled})
        /\ Len(controls[c]) \in Nat /\ Len(dialogEvents) \in Nat
    <2>1. /\ controls \in [Cookies -> Seq(Responses \union {Cancelled})]
          /\ dialogEvents \in Seq(DialogEvent)
      BY Zenon DEF PolkitTypeOK
    <2> QED
      BY <2>1
  <1>b. Waits(c)' <=> Waits(c)
    BY DEF Fades, Waits
  <1>1. PICK k \in 0 .. 1 : \A i \in 1 .. Len(controls'[c]) :
           SentAt(c, i)' => /\ i + k \in 1 .. Len(controls[c]) /\ SentAt(c, i + k)
                            /\ controls'[c][i] = controls[c][i + k]
    <2>1. CASE controls'[c] = controls[c]
      BY <1>a, <2>1 DEF SentAt
    <2>2. CASE controls'[c] = <<>>
      BY <1>a, <2>2 DEF SentAt
    <2>3. CASE controls'[c] = Append(controls[c], Cancelled)
      <3>1. Len(controls'[c]) = Len(controls[c]) + 1
        BY <1>a, <2>3
      <3>2. ASSUME NEW i \in 1 .. Len(controls'[c]), SentAt(c, i)'
            PROVE  i \in 1 .. Len(controls[c]) /\ controls'[c][i] = controls[c][i]
        BY <1>a, <2>3, <3>1, <3>2 DEF SentAt
      <3> QED
        BY <3>2, <1>a DEF SentAt
    <2>4. CASE controls[c] # <<>> /\ controls'[c] = Tail(controls[c])
      <3>1. Len(controls'[c]) = Len(controls[c]) - 1
        BY <1>a, <2>4
      <3>2. ASSUME NEW i \in 1 .. Len(controls'[c])
            PROVE  i + 1 \in 1 .. Len(controls[c]) /\ controls'[c][i] = controls[c][i + 1]
        BY <1>a, <2>4, <3>1
      <3> QED
        BY <3>2, <1>a DEF SentAt
    <2> QED
      BY <2>1, <2>2, <2>3, <2>4 DEF Fades
  <1>2. /\ Told(c)' => Told(c)
        /\ Sent(c)' => Sent(c)
        /\ Printed(c)' => Printed(c)
        /\ InDialog(c)' => InDialog(c)
    <2>1. Told(c)' => Told(c)
      BY <1>a DEF Fades, Told, PamAt
    <2>2. Sent(c)' => Sent(c)
      BY <1>1 DEF Sent
    <2> QED
      BY <2>1, <2>2 DEF Fades
  <1>3. NumberAt(c)'
    <2>1. ASSUME NEW i \in 1 .. Len(dialogEvents'), PamAt(c, i)'
          PROVE  Waits(c)' /\ dialogEvents'[i][3] = asked'[c]
      <3>1. i \in 1 .. Len(dialogEvents) /\ PamAt(c, i)
        BY <2>1 DEF Fades, PamAt
      <3> QED
        BY <1>b, <2>1, <3>1 DEF NumberAt, Fades
    <2>2. ASSUME NEW i \in 1 .. Len(controls'[c]), SentAt(c, i)'
          PROVE  Waits(c)' /\ controls'[c][i] = <<"Response", <<c, asked'[c]>>>>
      BY <1>b, <1>1, <2>2 DEF NumberAt, Fades
    <2>3. Printed(c)' => Waits(c)' /\ Head(stdout'[c])[2] = asked'[c]
      BY <1>b DEF NumberAt, Fades
    <2>4. InDialog(c)' => Waits(c)' /\ dialog'.prompt = asked'[c]
      BY <1>b DEF NumberAt, Fades
    <2>5. asked'[c] = Len(answered'[c]) \/ Waits(c)'
      BY <1>b DEF NumberAt, Fades
    <2> QED
      BY <2>1, <2>2, <2>3, <2>4, <2>5 DEF NumberAt
  <1>4. OnceAt(c)'
    <2>1. ASSUME NEW i \in 1 .. Len(controls'[c]), NEW j \in 1 .. Len(controls'[c]),
                 SentAt(c, i)', SentAt(c, j)'
          PROVE  i = j
      <3>1. /\ i + k \in 1 .. Len(controls[c]) /\ SentAt(c, i + k)
            /\ j + k \in 1 .. Len(controls[c]) /\ SentAt(c, j + k)
        BY <1>1, <2>1
      <3>2. i + k = j + k
        BY <3>1 DEF OnceAt
      <3> QED
        BY <3>2
    <2> QED
      BY <1>2, <2>1 DEF OnceAt, Fades
  <1> QED
    BY <1>3, <1>4

-----------------------------------------------------------------------------
(* What a tick shows. *)

Dialogs == [cookie: Cookies \union {NoCookie}, prompt: 0 .. MaxPrompts,
            control: BOOLEAN, window: BOOLEAN]

\* A run of the events is the function of the dialogs between them.
Upto(n, run) ==
    run = [i \in 0 .. n |-> IF i = 0 THEN dialog ELSE Show(run[i - 1], dialogEvents[i])]

LEMMA RunExists == ASSUME NEW N \in Nat PROVE \E run : Upto(N, run)
  <1> DEFINE T == {n \in Nat : ~\E run : Upto(n, run)}
  <1> SUFFICES ASSUME T # {} PROVE FALSE
    OBVIOUS
  <1>1. PICK m \in T : \A n \in T : m <= n
    <2> HIDE DEF T
    <2>1. T \in SUBSET Nat
      BY DEF T
    <2> QED
      BY <2>1, LeastExists
  <1>2. CASE m = 0
    <2>1. Upto(0, [i \in 0 .. 0 |-> dialog])
      BY DEF Upto
    <2> QED
      BY <1>1, <1>2, <2>1
  <1>3. CASE m # 0
    <2>1. m - 1 \in Nat /\ m - 1 \notin T
      BY <1>1, <1>3
    <2>2. PICK g : Upto(m - 1, g)
      BY <2>1
    <2> DEFINE h == [i \in 0 .. m |-> IF i = m THEN Show(g[m - 1], dialogEvents[m]) ELSE g[i]]
    <2>3. ASSUME NEW i \in 0 .. m
          PROVE  h[i] = IF i = 0 THEN dialog ELSE Show(h[i - 1], dialogEvents[i])
      <3>1. CASE i = 0
        BY <1>1, <1>3, <2>1, <2>2, <3>1 DEF Upto
      <3>2. CASE i = m
        BY <1>1, <1>3, <2>1, <2>2, <3>2 DEF Upto
      <3>3. CASE i # 0 /\ i # m
        <4>1. i \in 0 .. m - 1 /\ i - 1 \in 0 .. m - 1 /\ i - 1 \in 0 .. m /\ i - 1 # m
          BY <1>1, <3>3
        <4>2. g[i] = Show(g[i - 1], dialogEvents[i])
          BY <2>2, <3>3, <4>1 DEF Upto
        <4> QED
          BY <3>3, <4>1, <4>2
      <3> QED
        BY <3>1, <3>2, <3>3
    <2>4. h = [i \in 0 .. m |-> IF i = 0 THEN dialog ELSE Show(h[i - 1], dialogEvents[i])]
      BY <2>3, Zenon
    <2> HIDE DEF h
    <2> QED
      BY <1>1, <2>4 DEF Upto
  <1> QED
    BY <1>2, <1>3

LEMMA ShownIsARun == ASSUME Len(dialogEvents) \in Nat PROVE Upto(Len(dialogEvents), Shown)
  <1>1. \E run : Upto(Len(dialogEvents), run)
    BY RunExists
  <1>2. Shown = CHOOSE run : Upto(Len(dialogEvents), run)
    BY DEF Shown, Upto
  <1> QED
    BY <1>1, <1>2

\* What one event does to a dialog: a prompt it shows was shown before, for the
\* same request, or is the event's.
LEMMA ShowOne ==
  ASSUME NEW d \in Dialogs, NEW e \in DialogEvent,
         d.cookie = NoCookie => ~d.window /\ d.prompt = NoPrompt
  PROVE  /\ Show(d, e) \in Dialogs
         /\ Show(d, e).cookie = NoCookie => ~Show(d, e).window /\ Show(d, e).prompt = NoPrompt
         /\ Show(d, e).prompt # NoPrompt =>
              \/ Show(d, e).cookie = d.cookie /\ Show(d, e).prompt = d.prompt
              \/ e[1] = "Pam" /\ e[2] = Show(d, e).cookie /\ e[3] = Show(d, e).prompt
  <1>a. /\ e[1] \in {"Started", "Pam", "Done", "Failed"} /\ e[2] \in Cookies
        /\ e[3] \in 0 .. MaxPrompts
    BY DEF DialogEvent
  <1>b. e[2] # NoCookie /\ MaxPrompts \in Nat /\ 0 \in 0 .. MaxPrompts
    BY <1>a, NoCookieIsNew
  <1>1. CASE e[1] = "Started"
    <2>1. Show(d, e) = [cookie |-> e[2], prompt |-> NoPrompt, control |-> TRUE, window |-> TRUE]
      BY <1>1 DEF Show
    <2> QED
      BY <1>a, <1>b, <2>1 DEF Dialogs, NoPrompt
  <1>2. CASE e[1] = "Pam" /\ e[2] = d.cookie /\ e[3] # NoPrompt
    <2>1. Show(d, e) = [d EXCEPT !.prompt = e[3]]
      BY <1>2 DEF Show
    <2> QED
      BY <1>a, <1>b, <1>2, <2>1 DEF Dialogs, NoPrompt
  <1>3. CASE e[1] = "Done" /\ e[2] = d.cookie
    <2>1. Show(d, e) = [d EXCEPT !.prompt = NoPrompt, !.control = FALSE, !.window = FALSE]
      BY <1>3 DEF Show
    <2> QED
      BY <1>a, <1>b, <1>3, <2>1 DEF Dialogs, NoPrompt
  <1>4. CASE e[1] = "Failed" /\ e[2] = d.cookie
    <2>1. Show(d, e) = [d EXCEPT !.prompt = NoPrompt, !.control = FALSE]
      BY <1>4 DEF Show
    <2> QED
      BY <1>a, <1>b, <1>4, <2>1 DEF Dialogs, NoPrompt
  <1>5. CASE /\ e[1] # "Started"
             /\ ~(e[1] = "Pam" /\ e[2] = d.cookie /\ e[3] # NoPrompt)
             /\ ~(e[1] = "Done" /\ e[2] = d.cookie)
             /\ ~(e[1] = "Failed" /\ e[2] = d.cookie)
    <2>1. Show(d, e) = d
      BY <1>5 DEF Show
    <2> QED
      BY <2>1
  <1> QED
    BY <1>1, <1>2, <1>3, <1>4, <1>5

\* After any number of the events, the prompt the dialog shows is the one it
\* showed before the tick, or one an event announced for the dialog's request.
FromEvents(n) ==
    /\ Shown[n] \in Dialogs
    /\ Shown[n].cookie = NoCookie => ~Shown[n].window /\ Shown[n].prompt = NoPrompt
    /\ Shown[n].prompt # NoPrompt =>
        \/ Shown[n].cookie = dialog.cookie /\ Shown[n].prompt = dialog.prompt
        \/ \E i \in 1 .. Len(dialogEvents) :
              /\ dialogEvents[i][1] = "Pam" /\ dialogEvents[i][2] = Shown[n].cookie
              /\ dialogEvents[i][3] = Shown[n].prompt

LEMMA ShownFromEvents ==
  ASSUME PolkitTypeOK, DialogInv
  PROVE  FromEvents(Len(dialogEvents))
  <1>a. Len(dialogEvents) \in Nat /\ dialog \in Dialogs
    <2>1. dialogEvents \in Seq(DialogEvent) /\ dialog \in Dialogs
      BY Zenon DEF PolkitTypeOK, Dialogs
    <2> QED
      BY <2>1
  <1>b. ASSUME NEW i \in 1 .. Len(dialogEvents) PROVE dialogEvents[i] \in DialogEvent
    <2>1. dialogEvents \in Seq(DialogEvent)
      BY Zenon DEF PolkitTypeOK
    <2> QED
      BY <2>1
  <1>c. ASSUME NEW i \in 0 .. Len(dialogEvents)
        PROVE  Shown[i] = IF i = 0 THEN dialog ELSE Show(Shown[i - 1], dialogEvents[i])
    <2>1. Upto(Len(dialogEvents), Shown)
      BY <1>a, ShownIsARun
    <2> QED
      BY <2>1 DEF Upto
  <1> DEFINE T == {n \in 0 .. Len(dialogEvents) : ~FromEvents(n)}
  <1> SUFFICES ASSUME T # {} PROVE FALSE
    BY <1>a
  <1>1. PICK m \in T : \A n \in T : m <= n
    <2>1. T \in SUBSET Nat
      BY <1>a
    <2> HIDE DEF T
    <2> QED
      BY <2>1, LeastExists
  <1>2. CASE m = 0
    <2>1. Shown[0] = dialog
      BY <1>a, <1>c
    <2>2. FromEvents(0)
      BY <1>a, <2>1 DEF FromEvents, DialogInv
    <2> QED
      BY <1>1, <1>2, <2>2
  <1>3. CASE m # 0
    <2>1. /\ m \in 1 .. Len(dialogEvents) /\ m - 1 \in 0 .. Len(dialogEvents)
          /\ m \in 0 .. Len(dialogEvents)
      BY <1>1, <1>3, <1>a
    <2>2. FromEvents(m - 1)
      BY <1>1, <2>1
    <2>3. Shown[m] = Show(Shown[m - 1], dialogEvents[m])
      BY <1>c, <1>3, <2>1
    <2>4. /\ Shown[m] \in Dialogs
          /\ Shown[m].cookie = NoCookie => ~Shown[m].window /\ Shown[m].prompt = NoPrompt
          /\ Shown[m].prompt # NoPrompt =>
              \/ Shown[m].cookie = Shown[m - 1].cookie /\ Shown[m].prompt = Shown[m - 1].prompt
              \/ /\ dialogEvents[m][1] = "Pam" /\ dialogEvents[m][2] = Shown[m].cookie
                 /\ dialogEvents[m][3] = Shown[m].prompt
      BY <1>b, <2>1, <2>2, <2>3, ShowOne DEF FromEvents
    <2>5. FromEvents(m)
      BY <2>1, <2>2, <2>4 DEF FromEvents
    <2> QED
      BY <1>1, <2>5
  <1> QED
    BY <1>2, <1>3

-----------------------------------------------------------------------------
(* The steps of the agent, the helper and the dialog. *)

LEMMA PolkitTypes ==
  ASSUME PolkitTypeOK
  PROVE  /\ begin \in [Cookies -> {"no", "lookup", "running", "ok", "failed", "reap ok",
                                   "reap failed"}]
         /\ active \subseteq Cookies
         /\ controls \in [Cookies -> Seq(Responses \union {Cancelled})]
         /\ awaiting \in [Cookies -> BOOLEAN]
         /\ helper \in [Cookies -> {"none", "alive", "dead"}]
         /\ asked \in [Cookies -> 0 .. MaxPrompts]
         /\ stdout \in [Cookies -> Seq(Lines)]
         /\ answered \in [Cookies -> Seq(Cookies \X Prompts)]
         /\ dialogEvents \in Seq(DialogEvent)
         /\ dialog \in Dialogs
  BY Zenon DEF PolkitTypeOK, Dialogs

\* A queue with one more entry, and without its first.
LEMMA PushFacts ==
  ASSUME NEW S, NEW s \in Seq(S), NEW e \in S
  PROVE  /\ Len(s) \in Nat
         /\ Append(s, e) \in Seq(S) /\ Len(Append(s, e)) = Len(s) + 1
         /\ Append(s, e)[Len(s) + 1] = e
         /\ \A i \in 1 .. Len(s) : Append(s, e)[i] = s[i]
  OBVIOUS

LEMMA PopFacts ==
  ASSUME NEW S, NEW s \in Seq(S), s # <<>>
  PROVE  /\ Tail(s) \in Seq(S) /\ Len(Tail(s)) = Len(s) - 1
         /\ Head(s) = s[1] /\ Head(s) \in S /\ 1 \in 1 .. Len(s)
         /\ Len(s) <= 1 => Tail(s) = <<>>
         /\ \A i \in 1 .. Len(Tail(s)) :
               i + 1 \in 1 .. Len(s) /\ Tail(s)[i] = s[i + 1]
  OBVIOUS

\* A sequence is the function of its entries.
LEMMA SeqIsItsEntries ==
  ASSUME NEW S, NEW s \in Seq(S), NEW f, f = [i \in 1 .. Len(s) |-> f[i]],
         \A i \in 1 .. Len(s) : s[i] = f[i]
  PROVE  s = f
  <1>1. s \in [1 .. Len(s) -> S]
    OBVIOUS
  <1>2. s = [i \in 1 .. Len(s) |-> s[i]]
    BY <1>1
  <1> QED
    BY <1>2, Zenon

LEMMA TellTypes ==
  ASSUME PolkitTypeOK, NEW e \in DialogEvent
  PROVE  Append(dialogEvents, e) \in Seq(DialogEvent)
  <1>1. dialogEvents \in Seq(DialogEvent)
    BY PolkitTypes
  <1> QED
    BY <1>1

LEMMA ControlTypes ==
  ASSUME PolkitTypeOK, NEW c \in Cookies, NEW control \in Responses \union {Cancelled}
  PROVE  LET Typed == [Cookies -> Seq(Responses \union {Cancelled})]
         IN  /\ controls \in Typed
             /\ [controls EXCEPT ![c] = <<>>] \in Typed
             /\ [controls EXCEPT ![c] = Append(@, control)] \in Typed
             /\ controls[c] # <<>> => [controls EXCEPT ![c] = Tail(@)] \in Typed
  <1> DEFINE S == Responses \union {Cancelled}
  <1>1. controls \in [Cookies -> Seq(S)] /\ control \in S
    BY PolkitTypes
  <1> HIDE DEF S
  <1>2. /\ controls[c] \in Seq(S) /\ <<>> \in Seq(S) /\ Append(controls[c], control) \in Seq(S)
        /\ controls[c] # <<>> => Tail(controls[c]) \in Seq(S)
    BY <1>1
  <1>3. \A s \in Seq(S) : [controls EXCEPT ![c] = s] \in [Cookies -> Seq(S)]
    BY <1>1
  <1> QED
    BY <1>1, <1>2, <1>3 DEF S

\* The parts of Fades that hold of what a step leaves alone.
LEMMA FadeParts ==
  ASSUME PolkitTypeOK, NEW c \in Cookies, OnceAt(c)
  PROVE  /\ stdout'[c] = stdout[c] =>
              /\ Printed(c)' => Printed(c) /\ Head(stdout'[c]) = Head(stdout[c])
              /\ Len(stdout'[c]) <= 1
         /\ dialogEvents' = dialogEvents =>
              \A i \in 1 .. Len(dialogEvents') :
                 PamAt(c, i)' => i \in 1 .. Len(dialogEvents) /\ dialogEvents'[i] = dialogEvents[i]
         /\ \A e \in DialogEvent :
              (e[1] # "Pam" \/ e[2] # c \/ e[3] = NoPrompt)
                /\ dialogEvents' = Append(dialogEvents, e) =>
                \A i \in 1 .. Len(dialogEvents') :
                   PamAt(c, i)' =>
                      i \in 1 .. Len(dialogEvents) /\ dialogEvents'[i] = dialogEvents[i]
         /\ dialog' = dialog => (InDialog(c)' => InDialog(c) /\ dialog'.prompt = dialog.prompt)
  <1>1. stdout'[c] = stdout[c] =>
           /\ Printed(c)' => Printed(c) /\ Head(stdout'[c]) = Head(stdout[c])
           /\ Len(stdout'[c]) <= 1
    BY DEF Printed, OnceAt
  <1>2. dialogEvents' = dialogEvents =>
           \A i \in 1 .. Len(dialogEvents') :
              PamAt(c, i)' => i \in 1 .. Len(dialogEvents) /\ dialogEvents'[i] = dialogEvents[i]
    OBVIOUS
  <1>3. ASSUME NEW e \in DialogEvent, e[1] # "Pam" \/ e[2] # c \/ e[3] = NoPrompt,
               dialogEvents' = Append(dialogEvents, e),
               NEW i \in 1 .. Len(dialogEvents'), PamAt(c, i)'
        PROVE  i \in 1 .. Len(dialogEvents) /\ dialogEvents'[i] = dialogEvents[i]
    <2>1. dialogEvents \in Seq(DialogEvent)
      BY PolkitTypes
    <2>2. Len(dialogEvents') = Len(dialogEvents) + 1
      BY <1>3, <2>1
    <2>3. i # Len(dialogEvents) + 1
      BY <1>3, <2>1 DEF PamAt
    <2> QED
      BY <1>3, <2>1, <2>2, <2>3
  <1>4. dialog' = dialog => (InDialog(c)' => InDialog(c) /\ dialog'.prompt = dialog.prompt)
    BY DEF InDialog
  <1> QED
    BY <1>1, <1>2, <1>3, <1>4

\* A step that gives no helper an answer and moves no prompt.
LEMMA StillKeeps ==
  ASSUME PolkitInv, PolkitTypeOK', answered' = answered, DialogInv',
         \A c \in Cookies : Fades(c)
  PROVE  PolkitInv'
  <1>1. PromptInv'
    BY FadesKeeps DEF PolkitInv, PromptInv
  <1>2. AnswerReachesItsPrompt'
    BY DEF PolkitInv, AnswerReachesItsPrompt
  <1> QED
    BY <1>1, <1>2 DEF PolkitInv

LEMMA LookupKeeps ==
  ASSUME PolkitInv, NEW c \in Cookies, NEW where \in {"lookup", "failed", "reap failed"},
         At(c, where),
         UNCHANGED <<active, awaiting, controls, helperVars, dialogEvents, dialog>>
  PROVE  PolkitInv'
  <1>a. PolkitTypeOK /\ \A x \in Cookies : OnceAt(x)
    BY DEF PolkitInv, PromptInv
  <1>1. begin' \in [Cookies -> {"no", "lookup", "running", "ok", "failed", "reap ok",
                                "reap failed"}]
    BY <1>a, PolkitTypes DEF At
  <1>2. PolkitTypeOK'
    BY <1>a, <1>1, Zenon DEF PolkitTypeOK, helperVars
  <1>3. ASSUME NEW x \in Cookies PROVE Fades(x)
    BY <1>a, FadeParts DEF Fades, helperVars
  <1>4. DialogInv'
    BY DEF PolkitInv, DialogInv
  <1> QED
    BY <1>2, <1>3, <1>4, StillKeeps DEF helperVars

LEMMA AuthenticateKeeps ==
  ASSUME PolkitInv, NEW c \in Cookies, Authenticate(c)
  PROVE  PolkitInv'
  <1>a. PolkitTypeOK /\ \A x \in Cookies : OnceAt(x)
    BY DEF PolkitInv, PromptInv
  <1>b. <<"Started", c, NoPrompt>> \in DialogEvent
    BY NoCookieIsNew DEF DialogEvent, NoPrompt
  <1>1. /\ begin' \in [Cookies -> {"no", "lookup", "running", "ok", "failed", "reap ok",
                                   "reap failed"}]
        /\ helper' \in [Cookies -> {"none", "alive", "dead"}]
    BY <1>a, PolkitTypes DEF At, Authenticate
  <1>2. dialogEvents' = Append(dialogEvents, <<"Started", c, NoPrompt>>)
    BY DEF Authenticate, Tell
  <1>3. dialogEvents' \in Seq(DialogEvent) /\ active' \subseteq Cookies
    BY <1>a, <1>b, <1>2, TellTypes DEF Authenticate
  <1>4. PolkitTypeOK'
    BY <1>a, <1>1, <1>3, Zenon DEF PolkitTypeOK, Authenticate
  <1>5. ASSUME NEW x \in Cookies PROVE Fades(x)
    <2>1. \A i \in 1 .. Len(dialogEvents') :
             PamAt(x, i)' => i \in 1 .. Len(dialogEvents) /\ dialogEvents'[i] = dialogEvents[i]
      BY <1>a, <1>b, <1>2, FadeParts
    <2> QED
      BY <1>a, <2>1, FadeParts DEF Fades, Authenticate
  <1>6. DialogInv'
    BY DEF PolkitInv, DialogInv, Authenticate
  <1> QED
    BY <1>4, <1>5, <1>6, StillKeeps DEF Authenticate

LEMMA ReapKeeps ==
  ASSUME PolkitInv, NEW c \in Cookies, Reap(c)
  PROVE  PolkitInv'
  <1>a. PolkitTypeOK /\ \A x \in Cookies : OnceAt(x)
    BY DEF PolkitInv, PromptInv
  <1>1. /\ begin' \in [Cookies -> {"no", "lookup", "running", "ok", "failed", "reap ok",
                                   "reap failed"}]
        /\ helper' \in [Cookies -> {"none", "alive", "dead"}]
        /\ active' \subseteq Cookies
    BY <1>a, PolkitTypes DEF At, Reap
  <1>2. PICK e \in DialogEvent : e[1] # "Pam" /\ dialogEvents' = Append(dialogEvents, e)
    <2> DEFINE kind == IF begin[c] = "reap ok" THEN "Done" ELSE "Failed"
               e == <<kind, c, NoPrompt>>
    <2>1. kind \in {"Done", "Failed"} /\ dialogEvents' = Append(dialogEvents, e)
      BY DEF Reap, Tell
    <2> HIDE DEF kind
    <2>2. e \in DialogEvent /\ e[1] # "Pam"
      BY <2>1, NoCookieIsNew DEF DialogEvent, NoPrompt
    <2> QED
      BY <2>1, <2>2
  <1>3. dialogEvents' \in Seq(DialogEvent)
    BY <1>a, <1>2, TellTypes
  <1>4. /\ controls' \in [Cookies -> Seq(Responses \union {Cancelled})]
        /\ \A x \in Cookies : controls'[x] = IF x = c THEN <<>> ELSE controls[x]
    <2>1. /\ controls \in [Cookies -> Seq(Responses \union {Cancelled})]
          /\ controls' = [controls EXCEPT ![c] = <<>>]
      BY <1>a, PolkitTypes DEF Reap
    <2>2. \A x \in Cookies : controls'[x] = IF x = c THEN <<>> ELSE controls[x]
      BY <2>1
    <2> QED
      BY <1>a, <2>1, <2>2, ControlTypes
  <1>5. PolkitTypeOK'
    BY <1>a, <1>1, <1>3, <1>4, Zenon DEF PolkitTypeOK, Reap
  <1>6. ASSUME NEW x \in Cookies PROVE Fades(x)
    <2>1. \A i \in 1 .. Len(dialogEvents') :
             PamAt(x, i)' => i \in 1 .. Len(dialogEvents) /\ dialogEvents'[i] = dialogEvents[i]
      BY <1>a, <1>2, FadeParts
    <2> QED
      BY <1>a, <1>4, <2>1, FadeParts DEF Fades, Reap
  <1>7. DialogInv'
    BY DEF PolkitInv, DialogInv, Reap
  <1> QED
    BY <1>5, <1>6, <1>7, StillKeeps DEF Reap

\* A cancel of the authority or of the dialog.
LEMMA CancelKeeps ==
  ASSUME PolkitInv, NEW c \in Cookies, UNCHANGED <<taskVars, helperVars, dialogEvents>>,
         controls' = [controls EXCEPT ![c] = Append(@, Cancelled)] \/ controls' = controls,
         DialogInv', dialog' \in Dialogs,
         dialog'.cookie = dialog.cookie, dialog'.prompt = dialog.prompt
  PROVE  PolkitInv'
  <1>a. PolkitTypeOK /\ \A x \in Cookies : OnceAt(x)
    BY DEF PolkitInv, PromptInv
  <1>1. /\ controls' \in [Cookies -> Seq(Responses \union {Cancelled})]
        /\ \A x \in Cookies : controls'[x] \in {controls[x], Append(controls[x], Cancelled)}
    <2>1. controls \in [Cookies -> Seq(Responses \union {Cancelled})]
      BY <1>a, PolkitTypes
    <2>2. \A x \in Cookies : controls'[x] \in {controls[x], Append(controls[x], Cancelled)}
      BY <2>1
    <2>3. Cancelled \in Responses \union {Cancelled}
      OBVIOUS
    <2>4. [controls EXCEPT ![c] = Append(@, Cancelled)]
             \in [Cookies -> Seq(Responses \union {Cancelled})]
      BY <1>a, <2>3, ControlTypes
    <2> QED
      BY <2>1, <2>2, <2>4, Zenon
  <1>2. PolkitTypeOK'
    BY <1>a, <1>1, Zenon DEF PolkitTypeOK, taskVars, helperVars, Dialogs
  <1>3. ASSUME NEW x \in Cookies PROVE Fades(x)
    <2>1. InDialog(x)' => InDialog(x) /\ dialog'.prompt = dialog.prompt
      BY DEF InDialog
    <2> QED
      BY <1>a, <1>1, <2>1, FadeParts DEF Fades, helperVars
  <1> QED
    BY <1>2, <1>3, StillKeeps DEF helperVars

LEMMA HelperDiesKeeps ==
  ASSUME PolkitInv, NEW c \in Cookies, HelperDies(c)
  PROVE  PolkitInv'
  <1>a. PolkitTypeOK /\ \A x \in Cookies : OnceAt(x)
    BY DEF PolkitInv, PromptInv
  <1>1. helper' \in [Cookies -> {"none", "alive", "dead"}]
    BY <1>a, PolkitTypes DEF HelperDies
  <1>2. PolkitTypeOK'
    BY <1>a, <1>1, Zenon DEF PolkitTypeOK, HelperDies, taskVars
  <1>3. ASSUME NEW x \in Cookies PROVE Fades(x)
    BY <1>a, FadeParts DEF Fades, HelperDies
  <1>4. DialogInv'
    BY DEF PolkitInv, DialogInv, HelperDies
  <1> QED
    BY <1>2, <1>3, <1>4, StillKeeps DEF HelperDies

\* The helper prints: its last prompt was answered, so no prompt is anywhere.
LEMMA HelperPrintsKeeps ==
  ASSUME PolkitInv, NEW c \in Cookies, HelperPrints(c)
  PROVE  PolkitInv'
  <1>a. PolkitTypeOK /\ \A x \in Cookies : OnceAt(x) /\ NumberAt(x)
    BY DEF PolkitInv, PromptInv
  <1>b. /\ asked \in [Cookies -> 0 .. MaxPrompts] /\ stdout \in [Cookies -> Seq(Lines)]
        /\ asked[c] \in Nat /\ MaxPrompts \in Nat
    <2>1. asked \in [Cookies -> 0 .. MaxPrompts] /\ stdout \in [Cookies -> Seq(Lines)]
      BY <1>a, PolkitTypes
    <2> QED
      BY <2>1, NoCookieIsNew
  <1>c. /\ answered' = answered /\ controls' = controls
        /\ dialogEvents' = dialogEvents /\ dialog' = dialog
    BY DEF HelperPrints
  <1>d. DialogInv'
    BY <1>c DEF PolkitInv, DialogInv
  <1>e. ASSUME stdout' \in [Cookies -> Seq(Lines)], asked' \in [Cookies -> 0 .. MaxPrompts]
        PROVE  PolkitTypeOK'
    BY <1>a, <1>e, Zenon DEF PolkitTypeOK, HelperPrints, taskVars
  <1>1. CASE /\ asked[c] < MaxPrompts
             /\ asked' = [asked EXCEPT ![c] = @ + 1]
             /\ stdout' = [stdout EXCEPT ![c] = <<Prompt(asked[c] + 1)>>]
    <2>1. Prompt(asked[c] + 1) \in Lines
      BY <1>b, <1>1 DEF Lines, Prompts
    <2>2. stdout' \in [Cookies -> Seq(Lines)]
      BY <1>b, <1>1, <2>1
    <2>3. asked' \in [Cookies -> 0 .. MaxPrompts]
      BY <1>b, <1>1
    <2>4. /\ asked'[c] = asked[c] + 1 /\ stdout'[c] = <<Prompt(asked[c] + 1)>>
          /\ \A x \in Cookies : x # c => asked'[x] = asked[x] /\ stdout'[x] = stdout[x]
      BY <1>b, <1>1
    <2>5. ASSUME NEW x \in Cookies, x # c PROVE NumberAt(x)' /\ OnceAt(x)'
      <3>1. Fades(x)
        BY <1>a, <1>c, <2>4, <2>5, FadeParts DEF Fades
      <3> QED
        BY <1>a, <3>1, FadesKeeps
    <2>6. asked[c] = Len(answered[c]) /\ ~Waits(c)
      BY <1>b DEF HelperPrints, Unanswered, Waits
    <2>7. /\ ~InDialog(c) /\ \A i \in 1 .. Len(dialogEvents) : ~PamAt(c, i)
          /\ \A i \in 1 .. Len(controls[c]) : ~SentAt(c, i)
      BY <1>a, <2>6 DEF NumberAt
    <2>8. /\ ~InDialog(c)' /\ \A i \in 1 .. Len(dialogEvents') : ~PamAt(c, i)'
          /\ \A i \in 1 .. Len(controls'[c]) : ~SentAt(c, i)'
          /\ ~Told(c)' /\ ~Sent(c)'
      BY <1>c, <2>7 DEF InDialog, PamAt, SentAt, Told, Sent
    <2>9. Waits(c)' /\ Head(stdout'[c])[2] = asked'[c] /\ Len(stdout'[c]) <= 1
      BY <1>c, <2>4, <2>6 DEF Waits, Prompt
    <2>10. NumberAt(c)' /\ OnceAt(c)'
      BY <2>8, <2>9 DEF NumberAt, OnceAt
    <2>11. PromptInv'
      BY <2>5, <2>10 DEF PromptInv
    <2>12. AnswerReachesItsPrompt'
      BY <1>c DEF PolkitInv, AnswerReachesItsPrompt
    <2> QED
      BY <1>d, <1>e, <2>2, <2>3, <2>11, <2>12 DEF PolkitInv
  <1>2. ASSUME NEW line \in {Info, Complete, Garbled},
               stdout' = [stdout EXCEPT ![c] = <<line>>], asked' = asked
        PROVE  PolkitInv'
    <2>1. line \in Lines /\ line[1] # "Prompt"
      BY <1>2 DEF Lines, Info, Complete, Garbled
    <2>2. stdout' \in [Cookies -> Seq(Lines)]
      BY <1>b, <1>2, <2>1
    <2>3. /\ stdout'[c] = <<line>> /\ Len(stdout'[c]) <= 1
          /\ \A x \in Cookies : x # c => stdout'[x] = stdout[x]
      BY <1>b, <1>2
    <2>4. ~Printed(c)'
      BY <2>1, <2>3 DEF Printed
    <2>5. ASSUME NEW x \in Cookies PROVE Fades(x)
      BY <1>a, <1>c, <1>2, <2>3, <2>4, FadeParts DEF Fades
    <2> QED
      BY <1>b, <1>c, <1>d, <1>e, <1>2, <2>2, <2>5, StillKeeps
  <1> QED
    BY <1>1, <1>2 DEF HelperPrints

\* The task reads a line.  A prompt leaves the output and is told to the dialog,
\* which until then has no prompt of this request's helper.
LEMMA ReadLineKeeps ==
  ASSUME PolkitInv, NEW c \in Cookies, ReadLine(c)
  PROVE  PolkitInv'
  <1>a. PolkitTypeOK /\ \A x \in Cookies : OnceAt(x) /\ NumberAt(x)
    BY DEF PolkitInv, PromptInv
  <1>b. /\ stdout \in [Cookies -> Seq(Lines)]
        /\ begin \in [Cookies -> {"no", "lookup", "running", "ok", "failed", "reap ok",
                                  "reap failed"}]
        /\ awaiting \in [Cookies -> BOOLEAN] /\ dialogEvents \in Seq(DialogEvent)
    BY <1>a, PolkitTypes
  <1>c. /\ answered' = answered /\ asked' = asked /\ controls' = controls /\ dialog' = dialog
        /\ stdout' = [stdout EXCEPT ![c] = Tail(@)] /\ stdout[c] # <<>>
    BY DEF ReadLine
  <1>d. DialogInv'
    BY <1>c DEF PolkitInv, DialogInv
  <1>e. ASSUME stdout' \in [Cookies -> Seq(Lines)], awaiting' \in [Cookies -> BOOLEAN],
               begin' \in [Cookies -> {"no", "lookup", "running", "ok", "failed", "reap ok",
                                       "reap failed"}],
               dialogEvents' \in Seq(DialogEvent)
        PROVE  PolkitTypeOK'
    BY <1>a, <1>e, Zenon DEF PolkitTypeOK, ReadLine
  <1>f. stdout' \in [Cookies -> Seq(Lines)]
    <2>1. stdout[c] \in Seq(Lines)
      BY <1>b
    <2>2. Tail(stdout[c]) \in Seq(Lines)
      BY <1>c, <2>1, PopFacts
    <2> QED
      BY <1>b, <1>c, <2>2
  <1>g. /\ stdout'[c] = <<>> /\ Len(stdout'[c]) <= 1 /\ ~Printed(c)'
        /\ \A x \in Cookies : x # c => stdout'[x] = stdout[x]
    <2>1. stdout[c] \in Seq(Lines) /\ stdout'[c] = Tail(stdout[c])
      BY <1>b, <1>c
    <2>2. stdout'[c] = <<>>
      BY <1>a, <1>c, <2>1, PopFacts DEF OnceAt
    <2>3. \A x \in Cookies : x # c => stdout'[x] = stdout[x]
      BY <1>b, <1>c
    <2>4. Len(stdout'[c]) <= 1 /\ ~Printed(c)'
      BY <2>2 DEF Printed
    <2> QED
      BY <2>2, <2>3, <2>4
  <1>h. Head(stdout[c]) \in Lines
    <2>1. stdout[c] \in Seq(Lines) /\ stdout[c] # <<>>
      BY <1>b, <1>c
    <2> QED
      BY <2>1
  <1>1. ASSUME dialogEvents' = dialogEvents, awaiting' = awaiting,
               NEW where \in {"reap ok", "reap failed"}, At(c, where)
        PROVE  PolkitInv'
    <2>1. begin' \in [Cookies -> {"no", "lookup", "running", "ok", "failed", "reap ok",
                                  "reap failed"}]
      BY <1>b, <1>1 DEF At
    <2>2. ASSUME NEW x \in Cookies PROVE Fades(x)
      BY <1>a, <1>c, <1>g, <1>1, FadeParts DEF Fades
    <2> QED
      BY <1>b, <1>c, <1>d, <1>e, <1>f, <1>1, <2>1, <2>2, StillKeeps
  <1>2. CASE /\ Head(stdout[c]) \notin {Complete, Garbled}
             /\ awaiting' = [awaiting EXCEPT ![c] = @ \/ Head(stdout[c])[1] = "Prompt"]
             /\ Tell("Pam", c, Head(stdout[c])[2])
             /\ UNCHANGED begin
    <2> DEFINE k == Head(stdout[c])[2]
               e == <<"Pam", c, k>>
    <2>1. /\ k \in 0 .. MaxPrompts /\ dialogEvents' = Append(dialogEvents, e)
          /\ Head(stdout[c])[1] = "Prompt" \/ k = NoPrompt
      <3>1. Head(stdout[c]) = Info \/ \E p \in Prompts : Head(stdout[c]) = Prompt(p)
        BY <1>2, <1>h DEF Lines
      <3>2. CASE Head(stdout[c]) = Info
        BY <1>2, <3>2, NoCookieIsNew DEF Info, NoPrompt, Tell
      <3>3. ASSUME NEW p \in Prompts, Head(stdout[c]) = Prompt(p)
            PROVE  Head(stdout[c])[1] = "Prompt" /\ k \in 0 .. MaxPrompts
        BY <3>3, NoCookieIsNew DEF Prompt, Prompts
      <3> QED
        BY <1>2, <3>1, <3>2, <3>3 DEF Tell
    <2> HIDE DEF k
    <2>2. e \in DialogEvent /\ e[2] = c /\ e[3] = k /\ e[1] = "Pam"
      BY <2>1 DEF DialogEvent
    <2>3. dialogEvents' \in Seq(DialogEvent)
      BY <1>a, <2>1, <2>2, TellTypes
    <2>4. awaiting' \in [Cookies -> BOOLEAN]
      BY <1>b, <1>2, Zenon
    <2>5. PolkitTypeOK'
      BY <1>b, <1>e, <1>f, <1>2, <2>3, <2>4
    <2>6. ASSUME NEW x \in Cookies, x # c \/ k = NoPrompt PROVE Fades(x)
      <3>1. e[2] # x \/ e[3] = NoPrompt
        BY <2>2, <2>6
      <3>2. \A i \in 1 .. Len(dialogEvents') :
              PamAt(x, i)' => i \in 1 .. Len(dialogEvents) /\ dialogEvents'[i] = dialogEvents[i]
        BY <1>a, <2>1, <2>2, <3>1, FadeParts
      <3> QED
        BY <1>a, <1>c, <1>g, <3>2, FadeParts DEF Fades
    <2>7. CASE k = NoPrompt
      BY <1>c, <1>d, <2>5, <2>6, <2>7, StillKeeps
    <2>8. CASE k # NoPrompt
      <3>1. ASSUME NEW x \in Cookies, x # c PROVE NumberAt(x)' /\ OnceAt(x)'
        BY <1>a, <2>6, <3>1, FadesKeeps
      <3>2. Printed(c) /\ Waits(c) /\ k = asked[c]
        BY <1>a, <1>c, <2>1, <2>8 DEF Printed, NumberAt, k
      <3>3. ~Told(c) /\ ~InDialog(c) /\ ~Sent(c)
        BY <1>a, <3>2 DEF OnceAt
      <3>4. ~InDialog(c)' /\ ~Sent(c)' /\ \A i \in 1 .. Len(controls'[c]) : ~SentAt(c, i)'
        BY <1>c, <3>3 DEF InDialog, Sent, SentAt
      <3>5. ASSUME NEW i \in 1 .. Len(dialogEvents'), PamAt(c, i)'
            PROVE  dialogEvents'[i][3] = asked'[c]
        <4>1. /\ Len(dialogEvents') = Len(dialogEvents) + 1 /\ Len(dialogEvents) \in Nat
              /\ dialogEvents'[Len(dialogEvents) + 1] = e
              /\ \A j \in 1 .. Len(dialogEvents) : dialogEvents'[j] = dialogEvents[j]
          <5>1. dialogEvents \in Seq(DialogEvent)
            BY <1>b
          <5> QED
            BY <2>1, <2>2, <5>1, PushFacts
        <4>2. CASE i \in 1 .. Len(dialogEvents)
          <5>1. PamAt(c, i)
            BY <3>5, <4>1, <4>2 DEF PamAt
          <5> QED
            BY <3>3, <4>2, <5>1 DEF Told
        <4>3. CASE i = Len(dialogEvents) + 1
          BY <1>c, <2>2, <3>2, <4>1, <4>3
        <4> QED
          BY <4>1, <4>2, <4>3
      <3>6. Waits(c)'
        BY <1>c, <3>2 DEF Waits
      <3>7. NumberAt(c)' /\ OnceAt(c)'
        BY <1>g, <3>4, <3>5, <3>6 DEF NumberAt, OnceAt
      <3>8. PromptInv'
        BY <3>1, <3>7 DEF PromptInv
      <3>9. AnswerReachesItsPrompt'
        BY <1>c DEF PolkitInv, AnswerReachesItsPrompt
      <3> QED
        BY <1>d, <2>5, <3>8, <3>9 DEF PolkitInv
    <2> QED
      BY <2>7, <2>8
  <1> QED
    BY <1>1, <1>2 DEF ReadLine

\* The task takes a control.  A response it passes on is the only one, and is
\* for the prompt the helper waits on.
LEMMA TakeControlKeeps ==
  ASSUME PolkitInv, NEW c \in Cookies, TakeControl(c)
  PROVE  PolkitInv'
  <1>a. PolkitTypeOK /\ \A x \in Cookies : OnceAt(x) /\ NumberAt(x)
    BY DEF PolkitInv, PromptInv
  <1>b. controls \in [Cookies -> Seq(Responses \union {Cancelled})]
    BY <1>a, PolkitTypes
  <1>c. /\ controls' = [controls EXCEPT ![c] = Tail(@)] /\ controls[c] # <<>>
        /\ asked' = asked /\ stdout' = stdout /\ dialogEvents' = dialogEvents
        /\ dialog' = dialog
    BY DEF TakeControl
  <1>d. DialogInv'
    BY <1>c DEF PolkitInv, DialogInv
  <1>e. controls' \in [Cookies -> Seq(Responses \union {Cancelled})]
    <2>1. Cancelled \in Responses \union {Cancelled}
      OBVIOUS
    <2> QED
      BY <1>a, <1>c, <2>1, ControlTypes
  <1>f. /\ controls'[c] = Tail(controls[c])
        /\ \A x \in Cookies : x # c => controls'[x] = controls[x]
    BY <1>b, <1>c
  <1>g. ASSUME begin' \in [Cookies -> {"no", "lookup", "running", "ok", "failed", "reap ok",
                                       "reap failed"}],
               awaiting' \in [Cookies -> BOOLEAN],
               answered' \in [Cookies -> Seq(Cookies \X Prompts)]
        PROVE  PolkitTypeOK'
    BY <1>a, <1>e, <1>g, Zenon DEF PolkitTypeOK, TakeControl
  <1>h. ASSUME NEW x \in Cookies, answered'[x] = answered[x] PROVE Fades(x)
    BY <1>a, <1>c, <1>f, <1>h, FadeParts DEF Fades
  <1>i. /\ begin \in [Cookies -> {"no", "lookup", "running", "ok", "failed", "reap ok",
                                  "reap failed"}]
        /\ awaiting \in [Cookies -> BOOLEAN]
        /\ answered \in [Cookies -> Seq(Cookies \X Prompts)]
    BY <1>a, PolkitTypes
  <1>1. CASE answered' = answered /\ awaiting' = awaiting
             /\ (begin' = begin \/ At(c, "reap failed"))
    <2>1. begin' \in [Cookies -> {"no", "lookup", "running", "ok", "failed", "reap ok",
                                  "reap failed"}]
      BY <1>i, <1>1 DEF At
    <2>2. \A x \in Cookies : Fades(x)
      BY <1>h, <1>1
    <2>3. PolkitTypeOK'
      BY <1>g, <1>i, <1>1, <2>1
    <2> QED
      BY <1>d, <1>1, <2>2, <2>3, StillKeeps
  <1>2. CASE /\ Head(controls[c]) # Cancelled
             /\ answered' = [answered EXCEPT ![c] = Append(@, Head(controls[c])[2])]
             /\ awaiting' = [awaiting EXCEPT ![c] = FALSE]
             /\ begin' = begin
    <2>1. /\ Head(controls[c]) = controls[c][1] /\ 1 \in 1 .. Len(controls[c])
          /\ Head(controls[c]) \in Responses \union {Cancelled}
          /\ \A i \in 1 .. Len(Tail(controls[c])) :
                i + 1 \in 1 .. Len(controls[c]) /\ Tail(controls[c])[i] = controls[c][i + 1]
      <3>1. controls[c] \in Seq(Responses \union {Cancelled})
        BY <1>b
      <3> QED
        BY <1>c, <3>1, PopFacts
    <2>2. SentAt(c, 1) /\ Sent(c)
      BY <1>2, <2>1 DEF SentAt, Sent
    <2>3. Waits(c) /\ Head(controls[c]) = <<"Response", <<c, asked[c]>>>>
      BY <1>a, <2>1, <2>2 DEF NumberAt
    <2>4. ~Printed(c) /\ ~Told(c) /\ ~InDialog(c)
      BY <1>a, <2>2 DEF OnceAt
    <2>5. Head(controls[c])[2] = <<c, asked[c]>> /\ asked[c] \in Prompts
      <3>1. Head(controls[c]) \in Responses
        BY <1>2, <2>1
      <3> QED
        BY <2>3, <3>1 DEF Responses
    <2>6. answered' = [answered EXCEPT ![c] = Append(@, <<c, asked[c]>>)]
      BY <1>2, <2>5
    <2>7. /\ answered[c] \in Seq(Cookies \X Prompts) /\ <<c, asked[c]>> \in Cookies \X Prompts
      BY <1>i, <2>5
    <2>8. /\ answered'[c] = Append(answered[c], <<c, asked[c]>>)
          /\ \A x \in Cookies : x # c => answered'[x] = answered[x]
      BY <1>i, <2>6
    <2>9. /\ Len(answered[c]) \in Nat /\ Append(answered[c], <<c, asked[c]>>) \in Seq(Cookies \X Prompts)
          /\ Len(answered'[c]) = Len(answered[c]) + 1
          /\ answered'[c][Len(answered[c]) + 1] = <<c, asked[c]>>
          /\ \A i \in 1 .. Len(answered[c]) : answered'[c][i] = answered[c][i]
      BY <2>7, <2>8, PushFacts
    <2>10. PolkitTypeOK'
      <3>1. answered' \in [Cookies -> Seq(Cookies \X Prompts)]
        BY <1>i, <2>6, <2>9
      <3>2. awaiting' \in [Cookies -> BOOLEAN]
        BY <1>i, <1>2
      <3> QED
        BY <1>g, <1>i, <1>2, <3>1, <3>2
    <2>11. ASSUME NEW x \in Cookies, x # c PROVE NumberAt(x)' /\ OnceAt(x)'
      BY <1>a, <1>h, <2>8, <2>11, FadesKeeps
    <2>12. ASSUME NEW i \in 1 .. Len(controls'[c]) PROVE ~SentAt(c, i)'
      <3>1. i + 1 \in 1 .. Len(controls[c]) /\ controls'[c][i] = controls[c][i + 1] /\ i + 1 # 1
        BY <1>f, <2>1
      <3>2. ~SentAt(c, i + 1)
        BY <1>a, <2>1, <2>2, <3>1 DEF OnceAt
      <3> QED
        BY <3>1, <3>2 DEF SentAt
    <2>13. /\ ~Printed(c)' /\ ~InDialog(c)' /\ ~Sent(c)' /\ ~Told(c)'
           /\ \A i \in 1 .. Len(dialogEvents') : ~PamAt(c, i)'
      BY <1>c, <2>4, <2>12 DEF Printed, Told, InDialog, PamAt, Sent
    <2>14. asked'[c] = Len(answered'[c])
      BY <1>c, <2>3, <2>9 DEF Waits
    <2>15. NumberAt(c)' /\ OnceAt(c)'
      <3>1. Len(stdout'[c]) <= 1
        BY <1>a, <1>c DEF OnceAt
      <3> QED
        BY <2>12, <2>13, <2>14, <3>1 DEF NumberAt, OnceAt
    <2>16. PromptInv'
      BY <2>11, <2>15 DEF PromptInv
    <2>17. AnswerReachesItsPrompt'
      <3>1. ASSUME NEW x \in Cookies, x # c
            PROVE  answered'[x] = [i \in 1 .. Len(answered'[x]) |-> <<x, i>>]
        BY <2>8, <3>1 DEF PolkitInv, AnswerReachesItsPrompt
      <3>2. answered'[c] = [i \in 1 .. Len(answered'[c]) |-> <<c, i>>]
        <4>1. answered[c] = [i \in 1 .. Len(answered[c]) |-> <<c, i>>]
          BY DEF PolkitInv, AnswerReachesItsPrompt
        <4>2. \A i \in 1 .. Len(answered[c]) : answered[c][i] = <<c, i>>
          BY <4>1
        <4>3. asked[c] = Len(answered[c]) + 1
          BY <2>3 DEF Waits
        <4>4. ASSUME NEW i \in 1 .. Len(answered'[c]) PROVE answered'[c][i] = <<c, i>>
          BY <2>9, <4>2, <4>3
        <4>5. answered'[c] \in Seq(Cookies \X Prompts)
          BY <2>8, <2>9
        <4> DEFINE f == [i \in 1 .. Len(answered'[c]) |-> <<c, i>>]
        <4>6. /\ f = [i \in 1 .. Len(answered'[c]) |-> f[i]]
              /\ \A i \in 1 .. Len(answered'[c]) : answered'[c][i] = f[i]
          BY <4>4
        <4> HIDE DEF f
        <4>7. answered'[c] = f
          BY <4>5, <4>6, SeqIsItsEntries
        <4> QED
          BY <4>7 DEF f
      <3> QED
        BY <3>1, <3>2 DEF AnswerReachesItsPrompt
    <2> QED
      BY <1>d, <2>10, <2>16, <2>17 DEF PolkitInv
  <1> QED
    BY <1>1, <1>2 DEF TakeControl

\* A tick takes the prompts of the events to the dialog.
LEMMA TickKeeps ==
  ASSUME PolkitInv, Tick
  PROVE  PolkitInv'
  <1>a. PolkitTypeOK /\ DialogInv /\ \A x \in Cookies : OnceAt(x) /\ NumberAt(x)
    BY DEF PolkitInv, PromptInv
  <1>b. /\ dialog' = Shown[Len(dialogEvents)] /\ dialogEvents' = <<>>
        /\ asked' = asked /\ answered' = answered /\ stdout' = stdout /\ controls' = controls
    BY DEF Tick, helperVars
  <1>c. FromEvents(Len(dialogEvents))
    BY <1>a, ShownFromEvents
  <1>d. dialog' \in Dialogs /\ DialogInv'
    BY <1>b, <1>c DEF FromEvents, DialogInv
  <1>e. dialogEvents' \in Seq(DialogEvent)
    BY <1>b
  <1>1. PolkitTypeOK'
    BY <1>a, <1>d, <1>e, Zenon DEF PolkitTypeOK, Tick, taskVars, helperVars, Dialogs
  <1>2. ASSUME NEW c \in Cookies PROVE NumberAt(c)' /\ OnceAt(c)'
    <2>a. ~Told(c)' /\ \A i \in 1 .. Len(dialogEvents') : ~PamAt(c, i)'
      BY <1>b DEF Told
    <2>b. /\ Waits(c)' <=> Waits(c)
          /\ Printed(c)' <=> Printed(c)
          /\ Sent(c)' <=> Sent(c)
          /\ \A i \in 1 .. Len(controls[c]) : SentAt(c, i)' <=> SentAt(c, i)
      BY <1>b DEF Waits, Printed, Sent, SentAt
    <2>1. InDialog(c)' => (InDialog(c) \/ Told(c)) /\ Waits(c) /\ dialog'.prompt = asked[c]
      <3>1. CASE InDialog(c)' /\ dialog'.cookie = dialog.cookie /\ dialog'.prompt = dialog.prompt
        BY <1>a, <3>1 DEF InDialog, NumberAt
      <3>2. ASSUME InDialog(c)', NEW i \in 1 .. Len(dialogEvents),
                   dialogEvents[i][1] = "Pam", dialogEvents[i][2] = dialog'.cookie,
                   dialogEvents[i][3] = dialog'.prompt
            PROVE  Told(c) /\ Waits(c) /\ dialog'.prompt = asked[c]
        <4>1. PamAt(c, i)
          BY <3>2 DEF InDialog, PamAt
        <4> QED
          BY <1>a, <3>2, <4>1 DEF NumberAt, Told
      <3> QED
        BY <1>b, <1>c, <3>1, <3>2 DEF FromEvents, InDialog
    <2>2. NumberAt(c)'
      BY <1>a, <1>b, <2>a, <2>b, <2>1 DEF NumberAt
    <2>3. OnceAt(c)'
      BY <1>a, <1>b, <2>a, <2>b, <2>1 DEF OnceAt
    <2> QED
      BY <2>2, <2>3
  <1>3. AnswerReachesItsPrompt'
    BY <1>b DEF PolkitInv, AnswerReachesItsPrompt
  <1> QED
    BY <1>d, <1>1, <1>2, <1>3 DEF PolkitInv, PromptInv

\* A submission sends the dialog's prompt back and takes it out of the dialog.
LEMMA SubmitKeeps ==
  ASSUME PolkitInv, Submit
  PROVE  PolkitInv'
  <1>0. PICK c, k : c = dialog.cookie /\ k = dialog.prompt
    OBVIOUS
  <1> DEFINE r == <<"Response", <<c, k>>>>
  <1>a. PolkitTypeOK /\ DialogInv /\ \A x \in Cookies : OnceAt(x) /\ NumberAt(x)
    BY DEF PolkitInv, PromptInv
  <1>b. dialog \in Dialogs /\ dialog.window /\ k # NoPrompt
    BY <1>0, <1>a, PolkitTypes DEF Submit
  <1>c. c \in Cookies /\ k \in Prompts
    BY <1>0, <1>a, <1>b, NoCookieIsNew DEF DialogInv, Dialogs, Prompts, NoPrompt
  <1>d. r \in Responses /\ r # Cancelled /\ r \in Responses \union {Cancelled}
    BY <1>c DEF Responses, Cancelled
  <1>e. /\ asked' = asked /\ answered' = answered /\ stdout' = stdout
        /\ dialogEvents' = dialogEvents /\ dialog' = [dialog EXCEPT !.prompt = NoPrompt]
        /\ controls' = [controls EXCEPT ![c] = Append(@, r)] \/ controls' = controls
    BY <1>0 DEF Submit, SendControl, helperVars
  <1>f. dialog' \in Dialogs /\ DialogInv' /\ dialog'.prompt = NoPrompt
    <2>1. 0 \in 0 .. MaxPrompts
      BY NoCookieIsNew
    <2> QED
      BY <1>a, <1>b, <1>e, <2>1 DEF Dialogs, DialogInv, NoPrompt
  <1>g. controls \in [Cookies -> Seq(Responses \union {Cancelled})]
    BY <1>a, PolkitTypes
  <1>h. controls' \in [Cookies -> Seq(Responses \union {Cancelled})]
    <2>1. [controls EXCEPT ![c] = Append(@, r)]
             \in [Cookies -> Seq(Responses \union {Cancelled})]
      BY <1>a, <1>c, <1>d, ControlTypes
    <2> QED
      BY <1>e, <1>g, <2>1, Zenon
  <1>1. PolkitTypeOK'
    BY <1>a, <1>f, <1>h, Zenon DEF PolkitTypeOK, Submit, taskVars, helperVars, Dialogs
  <1>2. InDialog(c) /\ \A x \in Cookies : ~InDialog(x)'
    BY <1>0, <1>b, <1>f DEF InDialog
  <1>3. ASSUME NEW x \in Cookies, controls'[x] = controls[x] PROVE NumberAt(x)' /\ OnceAt(x)'
    <2>1. Fades(x)
      BY <1>a, <1>e, <1>2, <1>3, FadeParts DEF Fades
    <2> QED
      BY <1>a, <2>1, FadesKeeps
  <1>4. ASSUME controls' = [controls EXCEPT ![c] = Append(@, r)]
        PROVE  NumberAt(c)' /\ OnceAt(c)'
    <2>1. controls[c] \in Seq(Responses \union {Cancelled}) /\ controls'[c] = Append(controls[c], r)
      BY <1>c, <1>g, <1>4
    <2>2. /\ Len(controls[c]) \in Nat /\ Len(controls'[c]) = Len(controls[c]) + 1
          /\ controls'[c][Len(controls[c]) + 1] = r
          /\ \A i \in 1 .. Len(controls[c]) : controls'[c][i] = controls[c][i]
      BY <1>d, <2>1, PushFacts
    <2>3. Waits(c) /\ k = asked[c] /\ ~Printed(c) /\ ~Told(c) /\ ~Sent(c)
      BY <1>0, <1>a, <1>c, <1>2 DEF NumberAt, OnceAt
    <2>4. ASSUME NEW i \in 1 .. Len(controls'[c]), SentAt(c, i)' PROVE i = Len(controls[c]) + 1
      BY <2>2, <2>3, <2>4 DEF Sent, SentAt
    <2>5. /\ Waits(c)' /\ ~Printed(c)' /\ ~Told(c)'
          /\ \A i \in 1 .. Len(dialogEvents') : ~PamAt(c, i)'
      BY <1>e, <2>3 DEF Waits, Printed, Told, PamAt
    <2>6. NumberAt(c)'
      <3>1. ASSUME NEW i \in 1 .. Len(controls'[c]), SentAt(c, i)'
            PROVE  controls'[c][i] = <<"Response", <<c, asked'[c]>>>>
        BY <1>e, <2>2, <2>3, <2>4, <3>1
      <3> QED
        BY <1>c, <1>2, <2>5, <3>1 DEF NumberAt
    <2>7. OnceAt(c)'
      <3>1. Len(stdout'[c]) <= 1
        BY <1>a, <1>c, <1>e DEF OnceAt
      <3> QED
        BY <1>c, <1>2, <2>4, <2>5, <3>1 DEF OnceAt
    <2> QED
      BY <2>6, <2>7
  <1>5. PromptInv'
    <2>1. ASSUME NEW x \in Cookies PROVE NumberAt(x)' /\ OnceAt(x)'
      <3>1. CASE controls' = controls
        BY <1>3, <3>1
      <3>2. CASE controls' = [controls EXCEPT ![c] = Append(@, r)] /\ x # c
        <4>1. controls'[x] = controls[x]
          BY <1>g, <3>2
        <4> QED
          BY <1>3, <4>1
      <3>3. CASE controls' = [controls EXCEPT ![c] = Append(@, r)] /\ x = c
        BY <1>4, <3>3
      <3> QED
        BY <1>e, <3>1, <3>2, <3>3
    <2> QED
      BY <2>1 DEF PromptInv
  <1>6. AnswerReachesItsPrompt'
    BY <1>e DEF PolkitInv, AnswerReachesItsPrompt
  <1> QED
    BY <1>f, <1>1, <1>5, <1>6 DEF PolkitInv

LEMMA PolkitStep == PolkitInv /\ [PolkitNext]_polkitVars => PolkitInv'
  <1> SUFFICES ASSUME PolkitInv, [PolkitNext]_polkitVars PROVE PolkitInv'
    OBVIOUS
  <1>1. ASSUME NEW c \in Cookies,
               BeginAuthentication(c) \/ LookupFails(c) \/ Refuse(c) \/ GiveUp(c)
        PROVE  PolkitInv'
    BY <1>1, LookupKeeps DEF BeginAuthentication, LookupFails, Refuse, GiveUp
  <1>2. ASSUME NEW c \in Cookies, CancelAuthentication(c) PROVE PolkitInv'
    <2>1. dialog' = dialog /\ dialog' \in Dialogs /\ DialogInv'
      BY <1>2, PolkitTypes DEF CancelAuthentication, PolkitInv, DialogInv
    <2> QED
      BY <1>2, <2>1, CancelKeeps DEF CancelAuthentication
  <1>3. CASE CancelDialog
    <2>1. dialog \in Dialogs /\ dialog.cookie \in Cookies
      <3>1. dialog \in Dialogs
        BY PolkitTypes DEF PolkitInv
      <3> QED
        BY <1>3, <3>1 DEF CancelDialog, PolkitInv, DialogInv, Dialogs
    <2>2. dialog' = [dialog EXCEPT !.control = FALSE, !.window = FALSE]
      BY <1>3 DEF CancelDialog
    <2>3. /\ dialog' \in Dialogs /\ dialog'.cookie = dialog.cookie
          /\ dialog'.prompt = dialog.prompt /\ DialogInv'
      BY <2>1, <2>2, NoCookieIsNew DEF Dialogs, DialogInv
    <2> QED
      BY <1>3, <2>1, <2>3, CancelKeeps DEF CancelDialog, SendControl
  <1>4. CASE UNCHANGED polkitVars
    <2>1. UNCHANGED <<taskVars, controls, helperVars, dialogEvents, dialog>>
      BY <1>4 DEF polkitVars
    <2>2. PolkitTypeOK' /\ DialogInv'
      BY <2>1, Zenon DEF PolkitInv, PolkitTypeOK, DialogInv, taskVars, helperVars
    <2>3. ASSUME NEW x \in Cookies PROVE Fades(x)
      BY <2>1, FadeParts DEF PolkitInv, PromptInv, Fades, helperVars
    <2> QED
      BY <2>1, <2>2, <2>3, StillKeeps DEF helperVars
  <1> QED
    BY <1>1, <1>2, <1>3, <1>4, AuthenticateKeeps, TakeControlKeeps, ReadLineKeeps, ReapKeeps,
       HelperPrintsKeeps, HelperDiesKeeps, TickKeeps, SubmitKeeps
    DEF PolkitNext

LEMMA PolkitStart == PolkitInit => PolkitInv
  <1> SUFFICES ASSUME PolkitInit PROVE PolkitInv
    OBVIOUS
  <1>1. 0 \in 0 .. MaxPrompts
    BY NoCookieIsNew
  <1>2. PolkitTypeOK
    <2>1. /\ begin \in [Cookies -> {"no", "lookup", "running", "ok", "failed", "reap ok",
                                    "reap failed"}]
          /\ active \subseteq Cookies
          /\ awaiting \in [Cookies -> BOOLEAN]
          /\ helper \in [Cookies -> {"none", "alive", "dead"}]
      BY DEF PolkitInit
    <2>2. controls \in [Cookies -> Seq(Responses \union {Cancelled})]
      BY DEF PolkitInit
    <2>3. asked \in [Cookies -> 0 .. MaxPrompts]
      BY <1>1 DEF PolkitInit
    <2>4. stdout \in [Cookies -> Seq(Lines)]
      BY DEF PolkitInit
    <2>5. answered \in [Cookies -> Seq(Cookies \X Prompts)]
      BY DEF PolkitInit
    <2>6. dialogEvents \in Seq(DialogEvent)
      BY DEF PolkitInit
    <2>7. dialog \in Dialogs
      BY <1>1 DEF PolkitInit, Dialogs, NoPrompt
    <2> QED
      BY <2>1, <2>2, <2>3, <2>4, <2>5, <2>6, <2>7, Zenon DEF PolkitTypeOK, Dialogs
  <1>3. PromptInv
    <2>1. ASSUME NEW c \in Cookies PROVE NumberAt(c) /\ OnceAt(c)
      <3>1. /\ asked[c] = 0 /\ answered[c] = <<>> /\ stdout[c] = <<>> /\ controls[c] = <<>>
            /\ dialogEvents = <<>> /\ dialog.prompt = NoPrompt
        BY DEF PolkitInit
      <3> QED
        BY <3>1 DEF NumberAt, OnceAt, Printed, Told, InDialog, Sent
    <2> QED
      BY <2>1 DEF PromptInv
  <1>4. DialogInv
    BY DEF PolkitInit, DialogInv
  <1>5. AnswerReachesItsPrompt
    <2>1. ASSUME NEW c \in Cookies
          PROVE  answered[c] = [i \in 1 .. Len(answered[c]) |-> <<c, i>>]
      <3>1. answered[c] = <<>>
        BY DEF PolkitInit
      <3>2. Len(answered[c]) = 0 /\ answered[c] \in Seq({})
        BY <3>1
      <3> DEFINE f == [i \in 1 .. Len(answered[c]) |-> <<c, i>>]
      <3>3. /\ f = [i \in 1 .. Len(answered[c]) |-> f[i]]
            /\ \A i \in 1 .. Len(answered[c]) : answered[c][i] = f[i]
        BY <3>2
      <3> QED
        BY <3>2, <3>3, SeqIsItsEntries
    <2> QED
      BY <2>1 DEF AnswerReachesItsPrompt
  <1> QED
    BY <1>2, <1>3, <1>4, <1>5 DEF PolkitInv

\* The types of the authentication agent, its helpers and its dialog hold in
\* every reachable state.
THEOREM PolkitTypeCorrect == PolkitSpec => []PolkitTypeOK
  <1>1. PolkitInit => PolkitInv
    BY PolkitStart
  <1>2. PolkitInv /\ [PolkitNext]_polkitVars => PolkitInv'
    BY PolkitStep
  <1>3. PolkitInv => PolkitTypeOK
    BY DEF PolkitInv
  <1> QED
    BY <1>1, <1>2, <1>3, PTL DEF PolkitSpec

\* What a helper is given for its i-th prompt is what was typed for it, whatever
\* the order of ticks, lines, submissions and cancels: a prompt is in one place
\* between the helper's output and the task, and the helper prints no other
\* before it has the answer.
THEOREM AnswersReachTheirPrompt == PolkitSpec => []AnswerReachesItsPrompt
  <1>1. PolkitInit => PolkitInv
    BY PolkitStart
  <1>2. PolkitInv /\ [PolkitNext]_polkitVars => PolkitInv'
    BY PolkitStep
  <1>3. PolkitInv => AnswerReachesItsPrompt
    BY DEF PolkitInv
  <1> QED
    BY <1>1, <1>2, <1>3, PTL DEF PolkitSpec
=============================================================================
