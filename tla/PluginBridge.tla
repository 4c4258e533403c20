---------------------------- MODULE PluginBridge ----------------------------
(***************************************************************************)
(* The file manager's preview bridge                                       *)
(* (crates/sy-filemanager/src/file/plugin_bridge.rs): hovers that share a  *)
(* cache of plugin supervisors behind one tokio mutex, which is fair.  A   *)
(* supervisor is what PluginProc promises: a spawn succeeds or fails, a    *)
(* request is answered, fails, or hangs, a shutdown returns.  Supervisors  *)
(* are numbered in the order they are spawned.                             *)
(***************************************************************************)
EXTENDS Integers, Sequences, FiniteSets

CONSTANTS
    Hovers,   \* one per call of preview_for that finds a plugin
    Plugins,
    Target,   \* Target[h]: the plugin the registry selects for h
    Hung,     \* plugins whose requests are never answered
    Quit      \* the one call of shutdown_all

ASSUME BridgeAssumption ==
    /\ Target \in [Hovers -> Plugins]
    /\ Hung \subseteq Plugins
    /\ Quit \notin Hovers

VARIABLES
    step,     \* step[h]: where preview_for is
    lock,     \* the guard's holders: at most one hover
    waiters,  \* the tasks parked on the mutex, in order
    procs,    \* procs[plugin]: the supervisor cached for it, 0 when none
    used,     \* used[h]: the supervisor h's request went to, 0 before
    spawned,  \* supervisors spawned so far
    quitStep, \* where shutdown_all is
    drained   \* supervisors it still has to shut down

previewVars == <<step, lock, waiters, procs, used, spawned, quitStep, drained>>
quitVars == <<quitStep, drained>>

PreviewInit ==
    /\ step = [h \in Hovers |-> "idle"]
    /\ lock = {}
    /\ waiters = <<>>
    /\ procs = [p \in Plugins |-> 0]
    /\ used = [h \in Hovers |-> 0]
    /\ spawned = 0
    /\ quitStep = "idle"
    /\ drained = {}

Cached(h) == procs[Target[h]] # 0

\* t's turn on the mutex.
Acquires(t) == lock = {} /\ waiters # <<>> /\ Head(waiters) = t

Moves(h, s) == step' = [step EXCEPT ![h] = s]

\* preview_for: the registry lookup, then ensure_spawned's lock.
Hover(h) ==
    /\ step[h] = "idle"
    /\ Moves(h, "ensure")
    /\ waiters' = Append(waiters, h)
    /\ UNCHANGED <<lock, procs, used, spawned, quitVars>>

\* ensure_spawned: a hit releases the lock, and request_preview queues for it
\* again; a miss keeps it across the spawn.
EnsurePlugin(h) ==
    /\ step[h] = "ensure"
    /\ Acquires(h)
    /\ \/ /\ Cached(h)
          /\ Moves(h, "request")
          /\ waiters' = Append(Tail(waiters), h)
          /\ UNCHANGED lock
       \/ /\ ~Cached(h)
          /\ Moves(h, "spawning")
          /\ lock' = lock \union {h}
          /\ waiters' = Tail(waiters)
    /\ UNCHANGED <<procs, used, spawned, quitVars>>

\* proc::spawn returns under the lock.
Spawned(h) ==
    /\ step[h] = "spawning"
    /\ lock' = lock \ {h}
    /\ \/ /\ spawned' = spawned + 1
          /\ procs' = [procs EXCEPT ![Target[h]] = spawned + 1]
          /\ Moves(h, "request")
          /\ waiters' = Append(waiters, h)
       \/ /\ Moves(h, "failed")
          /\ UNCHANGED <<procs, spawned, waiters>>
    /\ UNCHANGED <<used, quitVars>>

\* request_preview takes the lock again and keeps it across the await; the
\* supervisor may have been evicted in between.
SendRequest(h) ==
    /\ step[h] = "request"
    /\ Acquires(h)
    /\ waiters' = Tail(waiters)
    /\ \/ /\ Cached(h)
          /\ Moves(h, "awaiting")
          /\ lock' = lock \union {h}
          /\ used' = [used EXCEPT ![h] = procs[Target[h]]]
       \/ /\ ~Cached(h)
          /\ Moves(h, "failed")
          /\ UNCHANGED <<lock, used>>
    /\ UNCHANGED <<procs, spawned, quitVars>>

\* PluginProc::request returns a preview, or an RpcError: after it the lock is
\* taken once more for the eviction.
Returns(h) ==
    /\ step[h] = "awaiting"
    /\ lock' = lock \ {h}
    /\ \/ /\ Moves(h, "shown")
          /\ UNCHANGED waiters
       \/ /\ Moves(h, "evict")
          /\ waiters' = Append(waiters, h)
    /\ UNCHANGED <<procs, used, spawned, quitVars>>

\* Mutant: the failed supervisor stays in the cache.
EvictForgotten(h) ==
    /\ step[h] = "evict"
    /\ Acquires(h)
    /\ waiters' = Tail(waiters)
    /\ Moves(h, "failed")
    /\ UNCHANGED <<lock, procs, used, spawned, quitVars>>

\* procs.remove: whatever the plugin's entry is by now.
Evict(h) ==
    /\ step[h] = "evict"
    /\ Acquires(h)
    /\ waiters' = Tail(waiters)
    /\ procs' = [procs EXCEPT ![Target[h]] = 0]
    /\ Moves(h, "failed")
    /\ UNCHANGED <<lock, used, spawned, quitVars>>

\* shutdown_all, at most once (the application may close without it): wait for the lock, drain, shut them down one by one.
StartQuit ==
    /\ quitStep = "idle"
    /\ quitStep' = "lock"
    /\ waiters' = Append(waiters, Quit)
    /\ UNCHANGED <<step, lock, procs, used, spawned, drained>>

Drain ==
    /\ quitStep = "lock"
    /\ Acquires(Quit)
    /\ waiters' = Tail(waiters)
    /\ drained' = {procs[p] : p \in Plugins} \ {0}
    /\ procs' = [p \in Plugins |-> 0]
    /\ quitStep' = "stopping"
    /\ UNCHANGED <<step, lock, used, spawned>>

StopOne ==
    /\ quitStep = "stopping"
    /\ \/ \E n \in drained : drained' = drained \ {n} /\ UNCHANGED quitStep
       \/ drained = {} /\ quitStep' = "done" /\ UNCHANGED drained
    /\ UNCHANGED <<step, lock, waiters, procs, used, spawned>>

Proceeds(h) ==
    \/ EnsurePlugin(h)
    \/ Spawned(h)
    \/ SendRequest(h)
    \/ Target[h] \notin Hung /\ Returns(h)
    \/ Evict(h)

PreviewNext ==
    \/ \E h \in Hovers : Hover(h) \/ Proceeds(h)
    \/ StartQuit
    \/ Drain
    \/ StopOne

\* Tasks are scheduled; spawn and shutdown are bounded by their timeouts, and
\* a request returns unless its plugin is Hung.
PreviewFairness ==
    /\ \A h \in Hovers : WF_previewVars(Proceeds(h))
    /\ WF_previewVars(Drain \/ StopOne)

PreviewSpec == PreviewInit /\ [][PreviewNext]_previewVars /\ PreviewFairness

-----------------------------------------------------------------------------

Steps == {"idle", "ensure", "spawning", "request", "awaiting", "evict", "shown",
          "failed"}

\* Type invariant; the guard has one holder at most, and only supervisors that
\* were spawned are cached, used or shut down.
PreviewTypeOK ==
    /\ step \in [Hovers -> Steps]
    /\ lock \in SUBSET Hovers /\ Cardinality(lock) <= 1
    /\ waiters \in Seq(Hovers \union {Quit})
    /\ spawned \in Nat
    /\ procs \in [Plugins -> 0 .. spawned]
    /\ used \in [Hovers -> 0 .. spawned]
    /\ quitStep \in {"idle", "lock", "stopping", "done"}
    /\ drained \in SUBSET (1 .. spawned)

\* "On a plugin crash the supervisor is evicted from the cache" (preview_for):
\* a supervisor that failed a hover's request serves no later hover, whoever
\* spawns, evicts or shuts down meanwhile.
FailedIsEvicted ==
    \A h \in Hovers :
        step[h] = "failed" /\ used[h] # 0 => procs[Target[h]] # used[h]

\* "Two simultaneous hovers on different plugins don't serialise on the cache
\* mutex" (request_preview): hovers end, with a preview or an error, unless
\* their own plugin hangs: a time comes when no other is under way.  Every
\* hover happens once at most.
UnderWay(h) == Target[h] \notin Hung /\ step[h] \notin {"idle", "shown", "failed"}
HoverEnds == (\E h \in Hovers : UnderWay(h)) ~> (\A h \in Hovers : ~UnderWay(h))

=============================================================================
