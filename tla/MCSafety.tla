------------------------------ MODULE MCSafety ------------------------------
(* The cancellation registry, the scheduler, the worker process, the plugin *)
(* process and the stack of artifacts, which share no state, instantiated   *)
(* for TLC side by side: an initial state chooses one of them, and it runs  *)
(* alone.                                                                   *)
EXTENDS CancelRegistry, MCAiplaneScheduler, AiplaneWorker, PluginProc, StackStore, TLC

\* The scheduler's requests, the worker's runs, the stack's commands and three
\* of the registry's dispatches are the same model values: no definition
\* orders them.
Symmetry == Permutations(Requests)

\* Bound: the callers ask for a class that rejects on a full channel or for
\* the lowest one, which parks them.
AskedFor == class \in [Requests -> {"Interactive", "Batch"}]

VARIABLE component

Active(name) == component = name

\* Bound: commands go on after two have crossed only if all are pushes of
\* files. StackIsAsReported says nothing of them, and for PoolsAreCapped a
\* payload does not matter and the other commands only take items out.
PushesOfFiles ==
    \A c \in Commands : cmd[c].op \in {"none", "push"} /\ stored[c] # "blob"

StackBounded == StackNext /\ (crossed => PushesOfFiles /\ PushesOfFiles')

SafetyInit ==
    /\ component \in {"registry", "scheduler", "worker", "plugin", "stack"}
    /\ RegistryInit /\ Init /\ WorkerInit /\ ProcInit /\ StackInit

SafetyNext ==
    /\ UNCHANGED component
    /\ \/ /\ Active("registry") /\ RegistryNext
          /\ UNCHANGED <<vars, workerVars, pluginVars, stackVars>>
       \/ /\ Active("scheduler") /\ Next
          /\ AskedFor'
          /\ UNCHANGED <<registryVars, workerVars, pluginVars, stackVars>>
       \/ /\ Active("worker") /\ WorkerNext
          /\ UNCHANGED <<registryVars, vars, pluginVars, stackVars>>
       \/ /\ Active("plugin") /\ ProcNext
          /\ UNCHANGED <<registryVars, vars, workerVars, stackVars>>
       \/ /\ Active("stack") /\ StackBounded
          /\ UNCHANGED <<registryVars, vars, workerVars, pluginVars>>

SafetySpec ==
    /\ SafetyInit
    /\ [][SafetyNext]_<<component, registryVars, vars, workerVars, pluginVars, stackVars>>
=============================================================================
