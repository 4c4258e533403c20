----------------------------- MODULE MCDesktop -----------------------------
(* The file manager's operations, its previews, the authentication agent   *)
(* and the knowledge daemon, which share no state, instantiated for TLC    *)
(* side by side: an initial state chooses one of them, and it runs alone.  *)
EXTENDS MCFileOps, MCPluginBridge, PolkitAgent, MCKnowledgeDaemon

VARIABLE component

Active(name) == component = name

DesktopInit ==
    /\ component \in {"files", "previews", "polkit", "knowledge"}
    /\ OpsInit /\ PreviewInit /\ PolkitInit /\ KInit
    /\ ~Active("knowledge") => ~ready /\ ops = {}

DesktopNext ==
    \/ Active("files") /\ OpsNext /\ UNCHANGED <<component, previewVars, polkitVars, kVars>>
    \/ Active("previews") /\ PreviewNext /\ UNCHANGED <<component, opsVars, polkitVars, kVars>>
    \/ Active("polkit") /\ PolkitNext /\ UNCHANGED <<component, opsVars, previewVars, kVars>>
    \/ /\ Active("knowledge") /\ MCNext
       /\ UNCHANGED <<component, opsVars, previewVars, polkitVars>>

\* OpsFairness and KFairness, each for the component that runs.  What the
\* properties promise is nothing in the other one's initial states: no
\* operation has begun, and the knowledge daemon lacks its workers.
DesktopSpec ==
    /\ DesktopInit /\ [][DesktopNext]_<<component, opsVars, previewVars, polkitVars, kVars>>
    /\ SF_opsVars(Active("files") /\ \E s \in Sources : Executor(s))
    /\ WF_opsVars(Active("files") /\ Watcher)
    /\ WF_opsVars(Active("files") /\ Mover)
    /\ WF_kVars(Active("knowledge") /\ LoopStep)
    /\ WF_kVars(Active("knowledge") /\ PassStep)
    /\ WF_kVars(Active("knowledge") /\ IntervalElapses)
    /\ WF_kVars(Active("knowledge") /\ Recover)
=============================================================================
