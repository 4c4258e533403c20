--------------------------- MODULE CancelRegistry ---------------------------
(***************************************************************************)
(* The request_id -> CancellationToken map of the IPC layer                *)
(* (crates/sy-ipc/src/cancel.rs).  Every operation takes the registry's    *)
(* mutex, so each is one step; requests of different connections           *)
(* interleave between them.  A request stands for one call of register: it *)
(* owns one token and one guard, runs its worker under                     *)
(* dispatch_with_cancel, and drops the guard when the outcome is known.    *)
(***************************************************************************)
EXTENDS Naturals

CONSTANTS
    Ids,           \* request ids (ULIDs); clients choose their own
    Dispatches,    \* one per call of register
    EpochModulus,  \* 2^64 in the code: the epoch wraps (u64::wrapping_add)
    NoId, NoDispatch

ASSUME EpochModulusAssumption == EpochModulus \in Nat \ {0}
ASSUME NoIdAssumption == NoId \notin Ids
ASSUME NoRequestAssumption == NoDispatch \notin Dispatches

VARIABLES
    inner,     \* inner[id]: the mapped RegEntry (owner of its token, epoch)
    guard,     \* guard[r]: the CancelGuard's id and epoch
    phase,     \* phase[r]: "new", "registered", "resolved", "dropped"
    cancelled, \* the requests whose token is cancelled
    outcome,   \* outcome[r]: what dispatch_with_cancel returns
    acked,     \* requests unresolved when a cancel of their id returned true
    recycled   \* ids that were registered while a guard of theirs was live

registryVars == <<inner, guard, phase, cancelled, outcome, acked, recycled>>

NoEntry == [owner |-> NoDispatch, epoch |-> 0]
NoGuard == [id |-> NoId, epoch |-> 0]

Live(r) == phase[r] \in {"registered", "resolved"}

RegistryInit ==
    /\ inner = [i \in Ids |-> NoEntry]
    /\ guard = [r \in Dispatches |-> NoGuard]
    /\ phase = [r \in Dispatches |-> "new"]
    /\ cancelled = {}
    /\ outcome = [r \in Dispatches |-> "none"]
    /\ acked = {}
    /\ recycled = {}

\* One more than the mapped entry's epoch, or 0 when nothing is mapped.
NextEpoch(id) ==
    IF inner[id] = NoEntry THEN 0 ELSE (inner[id].epoch + 1) % EpochModulus

Register(r, id) ==
    /\ phase[r] = "new"
    /\ inner' = [inner EXCEPT ![id] = [owner |-> r, epoch |-> NextEpoch(id)]]
    /\ guard' = [guard EXCEPT ![r] = [id |-> id, epoch |-> NextEpoch(id)]]
    /\ phase' = [phase EXCEPT ![r] = "registered"]
    /\ recycled' = recycled \union
          {i \in {id} : \E q \in Dispatches : Live(q) /\ guard[q].id = i}
    /\ UNCHANGED <<cancelled, outcome, acked>>

\* Mutant: cancel takes the entry out of the map before cancelling it.
CancelTakesEntry(id) ==
    /\ inner[id] # NoEntry
    /\ inner' = [inner EXCEPT ![id] = NoEntry]
    /\ cancelled' = cancelled \union {inner[id].owner}
    /\ acked' = acked \union
          {r \in Dispatches : phase[r] = "registered" /\ guard[r].id = id}
    /\ UNCHANGED <<guard, phase, outcome, recycled>>

\* cancel(id) that returns true; with nothing mapped it returns false and
\* changes nothing.
Cancel(id) ==
    /\ inner[id] # NoEntry
    /\ cancelled' = cancelled \union {inner[id].owner}
    /\ acked' = acked \union
          {r \in Dispatches : phase[r] = "registered" /\ guard[r].id = id}
    /\ UNCHANGED <<inner, guard, phase, outcome, recycled>>

\* Mutant: a select that is not biased and does not read is_cancelled again.
SelectOutcomeWorkerFirst(r) == "Completed"

\* The select of dispatch_with_cancel resolves: on the token, or on the
\* worker's result, after which is_cancelled is read once more.
SelectOutcome(r) == IF r \in cancelled THEN "Cancelled" ELSE "Completed"

Resolve(r) ==
    /\ phase[r] = "registered"
    /\ phase' = [phase EXCEPT ![r] = "resolved"]
    /\ outcome' = [outcome EXCEPT ![r] = SelectOutcome(r)]
    /\ UNCHANGED <<inner, guard, cancelled, acked, recycled>>

\* Mutant: the guard removes an entry older than itself.
SlotIsCurrentNewer(r) ==
    /\ inner[guard[r].id] # NoEntry
    /\ inner[guard[r].id].epoch < guard[r].epoch

\* The mapping is the guard's own when the epochs agree.
SlotIsCurrent(r) ==
    /\ inner[guard[r].id] # NoEntry
    /\ inner[guard[r].id].epoch = guard[r].epoch

\* Drop for CancelGuard, at the end of dispatch_with_cancel or when the
\* future that holds the guard is itself dropped before it resolves.
Drop(r) ==
    /\ Live(r)
    /\ inner' = IF SlotIsCurrent(r)
                THEN [inner EXCEPT ![guard[r].id] = NoEntry]
                ELSE inner
    /\ phase' = [phase EXCEPT ![r] = "dropped"]
    /\ UNCHANGED <<guard, cancelled, outcome, acked, recycled>>

RegistryNext ==
    \/ \E r \in Dispatches, id \in Ids : Register(r, id)
    \/ \E id \in Ids : Cancel(id)
    \/ \E r \in Dispatches : Resolve(r)
    \/ \E r \in Dispatches : Drop(r)

RegistrySpec == RegistryInit /\ [][RegistryNext]_registryVars

Epochs == 0 .. EpochModulus - 1

\* Type invariant: the registry's map, the guards and the dispatch outcomes.
RegistryTypeOK ==
    /\ inner \in [Ids -> [owner : Dispatches, epoch : Epochs] \union {NoEntry}]
    /\ guard \in [Dispatches -> [id : Ids, epoch : Epochs] \union {NoGuard}]
    /\ phase \in [Dispatches -> {"new", "registered", "resolved", "dropped"}]
    /\ cancelled \in SUBSET Dispatches
    /\ outcome \in [Dispatches -> {"none", "Completed", "Cancelled"}]
    /\ acked \in SUBSET Dispatches
    /\ recycled \in SUBSET Ids

\* No mapping leaks: whatever the order in which guards of recycled ids are
\* dropped, and even when an epoch wraps, the mapped token belongs to a
\* request whose guard is not yet dropped (Drop for CancelGuard removes it).
MappingOwnedByLiveGuard ==
    \A id \in Ids : inner[id] # NoEntry =>
        /\ Live(inner[id].owner)
        /\ guard[inner[id].owner].id = id
        /\ guard[inner[id].owner].epoch = inner[id].epoch

\* A live request can be cancelled: its guard's existence is the proof that
\* its mapping is in place (cancel.rs module comment), unless its id was
\* registered again while a guard of it was live.
LiveGuardIsMapped ==
    \A r \in Dispatches :
        Live(r) /\ guard[r].id \notin recycled => inner[guard[r].id].owner = r

\* A cancel of an id that returned true while a request of that id was
\* unresolved is honoured: the request never resolves as Completed, also
\* when the worker's result was ready on the same poll.  An id shared by
\* live requests is excepted: only the last of them has the mapping.
AckedCancelIsHonoured ==
    \A r \in acked : guard[r].id \notin recycled => outcome[r] # "Completed"
=============================================================================
