------------------------ MODULE CancelRegistryProofs ------------------------
(***************************************************************************)
(* The registry's invariants for any number of ids and requests, any epoch *)
(* width and any recycling of ids.                                         *)
(***************************************************************************)
EXTENDS CancelRegistry, TLAPS

\* NoEntry is not an entry of any request.
LEMMA EntryIsNotNoEntry ==
    ASSUME NEW r \in Dispatches, NEW e
    PROVE  [owner |-> r, epoch |-> e] # NoEntry
BY NoRequestAssumption DEF NoEntry

\* NextEpoch stays within the epoch's width.
LEMMA NextEpochInRange ==
    ASSUME RegistryTypeOK, NEW id \in Ids
    PROVE  NextEpoch(id) \in Epochs
<1>1. CASE inner[id] = NoEntry
  BY <1>1, EpochModulusAssumption DEF NextEpoch, Epochs
<1>2. CASE inner[id] # NoEntry
  <2>1. inner[id].epoch \in Nat
    BY <1>2 DEF RegistryTypeOK, Epochs
  <2>2. (inner[id].epoch + 1) % EpochModulus \in 0 .. EpochModulus - 1
    BY <2>1, EpochModulusAssumption
  <2> QED BY <1>2, <2>2 DEF NextEpoch, Epochs
<1> QED BY <1>1, <1>2

\* The type invariant of the registry, its guards and dispatch outcomes.
THEOREM TypeCorrect == RegistrySpec => []RegistryTypeOK
<1>1. RegistryInit => RegistryTypeOK
  BY EpochModulusAssumption DEF RegistryInit, RegistryTypeOK, NoEntry, NoGuard, Epochs
<1>2. RegistryTypeOK /\ [RegistryNext]_registryVars => RegistryTypeOK'
  <2> SUFFICES ASSUME RegistryTypeOK, [RegistryNext]_registryVars
               PROVE  RegistryTypeOK'
    OBVIOUS
  <2>1. ASSUME NEW r \in Dispatches, NEW id \in Ids, Register(r, id)
        PROVE  RegistryTypeOK'
    <3>1. NextEpoch(id) \in Epochs
      BY NextEpochInRange
    <3> QED BY <2>1, <3>1 DEF RegistryTypeOK, Register
  <2>2. ASSUME NEW id \in Ids, Cancel(id)
        PROVE  RegistryTypeOK'
    BY <2>2 DEF RegistryTypeOK, Cancel, NoEntry
  <2>3. ASSUME NEW r \in Dispatches, Resolve(r)
        PROVE  RegistryTypeOK'
    BY <2>3 DEF RegistryTypeOK, Resolve, SelectOutcome
  <2>4. ASSUME NEW r \in Dispatches, Drop(r)
        PROVE  RegistryTypeOK'
    BY <2>4 DEF RegistryTypeOK, Drop
  <2>5. CASE UNCHANGED registryVars
    BY <2>5 DEF RegistryTypeOK, registryVars
  <2> QED BY <2>1, <2>2, <2>3, <2>4, <2>5 DEF RegistryNext
<1> QED BY <1>1, <1>2, PTL DEF RegistrySpec

\* No mapping of the registry outlives its request, whatever the order in
\* which guards are dropped and however the epochs wrap: the invariant needs
\* the equality of the entry's and the owner's epochs, which is what makes a
\* guard's own drop remove the entry it owns.
THEOREM NoMappingLeaks == RegistrySpec => []MappingOwnedByLiveGuard
<1>1. RegistryInit => MappingOwnedByLiveGuard
  BY DEF RegistryInit, MappingOwnedByLiveGuard
<1>2. RegistryTypeOK /\ MappingOwnedByLiveGuard /\ [RegistryNext]_registryVars
      => MappingOwnedByLiveGuard'
  <2> SUFFICES ASSUME RegistryTypeOK, MappingOwnedByLiveGuard, [RegistryNext]_registryVars,
                      NEW i \in Ids, inner'[i] # NoEntry
               PROVE  /\ Live(inner[i].owner)'
                      /\ guard'[inner'[i].owner].id = i
                      /\ guard'[inner'[i].owner].epoch = inner'[i].epoch
    BY DEF MappingOwnedByLiveGuard
  <2>1. ASSUME NEW r \in Dispatches, NEW id \in Ids, Register(r, id)
        PROVE  /\ Live(inner[i].owner)'
               /\ guard'[inner'[i].owner].id = i
               /\ guard'[inner'[i].owner].epoch = inner'[i].epoch
    <3>1. CASE i = id
      BY <2>1, <3>1 DEF RegistryTypeOK, Register, Live
    <3>2. CASE i # id
      <4>1. /\ inner'[i] = inner[i]
            /\ inner[i].owner \in Dispatches
            /\ Live(inner[i].owner)
            /\ guard[inner[i].owner].id = i
            /\ guard[inner[i].owner].epoch = inner[i].epoch
        BY <2>1, <3>2 DEF RegistryTypeOK, Register, MappingOwnedByLiveGuard
      <4>2. inner[i].owner # r
        BY <2>1, <4>1 DEF Register, Live
      <4> QED BY <2>1, <4>1, <4>2 DEF RegistryTypeOK, Register, Live
    <3> QED BY <3>1, <3>2
  <2>2. ASSUME NEW id \in Ids, Cancel(id)
        PROVE  /\ Live(inner[i].owner)'
               /\ guard'[inner'[i].owner].id = i
               /\ guard'[inner'[i].owner].epoch = inner'[i].epoch
    BY <2>2 DEF Cancel, MappingOwnedByLiveGuard, Live
  <2>3. ASSUME NEW r \in Dispatches, Resolve(r)
        PROVE  /\ Live(inner[i].owner)'
               /\ guard'[inner'[i].owner].id = i
               /\ guard'[inner'[i].owner].epoch = inner'[i].epoch
    BY <2>3 DEF RegistryTypeOK, Resolve, MappingOwnedByLiveGuard, Live
  <2>4. ASSUME NEW r \in Dispatches, Drop(r)
        PROVE  /\ Live(inner[i].owner)'
               /\ guard'[inner'[i].owner].id = i
               /\ guard'[inner'[i].owner].epoch = inner'[i].epoch
    <3>1. inner'[i] = inner[i]
      BY <2>4 DEF RegistryTypeOK, Drop
    <3>2. /\ inner[i].owner \in Dispatches
          /\ Live(inner[i].owner)
          /\ guard[inner[i].owner].id = i
          /\ guard[inner[i].owner].epoch = inner[i].epoch
      BY <3>1 DEF RegistryTypeOK, MappingOwnedByLiveGuard
    <3>3. inner[i].owner # r
      <4> SUFFICES ASSUME inner[i].owner = r
                   PROVE  FALSE
        OBVIOUS
      <4>1. SlotIsCurrent(r)
        BY <3>1, <3>2 DEF SlotIsCurrent
      <4> QED BY <2>4, <3>1, <3>2, <4>1 DEF Drop, RegistryTypeOK
    <3> QED BY <2>4, <3>1, <3>2, <3>3 DEF RegistryTypeOK, Drop, Live
  <2>5. CASE UNCHANGED registryVars
    BY <2>5 DEF registryVars, MappingOwnedByLiveGuard, Live
  <2> QED BY <2>1, <2>2, <2>3, <2>4, <2>5 DEF RegistryNext
<1> QED BY <1>1, <1>2, TypeCorrect, PTL DEF RegistrySpec

\* A request whose id nobody registers again while it lives can be cancelled
\* by id until its guard is dropped (Drop for CancelGuard).  The property is
\* inductive: two live guards of one id would both own its mapping, so that a
\* drop removes no entry but the dropped guard's own.
THEOREM LiveRequestsStayCancellable == RegistrySpec => []LiveGuardIsMapped
<1>1. RegistryInit => LiveGuardIsMapped
  BY DEF RegistryInit, LiveGuardIsMapped, Live
<1>2. RegistryTypeOK /\ LiveGuardIsMapped /\ [RegistryNext]_registryVars => LiveGuardIsMapped'
  <2> SUFFICES ASSUME RegistryTypeOK, LiveGuardIsMapped, [RegistryNext]_registryVars,
                      NEW r \in Dispatches, Live(r)', guard'[r].id \notin recycled'
               PROVE  inner'[guard'[r].id].owner = r
    BY DEF LiveGuardIsMapped
  <2>1. ASSUME NEW q \in Dispatches, NEW id \in Ids, Register(q, id)
        PROVE  inner'[guard'[r].id].owner = r
    <3>1. CASE r = q
      BY <2>1, <3>1 DEF RegistryTypeOK, Register
    <3>2. CASE r # q
      <4>1. Live(r) /\ guard'[r] = guard[r]
        BY <2>1, <3>2 DEF RegistryTypeOK, Register, Live
      <4>2. guard[r].id # id
        BY <2>1, <4>1 DEF Register
      <4>3. inner'[guard[r].id] = inner[guard[r].id]
        BY <2>1, <4>2 DEF RegistryTypeOK, Register
      <4> QED BY <2>1, <4>1, <4>3 DEF LiveGuardIsMapped, Register
    <3> QED BY <3>1, <3>2
  <2>2. ASSUME NEW id \in Ids, Cancel(id)
        PROVE  inner'[guard'[r].id].owner = r
    BY <2>2 DEF Cancel, LiveGuardIsMapped, Live
  <2>3. ASSUME NEW q \in Dispatches, Resolve(q)
        PROVE  inner'[guard'[r].id].owner = r
    BY <2>3 DEF RegistryTypeOK, Resolve, LiveGuardIsMapped, Live
  <2>4. ASSUME NEW q \in Dispatches, Drop(q)
        PROVE  inner'[guard'[r].id].owner = r
    <3>1. r # q /\ Live(r) /\ guard'[r] = guard[r] /\ Live(q)
      BY <2>4 DEF RegistryTypeOK, Drop, Live
    <3>2. inner[guard[r].id].owner = r /\ guard[r].id \notin recycled
      BY <2>4, <3>1 DEF LiveGuardIsMapped, Drop
    <3>3. guard[q].id # guard[r].id
      BY <3>1, <3>2 DEF LiveGuardIsMapped
    <3>4. inner'[guard[r].id] = inner[guard[r].id]
      BY <2>4, <3>3 DEF RegistryTypeOK, Drop
    <3> QED BY <3>1, <3>2, <3>4
  <2>5. CASE UNCHANGED registryVars
    BY <2>5 DEF registryVars, LiveGuardIsMapped, Live
  <2> QED BY <2>1, <2>2, <2>3, <2>4, <2>5 DEF RegistryNext
<1> QED BY <1>1, <1>2, TypeCorrect, PTL DEF RegistrySpec

\* What makes AckedCancelIsHonoured inductive: the token of an acknowledged
\* request is tripped, and an unresolved request has no outcome yet.
AckedIsTripped ==
    /\ \A r \in Dispatches : phase[r] \in {"new", "registered"} => outcome[r] = "none"
    /\ \A r \in acked :
          /\ phase[r] # "new"
          /\ guard[r].id \notin recycled => r \in cancelled /\ outcome[r] # "Completed"

\* A cancel that returned true while a request of that id was unresolved is
\* honoured (dispatch_with_cancel's biased select and its second look at
\* is_cancelled): the mapping, which is the live request's own, leads to its
\* token, and a tripped token decides the outcome.
THEOREM AckedCancelsAreHonoured == RegistrySpec => []AckedCancelIsHonoured
<1>1. RegistryInit => AckedIsTripped
  BY DEF RegistryInit, AckedIsTripped
<1>2. RegistryTypeOK /\ LiveGuardIsMapped /\ AckedIsTripped /\ [RegistryNext]_registryVars => AckedIsTripped'
  <2> SUFFICES ASSUME RegistryTypeOK, LiveGuardIsMapped, AckedIsTripped, [RegistryNext]_registryVars
               PROVE  AckedIsTripped'
    OBVIOUS
  <2>1. ASSUME NEW q \in Dispatches, NEW id \in Ids, Register(q, id)
        PROVE  AckedIsTripped'
    BY <2>1 DEF RegistryTypeOK, Register, AckedIsTripped
  <2>2. ASSUME NEW id \in Ids, Cancel(id)
        PROVE  AckedIsTripped'
    <3>1. \A r \in Dispatches :
             phase[r] = "registered" /\ guard[r].id = id /\ id \notin recycled
                => inner[id].owner = r
      BY DEF LiveGuardIsMapped, Live
    <3> QED BY <2>2, <3>1 DEF RegistryTypeOK, Cancel, AckedIsTripped
  <2>3. ASSUME NEW q \in Dispatches, Resolve(q)
        PROVE  AckedIsTripped'
    BY <2>3 DEF RegistryTypeOK, Resolve, SelectOutcome, AckedIsTripped
  <2>4. ASSUME NEW q \in Dispatches, Drop(q)
        PROVE  AckedIsTripped'
    BY <2>4 DEF RegistryTypeOK, Drop, Live, AckedIsTripped
  <2>5. CASE UNCHANGED registryVars
    BY <2>5 DEF registryVars, AckedIsTripped
  <2> QED BY <2>1, <2>2, <2>3, <2>4, <2>5 DEF RegistryNext
<1>3. AckedIsTripped => AckedCancelIsHonoured
  BY DEF AckedIsTripped, AckedCancelIsHonoured
<1> QED BY <1>1, <1>2, <1>3, TypeCorrect, LiveRequestsStayCancellable, PTL DEF RegistrySpec
=============================================================================
