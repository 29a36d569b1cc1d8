-------------------------- MODULE RefinementProofs --------------------------
(***************************************************************************)
(* What the steps of the admission queue promise, for every set of         *)
(* requests, every number of slots, capacity, policy and set of closing    *)
(* tasks: requests are sent one at a time and never after aclose, and the  *)
(* queue implements its contract. With the adaptive controller inside its  *)
(* loop it behaves as it does without, the controller as its own           *)
(* specification says, and the depth that passes between them is right.    *)
(***************************************************************************)
EXTENDS QueueRefinesContract, AdaptiveAdmission, AdmissionQueueProofs

-----------------------------------------------------------------------------
(* The steps that send requests to the backend.                            *)

\* The admission loop takes what it sends from the waiting list and leaves what
\* was in flight in flight.
LEMMA AdmitShape ==
    ASSUME NEW w \in SUBSET Reqs,
           NEW s \in [Reqs -> EntryStates], NEW a, NEW tm, NEW rn,
           \A r \in w : s[r] = "waiting",
           AdmitAvailable(w, s, a, tm, rn),
           Cardinality(InFlight(s)) <= MaxInFlight
    PROVE  InFlight(s) \subseteq InFlight(st') /\ InFlight(st') \subseteq InFlight(s) \cup w
<1>1. PICK late, sent \in SUBSET Reqs :
         AdmitEffect(w, s, a, tm, rn, late, sent) /\ late \subseteq w /\ sent \subseteq w
  BY AdmitLemma
<1>. QED  BY <1>1 DEF AdmitEffect, InFlight

\* What a step may do to the requests in flight: at most one gives its slot
\* back, and a slot goes to requests that were waiting or, while the queue is
\* open, to the one that is just being submitted.
DispatchShape(r) ==
    /\ InFlight(st) \ InFlight(st') \subseteq {r}
    /\ InFlight(st') \ InFlight(st) \subseteq waiting \cup {r}
    /\ mode # "open" => InFlight(st') \ InFlight(st) \subseteq waiting

LEMMA DispatchStep ==
    ASSUME QueueInv, [Next]_vars
    PROVE  \E r : DispatchShape(r)
<1>0. TypeOK
  BY DEF QueueInv
<1>1. ASSUME st' = st PROVE \A r : DispatchShape(r)
  BY <1>1 DEF DispatchShape
<1>2. ASSUME NEW S, NEW r, st' = [q \in Reqs |-> IF q \in S THEN "done" ELSE st[q]],
             \A q \in S : st[q] # "in_flight"
      PROVE  DispatchShape(r)
  BY <1>0, <1>2 DEF DispatchShape, InFlight, TypeOK
<1>3. ASSUME NEW r \in Reqs, CallerStep(r) PROVE DispatchShape(r)
  <2>1. CASE UNCHANGED st
    BY <1>1, <2>1
  <2>2. CASE CancelWaiting(r)
    BY <1>0, <1>2, <2>2 DEF CancelWaiting, TypeOK, DispatchShape, InFlight
  <2>3. CASE Accept(r)
    <3>. DEFINE s == [st EXCEPT ![r] = "waiting"]
    <3>1. /\ AdmitAvailable(waiting \cup {r}, s, result,
                            [timer EXCEPT ![r] = "new"], runner)
          /\ mode = "open" /\ st[r] = "none"
      BY <2>3 DEF Accept, Accepting, QueueInv, CallersMatch
    <3>2. /\ s \in [Reqs -> EntryStates] /\ waiting \cup {r} \in SUBSET Reqs
          /\ \A q \in waiting \cup {r} : s[q] = "waiting"
          /\ InFlight(s) = InFlight(st)
      BY <1>0, <3>1 DEF QueueInv, TypeOK, IndexConsistent, EntryStates, InFlight
    <3>3. Cardinality(InFlight(s)) <= MaxInFlight
      BY <3>2 DEF QueueInv, SlotsBounded
    <3>4. /\ InFlight(s) \subseteq InFlight(st')
          /\ InFlight(st') \subseteq InFlight(s) \cup (waiting \cup {r})
      BY <3>1, <3>2, <3>3, AdmitShape
    <3>. QED  BY <3>1, <3>2, <3>4 DEF DispatchShape
  <2>. QED  BY <1>3, <2>1, <2>2, <2>3
            DEF CallerStep, Reject, CancelCaller, CallerResumes, CallerReturns,
                CancelInFlight, CancelDone, CallerDrained, CallerGoes, entryVars
<1>4. ASSUME NEW r \in Reqs, TimerResumes(r) PROVE DispatchShape(r)
  <2>1. CASE UNCHANGED st
    BY <1>1, <2>1
  <2>2. CASE TimeoutWaiting(r)
    BY <1>0, <2>2 DEF TimeoutWaiting, TypeOK, DispatchShape, InFlight
  <2>. QED  BY <1>4, <2>1, <2>2
            DEF TimerResumes, TimerSleeps, TimeoutInFlight, TimerEnds, TimerGoes,
                entryVars
<1>5. ASSUME NEW r \in Reqs, BackendStep(r) PROVE DispatchShape(r)
  BY <1>1, <1>5 DEF BackendStep, BackendStarts, BackendEnds,
     CancelledBackendEnds, BackendGoes, entryVars
<1>6. ASSUME NEW r \in Reqs, RunnerResumes(r) PROVE DispatchShape(r)
  <2>1. CASE UNCHANGED st
    BY <1>1, <2>1
  <2>2. ASSUME NEW x, NEW end, RunnerCompletes(r, x, end),
               st[r] = "in_flight"
        PROVE  DispatchShape(r)
    <3>. DEFINE s == [st EXCEPT ![r] = "done"]
    <3>1. \E a, tm, rn : AdmitAvailable(waiting, s, a, tm, rn)
      BY <2>2 DEF RunnerCompletes
    <3>2. /\ s \in [Reqs -> EntryStates] /\ waiting \in SUBSET Reqs
          /\ \A q \in waiting : s[q] = "waiting"
          /\ InFlight(s) = InFlight(st) \ {r}
      BY <1>0, <2>2 DEF QueueInv, TypeOK, IndexConsistent, EntryStates, InFlight
    <3>3. Cardinality(InFlight(s)) <= MaxInFlight
      <4>1. InFlight(st) \in SUBSET Reqs /\ InFlight(s) \in SUBSET InFlight(st)
        BY <3>2 DEF InFlight
      <4>2. Cardinality(InFlight(s)) <= Cardinality(InFlight(st))
            /\ Cardinality(InFlight(s)) \in Nat /\ Cardinality(InFlight(st)) \in Nat
        BY <4>1, FiniteReqs
      <4>. QED  BY <4>2, ConstantsAssumption DEF QueueInv, SlotsBounded
    <3>4. /\ InFlight(s) \subseteq InFlight(st')
          /\ InFlight(st') \subseteq InFlight(s) \cup waiting
      BY <3>1, <3>2, <3>3, AdmitShape
    <3>. QED  BY <3>2, <3>4 DEF DispatchShape
  <2>3. CASE RunnerFinishes(r)
    <3>1. \E x, end : RunnerCompletes(r, x, end)
      BY <2>3 DEF RunnerFinishes, BackendAnswered, BackendStatus
    <3>2. st[r] = "in_flight"
      BY <2>3 DEF RunnerFinishes, BackendAnswered, BackendStatus, QueueInv, TasksHoldSlot
    <3>. QED  BY <2>2, <3>1, <3>2
  <2>4. CASE RunnerDrained(r)
    BY <2>2, <2>4 DEF RunnerDrained, QueueInv, TasksHoldSlot
  <2>. QED  BY <1>6, <2>1, <2>3, <2>4
            DEF RunnerResumes, RunnerAwaits, RunnerDrains, RunnerDies, RunnerGoes,
                entryVars
<1>7. ASSUME NEW c \in Closers, CloserStep(c) PROVE DispatchShape(c)
  <2>1. CASE UNCHANGED st
    BY <1>1, <2>1
  <2>2. CASE Close(c)
    <3>1. \A q \in waiting : st[q] # "in_flight"
      BY <1>0 DEF QueueInv, IndexConsistent, TypeOK
    <3>. QED  BY <1>2, <2>2, <3>1 DEF Close
  <2>. QED  BY <1>7, <2>1, <2>2
            DEF CloserStep, CloseIdle, CancelCloser, CloserJoins, CloserRaises,
                entryVars
<1>8. ASSUME Start \/ Tick \/ UNCHANGED vars PROVE \E r : DispatchShape(r)
  BY <1>1, <1>8 DEF Start, Tick, vars, entryVars
<1>. QED  BY <1>3, <1>4, <1>5, <1>6, <1>7, <1>8 DEF Next

-----------------------------------------------------------------------------
\* A step starts at most one request: if requests waited, every slot was taken
\* and at most one was given back; if none waited, only the request that is
\* being submitted can start.
LEMMA OneDispatch ==
    ASSUME QueueInv, [Next]_vars
    PROVE  Cardinality(InFlight(st') \ InFlight(st)) <= 1
<1>1. PICK r : DispatchShape(r)
  BY DispatchStep
<1>2. QueueInv'
  BY QueueStep
<1>. DEFINE old == InFlight(st)
            new == InFlight(st')
<1>3. old \in SUBSET Reqs /\ new \in SUBSET Reqs /\ waiting \in SUBSET Reqs
  BY DEF InFlight, QueueInv, TypeOK
<1>4. /\ Cardinality(new) <= MaxInFlight
      /\ waiting # {} => Cardinality(old) = MaxInFlight
  BY <1>2 DEF QueueInv, SlotsBounded, WorkConserving
<1>5. old \ new \subseteq {r} /\ new \ old \subseteq waiting \cup {r}
  BY <1>1 DEF DispatchShape
<1>. SUFFICES Cardinality(new \ old) <= 1
  OBVIOUS
<1>. HIDE DEF old, new
<1>6. \A S \in SUBSET {r} : Cardinality(S) <= 1 /\ Cardinality(S) \in Nat
  <2>1. IsFiniteSet({r}) /\ Cardinality({r}) = 1
    BY FS_Singleton
  <2>. QED  BY <2>1, FS_Subset, FS_CardinalityType
<1>7. CASE waiting = {}
  BY <1>5, <1>6, <1>7
<1>8. CASE waiting # {}
  <2>1. IsFiniteSet(old) /\ IsFiniteSet(new)
    BY <1>3, FiniteReqs
  <2>2. Cardinality(new \ old) = Cardinality(new) - Cardinality(new \cap old)
    BY <2>1, FS_Difference
  <2>3. Cardinality(old \ new) = Cardinality(old) - Cardinality(old \cap new)
    BY <2>1, FS_Difference
  <2>4. old \cap new = new \cap old
    OBVIOUS
  <2>5. Cardinality(old \ new) <= 1
    BY <1>5, <1>6
  <2>6. /\ Cardinality(old) \in Nat /\ Cardinality(new) \in Nat
        /\ Cardinality(old \cap new) \in Nat /\ Cardinality(old \ new) \in Nat
    <3>1. old \cap new \in SUBSET Reqs /\ old \ new \in SUBSET Reqs
      BY <1>3
    <3>. QED  BY <1>3, <3>1, FiniteReqs
  <2>. QED  BY <1>4, <1>8, <2>2, <2>3, <2>4, <2>5, <2>6, ConstantsAssumption
<1>. QED  BY <1>7, <1>8

\* A step of a task starts at most one request (admission.py:220-271), for any
\* number of slots, any capacity and any policy.
THEOREM DispatchesOneByOne == Spec => OneDispatchPerStep
<1>1. QueueInv /\ [Next]_vars =>
        [Cardinality(InFlight(st') \ InFlight(st)) <= 1]_vars
  BY OneDispatch
<1>. QED  BY <1>1, QueueInvariant, PTL DEF Spec, OneDispatchPerStep

\* Nothing is sent to the backend once aclose has been called, even if acloses
\* are cancelled half-way and runners complete after them.
THEOREM ClosedGateHolds == Spec => NoDispatchAfterClose
<1>1. ASSUME QueueInv, [Next]_vars
      PROVE  [mode # "open" => InFlight(st') \subseteq InFlight(st)]_vars
  <2>1. PICK r : DispatchShape(r)
    BY <1>1, DispatchStep
  <2>2. mode # "open" => waiting = {}
    BY <1>1 DEF QueueInv, WaitingOnlyOpen
  <2>. QED  BY <2>1, <2>2 DEF DispatchShape
<1>. QED  BY <1>1, QueueInvariant, PTL DEF Spec, NoDispatchAfterClose

-----------------------------------------------------------------------------
(* The contract.                                                           *)

\* The contract counts as the queue does.
LEMMA ContractCounts == \A S : Contract!Cardinality(S) = Cardinality(S)
BY DEF Contract!Cardinality, Cardinality

\* What the contract sees of the queue.
LEMMA ContractView ==
    ASSUME TypeOK, IndexConsistent
    PROVE  /\ Contract!In("waiting") = waiting
           /\ Contract!In("serving") = InFlight(st)
           /\ \A r \in Reqs : /\ (ContractPhase[r] = "new") <=> (st[r] = "none")
                              /\ (ContractPhase[r] = "serving") <=> (st[r] = "in_flight")
BY DEF TypeOK, IndexConsistent, EntryStates, ContractPhase, Contract!In, InFlight

\* A step that leaves the phases and the answers alone changes at most the gate.
LEMMA SilentStep ==
    ASSUME UNCHANGED <<st, result>>, ContractGate' = ContractGate
    PROVE  UNCHANGED Contract!vars
BY DEF Contract!vars, ContractPhase

\* The admission loop settles the waiting list w as the contract says, when the
\* requests of `over' give back their slots.
LEMMA AdmitSettles ==
    ASSUME QueueInv, QueueInv',
           NEW over \in SUBSET InFlight(st), NEW w \in SUBSET Reqs,
           NEW s \in [Reqs -> EntryStates], NEW a, NEW tm, NEW rn,
           AdmitAvailable(w, s, a, tm, rn),
           w \cap InFlight(st) = {},
           \A r \in Reqs : s[r] = IF r \in w THEN "waiting"
                                  ELSE IF r \in over THEN "done" ELSE st[r],
           NEW f \in [over -> {"SUCCESS", "ERROR", "TIMEOUT", "CANCELLED"}],
           \A r \in Reqs : a[r] = IF r \in over THEN f[r] ELSE result[r],
           Cardinality(InFlight(s)) <= MaxInFlight,
           mode = "closing" => w = {}
    PROVE  \E late, start \in SUBSET w : Contract!Settle(w, over, late, start)
<1>0. \A r \in w : s[r] = "waiting"
  OBVIOUS
<1>1. PICK late, sent \in SUBSET Reqs :
              /\ AdmitEffect(w, s, a, tm, rn, late, sent)
              /\ late \subseteq w /\ sent \subseteq w /\ late \cap sent = {}
              /\ Cardinality(InFlight(st')) <= MaxInFlight
              /\ \/ mode = "closing" \/ waiting' = {}
                 \/ Cardinality(InFlight(st')) = MaxInFlight
  BY <1>0, AdmitLemma
<1>. DEFINE left == w \ (late \cup sent)
            busy == (Contract!In("serving") \ over) \cup sent
<1>2. left = waiting' /\ busy = InFlight(st')
  <2>1. Contract!In("serving") = InFlight(st)
    BY ContractView DEF QueueInv
  <2>. QED  BY <1>1, <2>1 DEF AdmitEffect, InFlight
<1>3. Cardinality(busy) <= MaxInFlight
  BY <1>1, <1>2
<1>4. left # {} => Cardinality(busy) = MaxInFlight
  BY <1>1, <1>2
<1>5. ContractPhase' = [r \in Reqs |-> CASE r \in left -> "waiting"
                                         [] r \in sent -> "serving"
                                         [] r \in late \cup over -> "done"
                                         [] OTHER -> ContractPhase[r]]
  <2>1. \A r \in Reqs : st'[r] = IF r \in late THEN "done" ELSE
                                 IF r \in sent THEN "in_flight" ELSE s[r]
    BY <1>1 DEF AdmitEffect
  <2>2. \A r \in Reqs : ContractPhase'[r] = CASE r \in left -> "waiting"
                                         [] r \in sent -> "serving"
                                         [] r \in late \cup over -> "done"
                                         [] OTHER -> ContractPhase[r]
    <3>. SUFFICES ASSUME NEW r \in Reqs
         PROVE ContractPhase'[r] = CASE r \in left -> "waiting"
                                         [] r \in sent -> "serving"
                                         [] r \in late \cup over -> "done"
                                         [] OTHER -> ContractPhase[r]
      OBVIOUS
    <3>1. CASE r \in sent
      BY <1>1, <2>1, <3>1 DEF ContractPhase, InFlight
    <3>2. CASE r \in late
      BY <1>1, <2>1, <3>2 DEF ContractPhase, InFlight
    <3>3. CASE r \in left
      BY <1>1, <2>1, <3>3 DEF ContractPhase, InFlight
    <3>4. CASE r \in over
      BY <1>1, <2>1, <3>4 DEF ContractPhase, InFlight
    <3>5. CASE r \notin w /\ r \notin over
      BY <1>1, <2>1, <3>5 DEF ContractPhase, InFlight
    <3>. QED  BY <3>1, <3>2, <3>3, <3>4, <3>5
  <2>. QED  BY <2>2 DEF ContractPhase
<1>6. result' = [r \in Reqs |-> CASE r \in over -> f[r]
                                  [] r \in late -> "TIMEOUT"
                                  [] OTHER -> result[r]]
  <2>1. late \cap over = {}
    BY <1>1
  <2>2. result' = [r \in Reqs |-> IF r \in late THEN "TIMEOUT" ELSE a[r]]
    BY <1>1 DEF AdmitEffect
  <2>. QED  BY <2>1, <2>2
<1>. HIDE DEF left, busy
<1>7. Contract!Settle(w, over, late, sent)
  <2>1. \E g \in [over -> {"SUCCESS", "ERROR", "TIMEOUT", "CANCELLED"}] :
           result' = [r \in Reqs |-> CASE r \in over -> g[r]
                                       [] r \in late -> "TIMEOUT"
                                       [] OTHER -> result[r]]
    BY <1>6
  <2>. QED  BY <1>1, <1>3, <1>4, <1>5, <2>1, ContractCounts
          DEF Contract!Settle, left, busy
<1>. QED  BY <1>1, <1>7

-----------------------------------------------------------------------------
\* Whatever a task of the queue does is a step of the contract, or none.
LEMMA ContractStep ==
    ASSUME QueueInv, [Next]_vars
    PROVE  [Contract!Next]_(Contract!vars)
<1>0. TypeOK /\ IndexConsistent /\ QueueInv'
  BY QueueStep DEF QueueInv
<1>. DEFINE Claim == Contract!Next \/ UNCHANGED Contract!vars
<1>. SUFFICES Claim
  OBVIOUS
<1>1. ASSUME UNCHANGED <<st, result, mode>> PROVE Claim
  BY <1>1, SilentStep DEF ContractGate
<1>2. ASSUME NEW r \in Reqs, st[r] = "waiting",
             st' = [st EXCEPT ![r] = "done"],
             NEW status \in {"TIMEOUT", "CANCELLED"},
             result' = [result EXCEPT ![r] = status], mode' = mode
      PROVE  Claim
  <2>1. r \in Contract!In("waiting")
    BY <1>0, <1>2, ContractView DEF IndexConsistent
  <2>2. Contract!Drop({r}, status)
    BY <1>0, <1>2 DEF Contract!Drop, ContractPhase, TypeOK
  <2>. QED  BY <1>2, <2>1, <2>2 DEF Contract!Next, Contract!GiveUp, ContractGate
<1>3. ASSUME NEW r \in Reqs, CallerStep(r) PROVE Claim
  <2>1. CASE UNCHANGED <<st, result, mode>>
    BY <1>1, <2>1
  <2>2. CASE CancelWaiting(r)
    BY <1>2, <2>2 DEF CancelWaiting
  <2>3. CASE Accept(r)
    <3>. DEFINE w == waiting \cup {r}
                s == [st EXCEPT ![r] = "waiting"]
                f == [q \in {} |-> "SUCCESS"]
    <3>1. /\ AdmitAvailable(w, s, result, [timer EXCEPT ![r] = "new"], runner)
          /\ mode = "open" /\ mode' = mode /\ st[r] = "none"
          /\ Cardinality(waiting) < Capacity
      BY <1>0, <2>3, ConstantsAssumption, FiniteReqs
         DEF Accept, Accepting, QueueFull, QueueInv, CallersMatch, TypeOK
    <3>2. /\ w \in SUBSET Reqs /\ s \in [Reqs -> EntryStates]
          /\ w \cap InFlight(st) = {} /\ InFlight(s) = InFlight(st)
          /\ \A q \in Reqs : s[q] = IF q \in w THEN "waiting"
                                    ELSE IF q \in {} THEN "done" ELSE st[q]
      BY <1>0, <3>1 DEF TypeOK, IndexConsistent, EntryStates, InFlight
    <3>3. \A q \in Reqs : result[q] = IF q \in {} THEN f[q] ELSE result[q]
      OBVIOUS
    <3>4. Cardinality(InFlight(s)) <= MaxInFlight
      BY <3>2 DEF QueueInv, SlotsBounded
    <3>5. f \in [{} -> {"SUCCESS", "ERROR", "TIMEOUT", "CANCELLED"}]
      OBVIOUS
    <3>6. \E late, start \in SUBSET w : Contract!Settle(w, {}, late, start)
      <4>. HIDE DEF w, s, f
      <4>1. {} \in SUBSET InFlight(st) /\ (mode = "closing" => w = {})
        BY <3>1
      <4>. QED  BY <1>0, <3>1, <3>2, <3>3, <3>4, <3>5, <4>1, AdmitSettles
    <3>7. Contract!In("waiting") = waiting /\ ContractPhase[r] = "new"
      BY <1>0, <3>1, ContractView
    <3>8. Contract!Accept(r)
      BY <3>1, <3>6, <3>7, ContractCounts DEF Contract!Accept, ContractGate
    <3>. QED  BY <3>8 DEF Contract!Next
  <2>. QED  BY <1>3, <2>1, <2>2, <2>3
            DEF CallerStep, Reject, CancelCaller, CallerResumes, CallerReturns,
                CancelInFlight, CancelDone, CallerDrained, CallerGoes, entryVars
<1>4. ASSUME NEW r \in Reqs, TimerResumes(r) PROVE Claim
  <2>1. CASE UNCHANGED <<st, result, mode>>
    BY <1>1, <2>1
  <2>2. CASE TimeoutWaiting(r)
    BY <1>2, <2>2 DEF TimeoutWaiting
  <2>. QED  BY <1>4, <2>1, <2>2
            DEF TimerResumes, TimerSleeps, TimeoutInFlight, TimerEnds, TimerGoes,
                entryVars
<1>5. ASSUME NEW r \in Reqs, BackendStep(r) PROVE Claim
  BY <1>1, <1>5 DEF BackendStep, BackendStarts, BackendEnds,
     CancelledBackendEnds, BackendGoes, entryVars
<1>6. ASSUME NEW r \in Reqs, RunnerResumes(r) PROVE Claim
  <2>1. CASE UNCHANGED <<st, result, mode>>
    BY <1>1, <2>1
  <2>2. ASSUME NEW x \in {"SUCCESS", "ERROR", "CANCELLED"}, NEW end,
               RunnerCompletes(r, x, end), st[r] = "in_flight"
        PROVE  Claim
    <3>. DEFINE s == [st EXCEPT ![r] = "done"]
                f == [q \in {r} |-> FinalStatus(q, x)]
                a == [result EXCEPT ![r] = FinalStatus(r, x)]
    <3>1. \E tm, rn : AdmitAvailable(waiting, s, a, tm, rn)
      BY <2>2 DEF RunnerCompletes
    <3>2. mode' = mode /\ (mode # "open" => waiting = {})
      BY <2>2 DEF RunnerCompletes, QueueInv, WaitingOnlyOpen
    <3>3. /\ waiting \in SUBSET Reqs /\ s \in [Reqs -> EntryStates]
          /\ waiting \cap InFlight(st) = {} /\ InFlight(s) = InFlight(st) \ {r}
          /\ \A q \in Reqs : s[q] = IF q \in waiting THEN "waiting"
                                    ELSE IF q \in {r} THEN "done" ELSE st[q]
      BY <1>0, <2>2 DEF TypeOK, IndexConsistent, EntryStates, InFlight
    <3>4. \A q \in Reqs : a[q] = IF q \in {r} THEN f[q] ELSE result[q]
      BY <1>0 DEF TypeOK
    <3>5. f \in [{r} -> {"SUCCESS", "ERROR", "TIMEOUT", "CANCELLED"}]
      BY <1>0, <2>2 DEF TypeOK, ForcedStatuses, FinalStatus
    <3>6. Cardinality(InFlight(s)) <= MaxInFlight
      <4>1. InFlight(st) \in SUBSET Reqs /\ InFlight(s) \in SUBSET InFlight(st)
        BY <3>3 DEF InFlight
      <4>2. Cardinality(InFlight(s)) <= Cardinality(InFlight(st))
            /\ Cardinality(InFlight(s)) \in Nat /\ Cardinality(InFlight(st)) \in Nat
        BY <4>1, FiniteReqs
      <4>. QED  BY <4>2, ConstantsAssumption DEF QueueInv, SlotsBounded
    <3>7. r \in InFlight(st)
      BY <2>2 DEF InFlight
    <3>8. \E late, start \in SUBSET waiting : Contract!Settle(waiting, {r}, late, start)
      <4>. HIDE DEF s, f, a
      <4>1. {r} \in SUBSET InFlight(st) /\ (mode = "closing" => waiting = {})
        BY <3>2, <3>7
      <4>. QED  BY <1>0, <3>1, <3>3, <3>4, <3>5, <3>6, <4>1, AdmitSettles
    <3>9. Contract!In("waiting") = waiting /\ ContractPhase[r] = "serving"
      BY <1>0, <2>2, ContractView
    <3>10. ContractGate' = ContractGate /\ (ContractGate = "shut" => waiting = {})
      BY <3>2 DEF ContractGate
    <3>. QED  BY <3>8, <3>9, <3>10 DEF Contract!Next, Contract!Finish
  <2>3. CASE RunnerFinishes(r)
    <3>1. \E x \in {"SUCCESS", "ERROR", "CANCELLED"} : \E end : RunnerCompletes(r, x, end)
      BY <2>3 DEF RunnerFinishes, BackendAnswered, BackendStatus
    <3>2. st[r] = "in_flight"
      BY <2>3 DEF RunnerFinishes, BackendAnswered, BackendStatus, QueueInv, TasksHoldSlot
    <3>. QED  BY <2>2, <3>1, <3>2
  <2>4. CASE RunnerDrained(r)
    BY <2>2, <2>4 DEF RunnerDrained, QueueInv, TasksHoldSlot
  <2>. QED  BY <1>6, <2>1, <2>3, <2>4
            DEF RunnerResumes, RunnerAwaits, RunnerDrains, RunnerDies, RunnerGoes,
                entryVars
<1>7. ASSUME NEW c \in Closers, CloserStep(c) PROVE Claim
  <2>1. CASE CancelCloser(c)
    BY <1>1, <2>1 DEF CancelCloser, entryVars
  <2>2. CASE Close(c)
    <3>1. mode' \in {"closing", "closed"}
      BY <2>2 DEF Close, JoinTimers, Ends
    <3>2. Contract!Drop(waiting, "CANCELLED")
      BY <1>0, <2>2 DEF Close, Contract!Drop, ContractPhase, TypeOK
    <3>. QED  BY <1>0, <3>1, <3>2, ContractView
              DEF Contract!Next, Contract!Shut, ContractGate
  <2>3. CASE CloseIdle(c)
    <3>1. waiting = {}
      BY <2>3 DEF CloseIdle, QueueInv, WaitingOnlyOpen
    <3>2. Contract!Drop({}, "CANCELLED")
      BY <1>0, <2>3 DEF CloseIdle, Contract!Drop, ContractPhase, TypeOK, entryVars
    <3>. QED  BY <1>0, <2>3, <3>1, <3>2, ContractView
              DEF CloseIdle, Contract!Next, Contract!Shut, ContractGate
  <2>4. CASE CloserJoins(c) \/ CloserRaises(c)
    <3>1. closer[c] # "idle"
      BY <2>4 DEF CloserJoins, CloserRaises, GatherDone, GatherCancelled
    <3>2. mode \in {"closing", "closed"}
      BY <1>0, <3>1 DEF QueueInv, ClosersMatch, TypeOK
    <3>3. mode' \in {mode, "closed"} /\ UNCHANGED <<st, result>>
      BY <2>4 DEF CloserJoins, CloserRaises, JoinTimers, Ends, entryVars
    <3>. QED  BY <3>2, <3>3, SilentStep DEF ContractGate
  <2>. QED  BY <1>7, <2>1, <2>2, <2>3, <2>4 DEF CloserStep
<1>8. CASE Start
  BY <1>8 DEF Start, entryVars, Contract!Next, Contract!OpenGate, ContractGate,
              ContractPhase
<1>9. CASE Tick \/ UNCHANGED vars
  BY <1>1, <1>9 DEF Tick, vars, entryVars
<1>. QED  BY <1>3, <1>4, <1>5, <1>6, <1>7, <1>8, <1>9 DEF Next

\* The queue implements the contract: in whatever order callers, watchdogs,
\* runners and acloses run (admission.py:134-385), no slot is freed early, no
\* answer changes, nobody waits beside a free slot and nothing starts after the
\* gate is shut.
THEOREM QueueImplementsContract == Spec => ImplementsContract
<1>1. Init => Contract!Init
  BY DEF Init, Contract!Init, ContractGate, ContractPhase
<1>2. QueueInv /\ [Next]_vars => [Contract!Next]_(Contract!vars)
  BY ContractStep
<1>. QED  BY <1>1, <1>2, QueueInvariant, PTL DEF Spec, ImplementsContract, Contract!Spec

-----------------------------------------------------------------------------
(* The queue and the controller.                                           *)

\* A task in the loop entered it lawfully.
EntryHolds(r) ==
    /\ loop[r] = "submit" => /\ Accepting /\ ~QueueFull /\ now + Timeout <= MaxTime
                             /\ caller[r] = "idle"
    /\ loop[r] = "done" => BackendAnswered(r)
    /\ loop[r] = "cancelled" => runner[r] = "drain"

\* Its picks so far are those of an AdmitLoop that is not over.
PicksLegal(r) ==
    /\ picks \in Seq(LeftWaiting(r)) /\ Cardinality(Taken) = Len(picks)
    /\ \A i \in 1 .. Len(picks) :
          /\ AdmitLoopTest(LeftWaiting(r) \ Picked(picks, i - 1),
                           Cardinality(InFlight(LeftStates(r)))
                             + Cardinality(Sent(picks, i - 1, LeftTimes(r))))
          /\ picks[i] \in Selectable(LeftWaiting(r) \ Picked(picks, i - 1), now)

\* After a depth has been shown nothing is left to admit, and it was right.
DepthsRight(r) ==
    shown # {} => /\ Listed(r) = {} \/ Busy(r) >= MaxInFlight
                  /\ \A depth \in shown : depth = Cardinality(Listed(r))

\* The inductive invariant of the queue and its admission loop.
LoopInv ==
    /\ QueueInv
    /\ loop \in [Reqs -> LoopTasks \cup {"none"}]
    /\ \A r, q \in Reqs : loop[r] # "none" /\ loop[q] # "none" => r = q
    /\ \A r \in Reqs : loop[r] # "none"
                       => EntryHolds(r) /\ PicksLegal(r) /\ DepthsRight(r)

\* The states and the waiting list that submit or the runner leave to the loop:
\* at most one slot is free, or at most one request waits.
LEMMA LeftFacts ==
    ASSUME LoopInv, NEW r \in Reqs, loop[r] # "none"
    PROVE  /\ LeftWaiting(r) \in SUBSET Reqs
           /\ LeftStates(r) \in [Reqs -> EntryStates]
           /\ \A q \in LeftWaiting(r) : LeftStates(r)[q] = "waiting"
           /\ Cardinality(LeftWaiting(r)) <= Capacity
           /\ \/ LeftWaiting(r) \subseteq {r}
              \/ Cardinality(InFlight(LeftStates(r))) >= MaxInFlight - 1
<1>0. /\ TypeOK /\ IndexConsistent /\ TasksHoldSlot /\ CallersMatch
      /\ WorkConserving /\ QueueBounded /\ EntryHolds(r)
      /\ loop[r] \in {"submit", "done", "cancelled"}
  BY DEF LoopInv, QueueInv, LoopTasks
<1>1. /\ MaxInFlight \in Nat /\ Capacity \in Nat
      /\ IsFiniteSet(waiting) /\ Cardinality(waiting) \in Nat
      /\ IsFiniteSet(InFlight(st)) /\ Cardinality(InFlight(st)) \in Nat
  BY <1>0, FiniteReqs, ConstantsAssumption DEF TypeOK, InFlight
<1>2. CASE loop[r] = "submit"
  <2>1. /\ st[r] = "none" /\ Cardinality(waiting) < Capacity
        /\ LeftWaiting(r) = waiting \cup {r}
        /\ LeftStates(r) = [st EXCEPT ![r] = "waiting"]
    BY <1>0, <1>1, <1>2
    DEF EntryHolds, CallersMatch, QueueFull, LeftWaiting, LeftStates
  <2>2. InFlight(LeftStates(r)) = InFlight(st)
    BY <1>0, <2>1 DEF InFlight, TypeOK
  <2>3. Cardinality(waiting \cup {r}) <= Capacity
    BY <1>1, <2>1, FS_AddElement
  <2>. QED
    BY <1>0, <1>1, <2>1, <2>2, <2>3
    DEF TypeOK, IndexConsistent, WorkConserving, EntryStates
<1>3. CASE loop[r] \in {"done", "cancelled"}
  <2>1. /\ st[r] = "in_flight"
        /\ LeftWaiting(r) = waiting
        /\ LeftStates(r) = [st EXCEPT ![r] = "done"]
    BY <1>0, <1>3
    DEF EntryHolds, BackendAnswered, TasksHoldSlot, LeftWaiting, LeftStates
  <2>2. InFlight(LeftStates(r)) = InFlight(st) \ {r} /\ r \in InFlight(st)
    BY <1>0, <2>1 DEF InFlight, TypeOK
  <2>3. Cardinality(InFlight(LeftStates(r))) = Cardinality(InFlight(st)) - 1
    BY <1>1, <2>2, FS_RemoveElement
  <2>. QED
    BY <1>0, <1>1, <2>1, <2>3
    DEF TypeOK, IndexConsistent, WorkConserving, QueueBounded, EntryStates
<1>. QED  BY <1>0, <1>2, <1>3

\* What the picks make of them.
LEMMA LoopFacts ==
    ASSUME LoopInv, NEW r \in Reqs, loop[r] # "none"
    PROVE  /\ Taken \subseteq LeftWaiting(r) /\ SentBy(r) \subseteq Taken
           /\ IsFiniteSet(Taken) /\ IsFiniteSet(SentBy(r))
           /\ IsFiniteSet(LeftWaiting(r)) /\ Cardinality(LeftWaiting(r)) \in Nat
           /\ Cardinality(SentBy(r)) \in Nat
           /\ Cardinality(InFlight(LeftStates(r))) \in Nat
           /\ InFlight(States(r)) = InFlight(LeftStates(r)) \cup SentBy(r)
           /\ Busy(r) = Cardinality(InFlight(LeftStates(r))) + Cardinality(SentBy(r))
<1>1. picks \in Seq(LeftWaiting(r))
  BY DEF LoopInv, PicksLegal
<1>2. Taken \subseteq LeftWaiting(r) /\ SentBy(r) \subseteq Taken
  BY <1>1 DEF Taken, SentBy, Picked, Sent
<1>3. LeftWaiting(r) \in SUBSET Reqs /\ \A q \in LeftWaiting(r) : LeftStates(r)[q] = "waiting"
  BY LeftFacts
<1>4. /\ InFlight(LeftStates(r)) \in SUBSET Reqs
      /\ Taken \in SUBSET Reqs /\ SentBy(r) \in SUBSET Reqs
  BY <1>2, <1>3 DEF InFlight
<1>5. InFlight(States(r)) = InFlight(LeftStates(r)) \cup SentBy(r)
  BY <1>2, <1>3, <1>4 DEF InFlight, States
<1>6. InFlight(LeftStates(r)) \cap SentBy(r) = {}
  BY <1>2, <1>3 DEF InFlight
<1>7. /\ IsFiniteSet(Taken) /\ IsFiniteSet(SentBy(r))
      /\ IsFiniteSet(InFlight(LeftStates(r)))
      /\ IsFiniteSet(LeftWaiting(r)) /\ Cardinality(LeftWaiting(r)) \in Nat
      /\ Cardinality(SentBy(r)) \in Nat
      /\ Cardinality(InFlight(LeftStates(r))) \in Nat
  BY <1>3, <1>4, FiniteReqs
<1>8. Busy(r) = Cardinality(InFlight(LeftStates(r))) + Cardinality(SentBy(r))
  <2>1. Cardinality(InFlight(LeftStates(r)) \cap SentBy(r)) = 0
    BY <1>6, FS_EmptySet
  <2>2. Cardinality(InFlight(LeftStates(r)) \cup SentBy(r))
          = Cardinality(InFlight(LeftStates(r))) + Cardinality(SentBy(r))
            - Cardinality(InFlight(LeftStates(r)) \cap SentBy(r))
    BY <1>7, FS_Union
  <2>. QED  BY <1>5, <1>7, <2>1, <2>2 DEF Busy
<1>. QED  BY <1>2, <1>5, <1>7, <1>8

\* One pick more.
LEMMA PickedAppend ==
    ASSUME NEW S, NEW p \in Seq(S), NEW q \in S, NEW e
    PROVE  /\ \A i \in 0 .. Len(p) : /\ Picked(Append(p, q), i) = Picked(p, i)
                                     /\ Sent(Append(p, q), i, e) = Sent(p, i, e)
           /\ Picked(Append(p, q), Len(p) + 1) = Picked(p, Len(p)) \cup {q}
           /\ Sent(Append(p, q), Len(p) + 1, e)
                = Sent(p, Len(p), e) \cup (IF Overdue(q, e) THEN {} ELSE {q})
<1>1. /\ Len(p) \in Nat /\ Append(p, q)[Len(p) + 1] = q
      /\ \A j \in 1 .. Len(p) : Append(p, q)[j] = p[j]
  OBVIOUS
<1>2. \A i \in 0 .. Len(p) : Picked(Append(p, q), i) = Picked(p, i)
  BY <1>1 DEF Picked
<1>3. Picked(Append(p, q), Len(p) + 1) = Picked(p, Len(p)) \cup {q}
  BY <1>1 DEF Picked
<1>. QED  BY <1>2, <1>3 DEF Sent

LEMMA PickStep ==
    ASSUME LoopInv, NEW r \in Reqs, NEW q \in Reqs, Picks(r, q)
    PROVE  /\ q \in Listed(r) /\ Listed(r)' = Listed(r) \ {q}
           /\ SentBy(r)' = SentBy(r) \cup (IF Overdue(q, LeftTimes(r)) THEN {} ELSE {q})
           /\ PicksLegal(r)' /\ EntryHolds(r)'
<1>1. /\ loop[r] # "none" /\ AdmitLoopTest(Listed(r), Busy(r))
      /\ q \in Selectable(Listed(r), now)
      /\ picks' = Append(picks, q) /\ UNCHANGED <<vars, loop>>
  BY DEF Picks
<1>2. /\ PicksLegal(r) /\ EntryHolds(r)
  BY <1>1 DEF LoopInv
<1>3. q \in Listed(r)
  <2>1. Listed(r) \in (SUBSET Reqs) \ {{}} /\ now \in 0 .. MaxTime
    BY <1>1, LeftFacts DEF Listed, AdmitLoopTest, LoopInv, QueueInv, TypeOK
  <2>. QED  BY <1>1, <2>1, SelectableAssumption
<1>4. /\ LeftWaiting(r)' = LeftWaiting(r) /\ LeftStates(r)' = LeftStates(r)
      /\ LeftTimes(r)' = LeftTimes(r) /\ now' = now /\ mode' = mode
      /\ \A z : Overdue(z, LeftTimes(r))' = Overdue(z, LeftTimes(r))
  BY <1>1 DEF vars, entryVars, LeftWaiting, LeftStates, LeftTimes, Overdue
<1>5. EntryHolds(r)'
  BY <1>1, <1>2 DEF EntryHolds, Accepting, QueueFull, BackendAnswered, BackendLive,
                    vars, entryVars, tasks
<1>. DEFINE S == LeftWaiting(r)
            n == Len(picks)
            e == LeftTimes(r)
            t == Append(picks, q)
<1>6. /\ picks \in Seq(S) /\ q \in S /\ n \in Nat
      /\ t \in Seq(S) /\ Len(t) = n + 1 /\ t[n + 1] = q
      /\ \A i \in 1 .. n : t[i] = picks[i]
  BY <1>2, <1>3 DEF PicksLegal, Listed
<1>7. /\ \A i \in 0 .. n : Picked(t, i) = Picked(picks, i) /\ Sent(t, i, e) = Sent(picks, i, e)
      /\ Picked(t, n + 1) = Picked(picks, n) \cup {q}
      /\ Sent(t, n + 1, e) = Sent(picks, n, e) \cup (IF Overdue(q, e) THEN {} ELSE {q})
  BY <1>6, PickedAppend
<1>8. Taken' = Taken \cup {q} /\ q \notin Taken
  BY <1>1, <1>3, <1>6, <1>7 DEF Taken, Listed, Picked
<1>9. SentBy(r)' = SentBy(r) \cup (IF Overdue(q, e) THEN {} ELSE {q})
  <2>1. SentBy(r)' = Sent(t, n + 1, e)
    BY <1>1, <1>4, <1>6 DEF SentBy, Sent, Picked
  <2>. QED  BY <2>1, <1>7 DEF SentBy
<1>10. Listed(r)' = Listed(r) \ {q}
  BY <1>4, <1>8 DEF Listed
<1>11. PicksLegal(r)'
  <2>1. Cardinality(Taken') = n + 1
    BY <1>1, <1>2, <1>6, <1>8, LoopFacts, FS_AddElement DEF PicksLegal
  <2>2. ASSUME NEW i \in 1 .. n + 1
        PROVE  /\ AdmitLoopTest(S \ Picked(t, i - 1),
                                Cardinality(InFlight(LeftStates(r)))
                                  + Cardinality(Sent(t, i - 1, e)))
               /\ t[i] \in Selectable(S \ Picked(t, i - 1), now)
    <3>1. CASE i \in 1 .. n
      BY <1>2, <1>6, <1>7, <3>1 DEF PicksLegal
    <3>2. CASE i = n + 1
      <4>1. S \ Picked(t, n) = Listed(r) /\ Sent(t, n, e) = SentBy(r)
        BY <1>6, <1>7 DEF Listed, Taken, SentBy
      <4>2. AdmitLoopTest(Listed(r), Cardinality(InFlight(LeftStates(r)))
                                       + Cardinality(SentBy(r)))
        BY <1>1, LoopFacts
      <4>3. i - 1 = n /\ t[i] = q
        BY <1>6, <3>2
      <4>. QED  BY <1>1, <4>1, <4>2, <4>3
    <3>. QED  BY <1>6, <3>1, <3>2
  <2>3. ASSUME NEW i \in Int
        PROVE  Picked(picks, i)' = Picked(t, i) /\ Sent(picks, i, e)' = Sent(t, i, e)
    BY <1>1, <1>4 DEF Picked, Sent
  <2>4. \A i \in 1 .. n + 1 : i - 1 \in Int
    BY <1>6
  <2>5. ASSUME NEW i \in 1 .. n + 1
        PROVE  /\ AdmitLoopTest(LeftWaiting(r) \ Picked(picks, i - 1),
                                Cardinality(InFlight(LeftStates(r)))
                                  + Cardinality(Sent(picks, i - 1, e)))'
               /\ (picks[i] \in Selectable(LeftWaiting(r) \ Picked(picks, i - 1), now))'
    <3>1. (LeftWaiting(r) \ Picked(picks, i - 1))' = S \ Picked(t, i - 1)
      BY <1>4, <2>3, <2>4
    <3>2. (Cardinality(InFlight(LeftStates(r))) + Cardinality(Sent(picks, i - 1, e)))'
            = Cardinality(InFlight(LeftStates(r))) + Cardinality(Sent(t, i - 1, e))
      BY <1>4, <2>3, <2>4 DEF InFlight
    <3>3. picks[i]' = t[i]
      BY <1>1
    <3>. HIDE DEF t
    <3>. QED  BY <1>4, <2>2, <3>1, <3>2, <3>3 DEF AdmitLoopTest
  <2>. QED  BY <1>1, <1>4, <1>6, <2>1, <2>5 DEF PicksLegal
<1>. QED  BY <1>3, <1>5, <1>9, <1>10, <1>11

\* Only the holder of the lock is in the loop.
LEMMA OnlyHolder ==
    ASSUME LoopInv, NEW r \in Reqs, loop[r] # "none", loop' = loop,
           QueueInv', EntryHolds(r)', PicksLegal(r)', DepthsRight(r)'
    PROVE  LoopInv'
BY DEF LoopInv

LEMMA LateStep ==
    ASSUME LoopInv, NEW r \in Reqs, NEW q \in Reqs, PickLate(r, q)
    PROVE  LoopInv'
<1>1. Picks(r, q) /\ shown' = shown
  BY DEF PickLate
<1>2. loop[r] # "none" /\ loop' = loop /\ UNCHANGED vars /\ AdmitLoopTest(Listed(r), Busy(r))
  BY <1>1 DEF Picks
<1>3. DepthsRight(r) /\ Busy(r) \in Nat /\ MaxInFlight \in Nat
  BY <1>2, LoopFacts, ConstantsAssumption DEF LoopInv
<1>4. DepthsRight(r)'
  BY <1>1, <1>2, <1>3 DEF DepthsRight, AdmitLoopTest
<1>5. QueueInv'
  BY <1>2, QueueStep DEF LoopInv
<1>. QED  BY <1>1, <1>2, <1>4, <1>5, PickStep, OnlyHolder

\* The depth is right: either the request that is sent was the last one that
\* waited, or it takes the last slot.
LEMMA SentStep ==
    ASSUME LoopInv, NEW r \in Reqs, NEW q \in Reqs, PickSent(r, q)
    PROVE  LoopInv' /\ StableDepth(Listed(r) \ {q}, States(r)) \in 0 .. Capacity
<1>. DEFINE rest == Listed(r) \ {q}
            depth == StableDepth(rest, States(r))
<1>1. /\ Picks(r, q) /\ ~Overdue(q, LeftTimes(r)) /\ shown' = shown \cup {depth}
  BY DEF PickSent
<1>2. loop[r] # "none" /\ loop' = loop /\ UNCHANGED vars /\ AdmitLoopTest(Listed(r), Busy(r))
  BY <1>1 DEF Picks
<1>3. /\ DepthsRight(r) /\ Busy(r) \in Nat /\ MaxInFlight \in Nat /\ Capacity \in Nat
      /\ Listed(r) # {} /\ Busy(r) < MaxInFlight
      /\ IsFiniteSet(LeftWaiting(r)) /\ Cardinality(LeftWaiting(r)) \in Nat
  BY <1>2, LoopFacts, ConstantsAssumption DEF LoopInv, AdmitLoopTest
<1>4. shown = {}
  BY <1>3 DEF DepthsRight
<1>5. /\ q \in Listed(r) /\ Listed(r)' = rest /\ SentBy(r)' = SentBy(r) \cup {q}
      /\ EntryHolds(r)' /\ PicksLegal(r)'
  BY <1>1, PickStep
<1>6. rest \subseteq LeftWaiting(r) /\ q \in LeftWaiting(r) /\ q \notin Taken
  BY <1>5 DEF Listed
<1>7. /\ IsFiniteSet(rest) /\ Cardinality(rest) \in Nat
      /\ Cardinality(rest) <= Cardinality(LeftWaiting(r))
  BY <1>3, <1>6, FS_Subset, FS_CardinalityType
<1>8. Busy(r)' = Busy(r) + 1
  <2>1. LeftStates(r)' = LeftStates(r) /\ Taken' \subseteq Taken \cup {q}
    <3>1. LeftStates(r)' = LeftStates(r)
      BY <1>2 DEF LeftStates, vars, entryVars
    <3>2. LeftWaiting(r)' = LeftWaiting(r)
      BY <1>2 DEF LeftWaiting, vars, entryVars
    <3>3. picks \in Seq(LeftWaiting(r)) /\ picks' = Append(picks, q)
      BY <1>1, <1>2 DEF Picks, LoopInv, PicksLegal
    <3>. QED  BY <1>6, <3>1, <3>3, PickedAppend DEF Taken
  <2>2. /\ \A z \in LeftWaiting(r) : LeftStates(r)[z] = "waiting"
        /\ Taken \subseteq LeftWaiting(r) /\ SentBy(r) \subseteq Taken
        /\ LeftWaiting(r) \subseteq Reqs
    BY <1>2, LeftFacts, LoopFacts
  <2>3. InFlight(States(r))' = InFlight(States(r)) \cup {q}
    BY <1>5, <1>6, <2>1, <2>2 DEF InFlight, States
  <2>4. q \notin InFlight(States(r))
    BY <1>6, <2>2 DEF InFlight, States
  <2>5. IsFiniteSet(InFlight(States(r)))
    BY FiniteReqs DEF InFlight
  <2>6. Cardinality(InFlight(States(r)) \cup {q}) = Cardinality(InFlight(States(r))) + 1
    BY <2>4, <2>5, FS_AddElement
  <2>. QED  BY <2>3, <2>6 DEF Busy
<1>9. depth = Cardinality(rest) /\ (rest = {} \/ Busy(r)' >= MaxInFlight)
  <2>0. StableDepth(rest, States(r))
          = IF Cardinality(rest) > MaxInFlight - Busy(r) - 1
            THEN Cardinality(rest) - (MaxInFlight - Busy(r) - 1) ELSE 0
    BY DEF StableDepth, Busy
  <2>1. CASE rest = {}
    <3>1. Cardinality(rest) = 0
      BY <2>1, FS_EmptySet
    <3>. HIDE DEF rest
    <3>. QED  BY <1>3, <2>0, <2>1, <3>1
  <2>2. CASE rest # {}
    <3>1. Cardinality(InFlight(LeftStates(r))) >= MaxInFlight - 1
      BY <1>2, <1>5, <2>2, LeftFacts DEF Listed
    <3>2. /\ Cardinality(InFlight(LeftStates(r))) \in Nat
          /\ Cardinality(SentBy(r)) \in Nat
          /\ Busy(r) = Cardinality(InFlight(LeftStates(r))) + Cardinality(SentBy(r))
      BY <1>2, LoopFacts
    <3>3. Busy(r) = MaxInFlight - 1
      BY <1>3, <3>1, <3>2
    <3>. HIDE DEF rest
    <3>. QED  BY <1>3, <1>7, <1>8, <2>0, <3>3
  <2>. QED  BY <2>1, <2>2
<1>10. DepthsRight(r)'
  BY <1>1, <1>4, <1>5, <1>9 DEF DepthsRight
<1>11. QueueInv'
  BY <1>2, QueueStep DEF LoopInv
<1>12. Cardinality(LeftWaiting(r)) <= Capacity
  BY <1>2, LeftFacts
<1>. HIDE DEF depth
<1>. QED  BY <1>2, <1>3, <1>5, <1>7, <1>9, <1>10, <1>11, <1>12, OnlyHolder DEF depth

LEMMA EnterStep ==
    ASSUME LoopInv, NEW r \in Reqs, SubmitEnters(r) \/ RunnerEnters(r)
    PROVE  LoopInv'
<1>1. PICK task \in LoopTasks :
         /\ EntersLoop(r, task)
         /\ task = "submit" => /\ Accepting /\ ~QueueFull /\ now + Timeout <= MaxTime
                               /\ caller[r] = "idle"
         /\ task = "done" => BackendAnswered(r)
         /\ task = "cancelled" => runner[r] = "drain"
  BY DEF SubmitEnters, RunnerEnters, LoopTasks
<1>2. /\ UNCHANGED vars /\ picks' = <<>> /\ shown' = {}
      /\ loop' = [loop EXCEPT ![r] = task]
      /\ \A q \in Reqs : loop[q] = "none"
      /\ loop \in [Reqs -> LoopTasks \cup {"none"}]
  BY <1>1 DEF EntersLoop, LockFree, LoopInv
<1>3. QueueInv'
  BY <1>2, QueueStep DEF LoopInv
<1>4. EntryHolds(r)'
  BY <1>1, <1>2 DEF EntryHolds, Accepting, QueueFull, BackendAnswered, BackendLive,
                    vars, entryVars, tasks
<1>5. PicksLegal(r)'
  <2>1. Taken' = {} /\ Cardinality({}) = 0
    BY <1>2, FS_EmptySet DEF Taken, Picked
  <2>. QED  BY <1>2, <2>1 DEF PicksLegal
<1>. QED  BY <1>2, <1>3, <1>4, <1>5 DEF LoopInv, DepthsRight

\* When the loop is over its picks are those of the atomic loop, and submit or
\* the runner ends as AdmissionQueue says.
LEMMA LeaveStep ==
    ASSUME LoopInv, NEW r \in Reqs, LeavesLoop(r)
    PROVE  Next
<1>1. /\ LoopOver(r) /\ loop[r] # "none"
  BY DEF LeavesLoop, SubmitSuspends
<1>2. EntryHolds(r) /\ PicksLegal(r)
  BY <1>1 DEF LoopInv
<1>. DEFINE S == LeftWaiting(r)
            n == Len(picks)
            e == LeftTimes(r)
<1>3. AdmitLoop(picks, n, S, Cardinality(InFlight(LeftStates(r))), e)
  BY <1>1, <1>2, LoopFacts DEF AdmitLoop, PicksLegal, LoopOver, Listed, Taken, SentBy
<1>4. n \in 0 .. Cardinality(S) /\ picks \in [1 .. n -> S]
  <2>1. n \in Nat /\ Cardinality(Taken) = n /\ picks \in [1 .. n -> S]
    BY <1>2 DEF PicksLegal
  <2>2. Cardinality(Taken) <= Cardinality(S) /\ Cardinality(S) \in Nat
    BY <1>1, LoopFacts, FS_Subset
  <2>. QED  BY <2>1, <2>2
<1>5. ASSUME NEW a, NEW tm, NEW rn, LoopEffect(r, a, tm, rn), enq' = e
      PROVE  AdmitAvailable(S, LeftStates(r), a, tm, rn)
  BY <1>3, <1>4, <1>5 DEF AdmitAvailable, LoopEffect, Taken, SentBy
<1>6. CASE SubmitSuspends(r)
  <2>1. Accept(r)
    BY <1>2, <1>5, <1>6 DEF Accept, SubmitSuspends, EntryHolds, LeftWaiting, LeftStates,
                            LeftTimes
  <2>. QED  BY <2>1 DEF Next, CallerStep
<1>7. ASSUME NEW s, RunnerEnds(r, s), loop[r] \in {"done", "cancelled"}
      PROVE  RunnerCompletes(r, s, loop[r])
  <2>1. S = waiting /\ LeftStates(r) = [st EXCEPT ![r] = "done"] /\ enq' = e
    BY <1>7 DEF RunnerEnds, LeftWaiting, LeftStates, LeftTimes
  <2>2. LoopEffect(r, [result EXCEPT ![r] = IF st[r] = "done" THEN @
                                            ELSE FinalStatus(r, s)],
                   [timer EXCEPT ![r] = CancelTimer(@)],
                   [runner EXCEPT ![r] = loop[r]])
    BY <1>7 DEF RunnerEnds
  <2>3. AdmitAvailable(S, LeftStates(r),
                       [result EXCEPT ![r] = IF st[r] = "done" THEN @
                                             ELSE FinalStatus(r, s)],
                       [timer EXCEPT ![r] = CancelTimer(@)],
                       [runner EXCEPT ![r] = loop[r]])
    BY <1>5, <2>1, <2>2
  <2>. QED  BY <1>7, <2>1, <2>3 DEF RunnerEnds, RunnerCompletes
<1>8. CASE loop[r] = "done" /\ RunnerEnds(r, BackendStatus(r))
  <2>1. RunnerFinishes(r)
    BY <1>2, <1>7, <1>8 DEF RunnerFinishes, EntryHolds
  <2>. QED  BY <2>1 DEF Next, RunnerResumes
<1>9. CASE loop[r] = "cancelled" /\ RunnerEnds(r, "CANCELLED")
  <2>1. RunnerDrained(r)
    BY <1>2, <1>7, <1>9 DEF RunnerDrained, EntryHolds
  <2>. QED  BY <2>1 DEF Next, RunnerResumes
<1>. QED  BY <1>6, <1>8, <1>9 DEF LeavesLoop

\* Time passes, or something happens in the queue, but not both.
LEMMA ClockStep ==
    ASSUME Next
    PROVE  \/ now' = now
           \/ now < MaxTime /\ now' = now + 1 /\ st' = st
<1>1. CASE Start \/ Tick
  BY <1>1 DEF Start, Tick, entryVars
<1>2. ASSUME NEW r \in Reqs,
             CallerStep(r) \/ TimerResumes(r) \/ BackendStep(r) \/ RunnerResumes(r)
      PROVE  now' = now
  BY <1>2 DEF CallerStep, Reject, Accept, CancelCaller, CallerResumes, CallerReturns,
     CancelWaiting, CancelInFlight, CancelDone, CallerDrained, CallerGoes,
     TimerResumes, TimerSleeps, TimeoutWaiting, TimeoutInFlight, TimerEnds, TimerGoes,
     BackendStep, BackendStarts, BackendEnds, CancelledBackendEnds, BackendGoes,
     RunnerResumes, RunnerAwaits, RunnerFinishes, RunnerDrains, RunnerDrained,
     RunnerDies, RunnerGoes, RunnerCompletes
<1>3. ASSUME NEW c \in Closers, CloserStep(c) PROVE now' = now
  BY <1>3 DEF CloserStep, CloseIdle, Close, CancelCloser, CloserJoins, CloserRaises
<1>. QED  BY <1>1, <1>2, <1>3 DEF Next

LEMMA PlainIsQueueStep == PlainStep => Next
BY DEF PlainStep, Next, CallerStep, RunnerResumes

\* A step of the queue with the controller is a step of the queue, or an unseen
\* one inside the loop.
LEMMA AdaptiveStep ==
    ASSUME LoopInv, [AdaptiveNext]_adaptiveVars
    PROVE  LoopInv' /\ [Next]_vars
<1>1. CASE LockFree /\ PlainStep /\ UNCHANGED <<clipVars, loopVars>>
  <2>1. Next /\ QueueInv'
    BY <1>1, PlainIsQueueStep, QueueStep DEF LoopInv
  <2>. QED  BY <1>1, <2>1 DEF LoopInv, LockFree, loopVars
<1>2. ASSUME NEW r \in Reqs, SubmitEnters(r) \/ RunnerEnters(r)
      PROVE  LoopInv' /\ [Next]_vars
  BY <1>2, EnterStep DEF SubmitEnters, RunnerEnters, EntersLoop
<1>3. ASSUME NEW r \in Reqs, NEW q \in Reqs, PickLate(r, q) \/ PickSent(r, q)
      PROVE  LoopInv' /\ [Next]_vars
  BY <1>3, LateStep, SentStep DEF PickLate, PickSent, Picks
<1>4. ASSUME NEW r \in Reqs, LeavesLoop(r)
      PROVE  LoopInv' /\ [Next]_vars
  <2>1. Next /\ QueueInv'
    BY <1>4, LeaveStep, QueueStep DEF LoopInv
  <2>2. /\ loop[r] # "none" /\ loop' = [loop EXCEPT ![r] = "none"]
    BY <1>4 DEF LeavesLoop, SubmitSuspends
  <2>. QED  BY <2>1, <2>2 DEF LoopInv
<1>5. CASE UNCHANGED adaptiveVars
  <2>1. QueueInv'
    BY <1>5, QueueStep DEF LoopInv, adaptiveVars
  <2>2. UNCHANGED <<now, mode, entryVars, caller, tasks, closeVars, loop, picks, shown>>
    BY <1>5 DEF adaptiveVars, vars, loopVars
  <2>3. \A r \in Reqs : /\ EntryHolds(r)' = EntryHolds(r)
                        /\ PicksLegal(r)' = PicksLegal(r)
                        /\ DepthsRight(r)' = DepthsRight(r)
    <3>. TAKE r \in Reqs
    <3>1. /\ LeftWaiting(r)' = LeftWaiting(r) /\ LeftStates(r)' = LeftStates(r)
          /\ LeftTimes(r)' = LeftTimes(r) /\ Taken' = Taken
          /\ SentBy(r)' = SentBy(r)
      BY <2>2 DEF LeftWaiting, LeftStates, LeftTimes, Taken, Picked, SentBy, Sent,
                  Overdue, entryVars
    <3>2. Listed(r)' = Listed(r) /\ Busy(r)' = Busy(r)
      BY <3>1 DEF Listed, Busy, States, InFlight
    <3>3. EntryHolds(r)' = EntryHolds(r)
      BY <2>2 DEF EntryHolds, Accepting, QueueFull, BackendAnswered, BackendLive,
                  entryVars, tasks
    <3>4. PicksLegal(r)' = PicksLegal(r)
      BY <2>2, <3>1 DEF PicksLegal, AdmitLoopTest, InFlight, Picked, Sent, Overdue
    <3>5. DepthsRight(r)' = DepthsRight(r)
      BY <2>2, <3>2 DEF DepthsRight
    <3>. QED  BY <3>3, <3>4, <3>5
  <2>. QED  BY <1>5, <2>1, <2>2, <2>3 DEF LoopInv, adaptiveVars
<1>. QED  BY <1>1, <1>2, <1>3, <1>4, <1>5 DEF AdaptiveNext, LoopStep

LEMMA LoopInvariant == AdaptiveSpec => []LoopInv
<1>1. AdaptiveInit => LoopInv
  BY QueueInit DEF AdaptiveInit, LoopInv
<1>. QED  BY <1>1, AdaptiveStep, PTL DEF AdaptiveSpec

\* To the other tasks the loop of admission.py:220-271, which picks a request,
\* completes or sends it, and looks at the list and the slots again, is one
\* step, with the controller inside or without: every theorem about
\* AdmissionQueue's Spec holds of the queue that drives a controller.
THEOREM QueueLoopIsAtomic == AdaptiveSpec => LoopIsAtomic
<1>1. AdaptiveInit => Init
  BY DEF AdaptiveInit
<1>. QED  BY <1>1, AdaptiveStep, LoopInvariant, PTL DEF AdaptiveSpec, LoopIsAtomic, Spec

\* Each decision rests on the number of requests that will wait when the lock
\* is released (admission.py:247-248, 351-355), however many picks of the loop
\* come before and after it.
THEOREM DecisionsSeeTheQueue == AdaptiveSpec => ProjectionExact
<1>. DEFINE Exact == \A r \in Reqs : loop[r] # "none" /\ loop'[r] = "none"
                        => \A depth \in shown : depth = Cardinality(waiting')
<1>1. ASSUME LoopInv, AdaptiveNext PROVE Exact
  <2>1. CASE loop' = loop
    BY <2>1
  <2>2. ASSUME NEW r \in Reqs, SubmitEnters(r) \/ RunnerEnters(r) PROVE Exact
    BY <2>2 DEF SubmitEnters, RunnerEnters, EntersLoop, LockFree
  <2>3. ASSUME NEW r \in Reqs, LeavesLoop(r) PROVE Exact
    <3>1. loop[r] # "none" /\ \E a, tm, rn : LoopEffect(r, a, tm, rn)
      BY <2>3 DEF LeavesLoop, SubmitSuspends, RunnerEnds
    <3>2. SentBy(r) \subseteq Taken /\ DepthsRight(r)
      BY <1>1, <3>1, LoopFacts DEF LoopInv
    <3>3. waiting' = Listed(r)
      BY <3>1, <3>2 DEF LoopEffect, AdmitEffect, Listed
    <3>4. \A q \in Reqs : q # r => loop[q] = "none"
      BY <1>1, <3>1 DEF LoopInv
    <3>. QED  BY <3>2, <3>3, <3>4 DEF DepthsRight
  <2>4. \/ loop' = loop \/ \E r \in Reqs : SubmitEnters(r) \/ RunnerEnters(r) \/ LeavesLoop(r)
    BY <1>1 DEF AdaptiveNext, LoopStep, loopVars, PickLate, PickSent, Picks
  <2>. QED  BY <2>1, <2>2, <2>3, <2>4
<1>2. LoopInv /\ [AdaptiveNext]_adaptiveVars => [Exact]_adaptiveVars
  BY <1>1
<1>. QED  BY <1>2, LoopInvariant, PTL DEF AdaptiveSpec, ProjectionExact

\* Driven by the queue, the controller takes only steps of its own
\* specification, with depths of at most queue_capacity, while no time passes.
THEOREM QueueDrivesController == AdaptiveSpec => Ctl!Spec
<1>1. AdaptiveInit => Ctl!Init
  BY DEF AdaptiveInit, Init, Ctl!Init
<1>2. ASSUME LoopInv, [AdaptiveNext]_adaptiveVars
      PROVE  [Ctl!Next]_<<now, Ctl!control>>
  <2>1. CASE PlainStep /\ UNCHANGED clipVars
    <3>1. UNCHANGED Ctl!control
      BY <2>1 DEF clipVars, Ctl!control
    <3>2. now' = now \/ (now < MaxTime /\ now' = now + 1)
      BY <2>1, PlainIsQueueStep, ClockStep
    <3>. QED  BY <3>1, <3>2 DEF Ctl!Next, Ctl!Tick
  <2>2. ASSUME NEW r \in Reqs, NEW q \in Reqs, PickSent(r, q)
        PROVE  [Ctl!Next]_<<now, Ctl!control>>
    <3>1. Ctl!Update(StableDepth(Listed(r) \ {q}, States(r)))
      BY <2>2 DEF PickSent
    <3>2. StableDepth(Listed(r) \ {q}, States(r)) \in 0 .. Capacity
      BY <1>2, <2>2, SentStep
    <3>3. now' = now
      BY <2>2 DEF PickSent, Picks, vars
    <3>. QED  BY <3>1, <3>2, <3>3 DEF Ctl!Next, Ctl!UpdateStep
  <2>3. CASE UNCHANGED <<now, clipVars>>
    BY <2>3 DEF clipVars, Ctl!control
  <2>4. ASSUME NEW r \in Reqs,
               SubmitEnters(r) \/ RunnerEnters(r) \/ LeavesLoop(r)
               \/ (\E q \in Reqs : PickLate(r, q))
        PROVE  UNCHANGED <<now, clipVars>>
    BY <2>4 DEF SubmitEnters, RunnerEnters, EntersLoop, LeavesLoop, SubmitSuspends,
                RunnerEnds, PickLate, Picks, vars
  <2>5. CASE UNCHANGED adaptiveVars
    BY <2>3, <2>5 DEF adaptiveVars, vars
  <2>. QED  BY <1>2, <2>1, <2>2, <2>3, <2>4, <2>5 DEF AdaptiveNext, LoopStep
<1>. QED  BY <1>1, <1>2, LoopInvariant, PTL DEF AdaptiveSpec, Ctl!Spec
=============================================================================
