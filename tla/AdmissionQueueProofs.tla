------------------------ MODULE AdmissionQueueProofs ------------------------
(***************************************************************************)
(* Theorems about AdmissionQueue for every set of requests, every number   *)
(* of slots, every capacity and every policy.                              *)
(***************************************************************************)
EXTENDS AdmissionQueue, FiniteSetTheorems, TLAPS

-----------------------------------------------------------------------------
(* The admission loop.                                                     *)

\* _admit_available_locked has that effect, never fills more than the slots,
\* and leaves no request waiting beside a free one unless the queue is closing.
LEMMA AdmitLemma ==
    ASSUME NEW w \in SUBSET Reqs,
           NEW s \in [Reqs -> EntryStates], NEW a, NEW tm, NEW rn,
           \A r \in w : s[r] = "waiting",
           AdmitAvailable(w, s, a, tm, rn),
           Cardinality(InFlight(s)) <= MaxInFlight
    PROVE  \E late, sent \in SUBSET Reqs :
              /\ AdmitEffect(w, s, a, tm, rn, late, sent)
              /\ late \subseteq w /\ sent \subseteq w /\ late \cap sent = {}
              /\ Cardinality(InFlight(st')) <= MaxInFlight
              /\ \/ mode = "closing" \/ waiting' = {}
                 \/ Cardinality(InFlight(st')) = MaxInFlight
<1>0. PICK k \in 0 .. Cardinality(w) : \E t \in [1 .. k -> w] :
        /\ AdmitLoop(t, k, w, Cardinality(InFlight(s)), enq')
        /\ AdmitEffect(w, s, a, tm, rn, Picked(t, k) \ Sent(t, k, enq'),
                       Sent(t, k, enq'))
  BY DEF AdmitAvailable
<1>1. PICK t \in [1 .. k -> w] :
        /\ AdmitLoop(t, k, w, Cardinality(InFlight(s)), enq')
        /\ AdmitEffect(w, s, a, tm, rn, Picked(t, k) \ Sent(t, k, enq'),
                       Sent(t, k, enq'))
  BY <1>0
<1>. DEFINE sent == Sent(t, k, enq')
            late == Picked(t, k) \ sent
            busy == Cardinality(InFlight(s))
<1>2. /\ IsFiniteSet(InFlight(s)) /\ IsFiniteSet(w)
      /\ busy \in Nat /\ Cardinality(w) \in Nat /\ MaxInFlight \in Nat
  BY ConstantsAssumption, FS_Subset, FS_CardinalityType DEF InFlight
<1>3. /\ Picked(t, k) \subseteq w /\ sent \subseteq w
      /\ IsFiniteSet(sent) /\ Cardinality(sent) \in Nat
  BY <1>2, FS_Subset, FS_CardinalityType DEF Picked, Sent
<1>4. busy + Cardinality(sent) <= MaxInFlight
  <2>1. CASE k = 0
    <3>1. sent = {}
      BY <2>1 DEF Picked, Sent
    <3>. QED  BY <3>1, <1>2, FS_EmptySet
  <2>2. CASE k # 0
    <3>. DEFINE prev == Sent(t, k - 1, enq')
    <3>0. k \in 1 .. k /\ k - 1 \in Nat
      BY <1>1, <1>2, <2>2
    <3>1. busy + Cardinality(prev) < MaxInFlight
      BY <1>1, <3>0 DEF AdmitLoop, AdmitLoopTest
    <3>2. prev \subseteq w
      BY <1>1, <3>0 DEF Picked, Sent
    <3>3. IsFiniteSet(prev) /\ Cardinality(prev) \in Nat
      BY <3>2, <1>2, FS_Subset, FS_CardinalityType
    <3>4. sent \subseteq prev \cup {t[k]}
      BY <1>1, <3>0 DEF Picked, Sent
    <3>5. /\ IsFiniteSet(prev \cup {t[k]})
          /\ Cardinality(prev \cup {t[k]}) \in Nat
          /\ Cardinality(prev \cup {t[k]}) <= Cardinality(prev) + 1
      <4>1. /\ IsFiniteSet(prev \cup {t[k]})
            /\ Cardinality(prev \cup {t[k]})
                 = IF t[k] \in prev THEN Cardinality(prev)
                   ELSE Cardinality(prev) + 1
        BY <3>3, FS_AddElement
      <4>. QED  BY <4>1, <3>3
    <3>6. Cardinality(sent) <= Cardinality(prev \cup {t[k]})
      BY <3>4, <3>5, FS_Subset
    <3>. QED  BY <3>1, <3>3, <3>5, <3>6, <1>2, <1>3
  <2>. QED  BY <2>1, <2>2
<1>5. InFlight(st') = InFlight(s) \cup sent
  BY <1>1, <1>3 DEF InFlight, AdmitEffect
<1>6. InFlight(s) \cap sent = {}
  BY <1>3 DEF InFlight
<1>7. Cardinality(InFlight(st')) = busy + Cardinality(sent)
  <2>1. Cardinality(InFlight(st'))
          = busy + Cardinality(sent) - Cardinality(InFlight(s) \cap sent)
    BY <1>2, <1>3, <1>5, FS_Union
  <2>2. Cardinality(InFlight(s) \cap sent) = 0
    BY <1>6, FS_EmptySet
  <2>. QED  BY <2>1, <2>2, <1>2, <1>3
<1>8. \/ mode = "closing" \/ waiting' = {}
      \/ busy + Cardinality(sent) >= MaxInFlight
  <2>1. ~AdmitLoopTest(w \ Picked(t, k), busy + Cardinality(sent))
    BY <1>1 DEF AdmitLoop
  <2>2. waiting' = w \ Picked(t, k)
    BY <1>1 DEF AdmitEffect, Sent
  <2>. QED  BY <2>1, <2>2, <1>2, <1>3 DEF AdmitLoopTest
<1>. QED
  <2>1. /\ late \in SUBSET Reqs /\ sent \in SUBSET Reqs
        /\ late \subseteq w /\ sent \subseteq w /\ late \cap sent = {}
    BY <1>3
  <2>2. AdmitEffect(w, s, a, tm, rn, late, sent)
    BY <1>1
  <2>3. /\ Cardinality(InFlight(st')) <= MaxInFlight
        /\ \/ mode = "closing" \/ waiting' = {}
           \/ Cardinality(InFlight(st')) = MaxInFlight
    BY <1>4, <1>7, <1>8, <1>2, <1>3
  <2>. QED  BY <2>1, <2>2, <2>3

-----------------------------------------------------------------------------
(* Type correctness.                                                       *)

\* Task.cancel() keeps every task in its set of states.
LEMMA CancelTypes ==
    /\ \A pc \in TimerStates : CancelTimer(pc) \in TimerStates
    /\ \A pc \in BackendStates : CancelBackend(pc) \in BackendStates
    /\ \A pc \in RunnerStates, b \in BackendStates :
          CancelRunner(pc, b) \in RunnerStates
BY DEF TimerStates, RunnerStates, BackendStates, BackendLiveStates,
       BackendEndStates, CancelTimer, CancelBackend, CancelRunner

\* The admission loop keeps the types of what it changes.
LEMMA AdmitType ==
    ASSUME TypeOK, NEW w \in SUBSET Reqs,
           NEW s \in [Reqs -> EntryStates], NEW a \in [Reqs -> ResultStatuses],
           NEW tm \in [Reqs -> TimerStates], NEW rn \in [Reqs -> RunnerStates],
           AdmitAvailable(w, s, a, tm, rn)
    PROVE  /\ waiting' \subseteq Reqs
           /\ st' \in [Reqs -> EntryStates]
           /\ result' \in [Reqs -> ResultStatuses]
           /\ timer' \in [Reqs -> TimerStates]
           /\ backend' \in [Reqs -> BackendStates]
           /\ runner' \in [Reqs -> RunnerStates]
<1>1. PICK late, sent : AdmitEffect(w, s, a, tm, rn, late, sent)
  BY DEF AdmitAvailable
<1>2. timer' \in [Reqs -> TimerStates]
  BY <1>1, CancelTypes DEF AdmitEffect
<1>3. backend' \in [Reqs -> BackendStates]
  BY <1>1 DEF AdmitEffect, TypeOK, BackendStates, BackendLiveStates
<1>4. st' \in [Reqs -> EntryStates]
  BY <1>1 DEF AdmitEffect, EntryStates
<1>5. result' \in [Reqs -> ResultStatuses]
  BY <1>1 DEF AdmitEffect, ResultStatuses
<1>6. runner' \in [Reqs -> RunnerStates]
  BY <1>1 DEF AdmitEffect, RunnerStates
<1>. QED  BY <1>1, <1>2, <1>3, <1>4, <1>5, <1>6 DEF AdmitEffect

\* Every step keeps every variable in its type.
LEMMA TypeStep == TypeOK /\ [Next]_vars => TypeOK'
<1>. SUFFICES ASSUME TypeOK, [Next]_vars PROVE TypeOK'
  OBVIOUS
<1>. USE DEF TypeOK
<1>0. ASSUME NEW r \in Reqs, NEW from, NEW to \in CallerStates,
             CallerGoes(r, from, to)
      PROVE  TypeOK'
  BY <1>0 DEF CallerGoes, entryVars, tasks, closeVars
<1>1. ASSUME NEW r \in Reqs, CallerStep(r) PROVE TypeOK'
  <2>1. CASE Reject(r) \/ CancelCaller(r) \/ CallerReturns(r) \/ CancelDone(r)
             \/ CallerDrained(r)
    BY <2>1, <1>0 DEF Reject, CancelCaller, CallerReturns, CancelDone,
                      CallerDrained, CallerStates
  <2>2. CASE Accept(r)
    <3>1. /\ now' = now /\ mode' = mode /\ forced' = forced
          /\ closer' = closer /\ joined' = joined
          /\ closerCancelled' = closerCancelled
          /\ caller' = [caller EXCEPT ![r] = "await"]
          /\ enq' = [enq EXCEPT ![r] = now]
      BY <2>2 DEF Accept, closeVars
    <3>2. /\ [st EXCEPT ![r] = "waiting"] \in [Reqs -> EntryStates]
          /\ [timer EXCEPT ![r] = "new"] \in [Reqs -> TimerStates]
      BY DEF EntryStates, TimerStates
    <3>3. /\ waiting' \subseteq Reqs
          /\ st' \in [Reqs -> EntryStates]
          /\ result' \in [Reqs -> ResultStatuses]
          /\ timer' \in [Reqs -> TimerStates]
          /\ backend' \in [Reqs -> BackendStates]
          /\ runner' \in [Reqs -> RunnerStates]
      BY <2>2, <3>2, AdmitType DEF Accept
    <3>4. caller' \in [Reqs -> CallerStates] /\ enq' \in [Reqs -> 0 .. MaxTime]
      BY <3>1 DEF CallerStates
    <3>. QED  BY <3>1, <3>3, <3>4
  <2>3. CASE CancelWaiting(r)
    BY <2>3, CancelTypes DEF CancelWaiting, closeVars, EntryStates,
                             ResultStatuses, CallerStates
  <2>4. CASE CancelInFlight(r)
    BY <2>4, CancelTypes DEF CancelInFlight, closeVars, ForcedStatuses,
                             CallerStates
  <2>. QED  BY <1>1, <2>1, <2>2, <2>3, <2>4 DEF CallerStep, CallerResumes
<1>2. ASSUME NEW r \in Reqs, TimerResumes(r) PROVE TypeOK'
  <2>1. ASSUME NEW from, NEW to \in TimerStates, TimerGoes(r, from, to)
        PROVE  TypeOK'
    BY <2>1 DEF TimerGoes, entryVars, closeVars
  <2>2. CASE TimerSleeps(r) \/ TimerEnds(r)
    BY <2>1, <2>2 DEF TimerSleeps, TimerEnds, TimerStates
  <2>3. CASE TimeoutWaiting(r)
    BY <2>3 DEF TimeoutWaiting, TimerExpires, closeVars, EntryStates,
                ResultStatuses, TimerStates
  <2>4. CASE TimeoutInFlight(r)
    <3>1. /\ timer' \in [Reqs -> TimerStates]
          /\ forced' \in [Reqs -> ForcedStatuses]
      BY <2>4 DEF TimeoutInFlight, TimerExpires, TimerStates, ForcedStatuses
    <3>2. backend' \in [Reqs -> BackendStates]
      BY <2>4, CancelTypes DEF TimeoutInFlight
    <3>. QED  BY <2>4, <3>1, <3>2 DEF TimeoutInFlight, closeVars
  <2>. QED  BY <1>2, <2>2, <2>3, <2>4 DEF TimerResumes
<1>3. ASSUME NEW r \in Reqs, BackendStep(r) PROVE TypeOK'
  <2>1. ASSUME NEW from, NEW to \in BackendStates, BackendGoes(r, from, to)
        PROVE  TypeOK'
    BY <2>1 DEF BackendGoes, entryVars, closeVars
  <2>. QED  BY <1>3, <2>1 DEF BackendStep, BackendStarts, BackendEnds,
                              CancelledBackendEnds, BackendStates,
                              BackendLiveStates, BackendEndStates
<1>4. ASSUME NEW r \in Reqs, RunnerResumes(r) PROVE TypeOK'
  <2>1. ASSUME NEW from, NEW to \in RunnerStates, RunnerGoes(r, from, to)
        PROVE  TypeOK'
    BY <2>1 DEF RunnerGoes, entryVars, closeVars
  <2>2. CASE RunnerAwaits(r) \/ RunnerDrains(r) \/ RunnerDies(r)
    BY <2>1, <2>2 DEF RunnerAwaits, RunnerDrains, RunnerDies, RunnerStates
  <2>3. ASSUME NEW x \in {"SUCCESS", "ERROR", "CANCELLED"},
               NEW end \in {"done", "cancelled"}, RunnerCompletes(r, x, end)
        PROVE  TypeOK'
    <3>1. /\ [st EXCEPT ![r] = "done"] \in [Reqs -> EntryStates]
          /\ [runner EXCEPT ![r] = end] \in [Reqs -> RunnerStates]
      BY DEF EntryStates, RunnerStates
    <3>2. [timer EXCEPT ![r] = CancelTimer(@)] \in [Reqs -> TimerStates]
      BY CancelTypes
    <3>3. FinalStatus(r, x) \in ResultStatuses
      BY DEF FinalStatus, ResultStatuses, ForcedStatuses
    <3>4. [result EXCEPT ![r] = IF st[r] = "done" THEN @ ELSE FinalStatus(r, x)]
            \in [Reqs -> ResultStatuses]
      BY <3>3
    <3>5. /\ waiting' \subseteq Reqs
          /\ st' \in [Reqs -> EntryStates]
          /\ result' \in [Reqs -> ResultStatuses]
          /\ timer' \in [Reqs -> TimerStates]
          /\ backend' \in [Reqs -> BackendStates]
          /\ runner' \in [Reqs -> RunnerStates]
      BY <2>3, <3>1, <3>2, <3>4, AdmitType DEF RunnerCompletes
    <3>. QED  BY <2>3, <3>5 DEF RunnerCompletes, closeVars
  <2>4. CASE RunnerFinishes(r)
    <3>1. RunnerCompletes(r, "SUCCESS", "done") \/ RunnerCompletes(r, "ERROR", "done")
          \/ RunnerCompletes(r, "CANCELLED", "done")
      BY <2>4 DEF RunnerFinishes, BackendAnswered, BackendStatus
    <3>. QED  BY <2>3, <3>1
  <2>5. CASE RunnerDrained(r)
    BY <2>3, <2>5 DEF RunnerDrained
  <2>. QED  BY <1>4, <2>2, <2>4, <2>5 DEF RunnerResumes
<1>5. ASSUME NEW c \in Closers, CloserStep(c) PROVE TypeOK'
  <2>1. ASSUME NEW end \in {"returned", "raised"}, Ends(c, end)
        PROVE  /\ mode' = "closed" /\ closer' \in [Closers -> CloserStates]
               /\ joined' = joined
    BY <2>1 DEF Ends, CloserStates
  <2>2. ASSUME NEW phase \in {"runners", "timers"}, NEW S \in SUBSET Reqs,
               Gathers(c, phase, S)
        PROVE  /\ closer' \in [Closers -> CloserStates]
               /\ joined' \in [Closers -> SUBSET Reqs]
    BY <2>2 DEF Gathers, CloserStates
  <2>3. ASSUME NEW m, JoinTimers(c, m)
        PROVE  /\ mode' \in {m, "closed"}
               /\ closer' \in [Closers -> CloserStates]
               /\ joined' \in [Closers -> SUBSET Reqs]
    BY <2>1, <2>2, <2>3 DEF JoinTimers, TimeoutTasks
  <2>4. CASE CloseIdle(c)
    BY <2>4 DEF CloseIdle, entryVars, tasks, CloserStates
  <2>5. CASE Close(c)
    <3>1. /\ mode' \in {"closing", "closed"}
          /\ closer' \in [Closers -> CloserStates]
          /\ joined' \in [Closers -> SUBSET Reqs]
      BY <2>2, <2>3, <2>5 DEF Close, RunnerTasks
    <3>2. waiting' \subseteq Reqs /\ st' \in [Reqs -> EntryStates]
      BY <2>5 DEF Close, EntryStates
    <3>3. /\ result' \in [Reqs -> ResultStatuses]
          /\ forced' \in [Reqs -> ForcedStatuses]
      BY <2>5 DEF Close, ResultStatuses, ForcedStatuses
    <3>4. /\ timer' \in [Reqs -> TimerStates]
          /\ backend' \in [Reqs -> BackendStates]
      BY <2>5, CancelTypes DEF Close
    <3>. QED  BY <2>5, <3>1, <3>2, <3>3, <3>4 DEF Close
  <2>6. CASE CloserJoins(c)
    BY <2>1, <2>3, <2>6 DEF CloserJoins, entryVars, tasks
  <2>7. CASE CloserRaises(c)
    BY <2>1, <2>7 DEF CloserRaises, entryVars, tasks
  <2>8. CASE CancelCloser(c)
    <3>1. /\ timer' \in [Reqs -> TimerStates]
          /\ backend' \in [Reqs -> BackendStates]
          /\ runner' \in [Reqs -> RunnerStates]
      BY <2>8, CancelTypes DEF CancelCloser
    <3>. QED  BY <2>8, <3>1 DEF CancelCloser, entryVars
  <2>. QED  BY <1>5, <2>4, <2>5, <2>6, <2>7, <2>8 DEF CloserStep
<1>6. CASE Start
  BY <1>6 DEF Start, entryVars, tasks, closeVars
<1>7. CASE Tick
  BY <1>7, ConstantsAssumption DEF Tick, entryVars, tasks, closeVars
<1>8. CASE UNCHANGED vars
  BY <1>8 DEF vars, entryVars, tasks, closeVars
<1>. QED  BY <1>1, <1>2, <1>3, <1>4, <1>5, <1>6, <1>7, <1>8 DEF Next

\* Every variable stays in its type, for all constants.
THEOREM TypeCorrect == Spec => []TypeOK
<1>1. Init => TypeOK
  BY ConstantsAssumption DEF Init, TypeOK, EntryStates, ForcedStatuses,
     ResultStatuses, CallerStates, TimerStates, BackendStates, RunnerStates,
     CloserStates
<1>. QED  BY <1>1, TypeStep, PTL DEF Spec

-----------------------------------------------------------------------------
(* The inductive invariant.                                                *)

\* Sets of requests are finite.
LEMMA FiniteReqs ==
    /\ \A S \in SUBSET Reqs : IsFiniteSet(S) /\ Cardinality(S) \in Nat
    /\ \A S \in SUBSET Reqs : \A T \in SUBSET S : Cardinality(T) <= Cardinality(S)
<1>1. \A S \in SUBSET Reqs : IsFiniteSet(S)
  BY ConstantsAssumption, FS_Subset
<1>. QED  BY <1>1, FS_Subset, FS_CardinalityType

\* A step that completes the waiting requests of S and leaves the others and
\* the slots alone keeps the invariant, if it treats the callers well.
LEMMA DropStep ==
    ASSUME QueueInv, TypeOK', ClosersMatch', NEW S \in SUBSET Reqs,
           \A r \in S : st[r] = "waiting",
           waiting' = waiting \ S,
           st' = [r \in Reqs |-> IF r \in S THEN "done" ELSE st[r]],
           \A r \in Reqs : IF r \in S THEN result'[r] # "none"
                                      ELSE result'[r] = result[r],
           \A r \in Reqs : BackendLive(r)' => BackendLive(r),
           \A r \in Reqs : backend[r] = "none" => backend'[r] = "none",
           \A r \in Reqs : runner[r] = "none" => runner'[r] = "none",
           \A r \in Reqs : runner'[r] \notin {"none", "done", "cancelled"}
                             => runner[r] \notin {"none", "done", "cancelled"},
           \A r \in Reqs : runner'[r] \in {"thrown", "drain"} => ~BackendLive(r)',
           mode' = mode \/ S = waiting,
           \A r \in Reqs : caller'[r] \in {"idle", "rejected"}
                             => caller[r] \in {"idle", "rejected"},
           \A r \in Reqs : caller'[r] = "cancelled"
                             => caller[r] = "cancelled" \/ st'[r] = "done"
    PROVE  QueueInv'
<1>. USE DEF QueueInv
<1>1. IndexConsistent'
  BY DEF IndexConsistent, TypeOK
<1>2. TasksHoldSlot'
  BY DEF TasksHoldSlot, TypeOK
<1>3. WaitingOnlyOpen'
  BY DEF WaitingOnlyOpen
<1>4. CallersMatch'
  BY DEF CallersMatch, TypeOK
<1>5. InFlight(st') = InFlight(st)
  BY DEF InFlight
<1>6. SlotsBounded'
  BY <1>5 DEF SlotsBounded
<1>7. QueueBounded' /\ WorkConserving'
  <2>1. waiting \in SUBSET Reqs /\ waiting' \in SUBSET waiting
    BY DEF TypeOK
  <2>2. Cardinality(waiting') <= Cardinality(waiting)
    BY <2>1, FiniteReqs
  <2>3. /\ Cardinality(waiting) \in Nat /\ Cardinality(waiting') \in Nat
        /\ Capacity \in Nat
    BY <2>1, FiniteReqs, ConstantsAssumption
  <2>. QED  BY <1>5, <2>1, <2>2, <2>3 DEF QueueBounded, WorkConserving
<1>. QED  BY <1>1, <1>2, <1>3, <1>4, <1>6, <1>7

\* The same when no request is completed.
LEMMA QuietStep ==
    ASSUME QueueInv, TypeOK', ClosersMatch', UNCHANGED <<waiting, st, result>>,
           \A r \in Reqs : BackendLive(r)' => BackendLive(r),
           \A r \in Reqs : backend[r] = "none" => backend'[r] = "none",
           \A r \in Reqs : runner[r] = "none" => runner'[r] = "none",
           \A r \in Reqs : runner'[r] \notin {"none", "done", "cancelled"}
                             => runner[r] \notin {"none", "done", "cancelled"},
           \A r \in Reqs : runner'[r] \in {"thrown", "drain"} => ~BackendLive(r)',
           mode' = mode \/ waiting = {},
           \A r \in Reqs : caller'[r] \in {"idle", "rejected"}
                             => caller[r] \in {"idle", "rejected"},
           \A r \in Reqs : caller'[r] = "cancelled"
                             => caller[r] = "cancelled" \/ st'[r] = "done"
    PROVE  QueueInv'
<1>. DEFINE S == {}
<1>1. /\ S \in SUBSET Reqs /\ \A r \in S : st[r] = "waiting"
      /\ waiting' = waiting \ S
      /\ \A r \in Reqs : IF r \in S THEN result'[r] # "none"
                                  ELSE result'[r] = result[r]
      /\ mode' = mode \/ S = waiting
  OBVIOUS
<1>2. st' = [r \in Reqs |-> IF r \in S THEN "done" ELSE st[r]]
  BY DEF QueueInv, TypeOK
<1>. HIDE DEF S
<1>. QED  BY <1>1, <1>2, DropStep

\* A step that lets the requests of w compete for the slots that s leaves keeps
\* the invariant: w is the waiting list with, perhaps, one more request, and in
\* s, perhaps, one request less is in flight.
LEMMA AdmitStep ==
    ASSUME QueueInv, TypeOK', ClosersMatch', NEW w \in SUBSET Reqs,
           NEW s \in [Reqs -> EntryStates], NEW a, NEW tm, NEW rn,
           AdmitAvailable(w, s, a, tm, rn),
           mode' = mode, mode # "open" => w = {},
           Cardinality(w) <= Capacity,
           InFlight(s) \subseteq InFlight(st),
           \A r \in Reqs : r \in w <=> s[r] = "waiting",
           \A r \in Reqs : s[r] = "done" <=> a[r] # "none",
           \A r \in Reqs : s[r] # st[r] =>
               ~BackendLive(r) /\ rn[r] \in {"none", "done", "cancelled"},
           \A r \in Reqs : s[r] \in {"none", "waiting"} =>
               backend[r] = "none" /\ rn[r] = "none",
           \A r \in Reqs : s[r] = st[r] => rn[r] = runner[r],
           \A r \in Reqs : caller'[r] \in {"idle", "rejected"} => s[r] = "none",
           \A r \in Reqs : caller'[r] = "cancelled" => s[r] = "done"
    PROVE  QueueInv'
<1>. USE DEF QueueInv
<1>1. Cardinality(InFlight(s)) <= MaxInFlight
  <2>1. InFlight(st) \in SUBSET Reqs /\ MaxInFlight \in Nat
    BY ConstantsAssumption DEF InFlight
  <2>2. /\ Cardinality(InFlight(s)) <= Cardinality(InFlight(st))
        /\ Cardinality(InFlight(s)) \in Nat /\ Cardinality(InFlight(st)) \in Nat
    BY <2>1, FiniteReqs
  <2>. QED  BY <2>1, <2>2 DEF SlotsBounded
<1>2. PICK late \in SUBSET Reqs, sent \in SUBSET Reqs :
         /\ AdmitEffect(w, s, a, tm, rn, late, sent)
         /\ late \subseteq w /\ sent \subseteq w /\ late \cap sent = {}
         /\ Cardinality(InFlight(st')) <= MaxInFlight
         /\ \/ mode = "closing" \/ waiting' = {}
            \/ Cardinality(InFlight(st')) = MaxInFlight
  BY <1>1, AdmitLemma
<1>3. /\ waiting' = w \ (late \cup sent)
      /\ \A r \in Reqs : st'[r] = IF r \in late THEN "done" ELSE
                                  IF r \in sent THEN "in_flight" ELSE s[r]
      /\ \A r \in Reqs : result'[r] = IF r \in late THEN "TIMEOUT" ELSE a[r]
      /\ \A r \in Reqs : backend'[r] = IF r \in sent THEN "new" ELSE backend[r]
      /\ \A r \in Reqs : runner'[r] = IF r \in sent THEN "new" ELSE rn[r]
  BY <1>2 DEF AdmitEffect
<1>4. IndexConsistent'
  BY <1>2, <1>3 DEF IndexConsistent
<1>5. TasksHoldSlot'
  <2>. SUFFICES ASSUME NEW r \in Reqs
                PROVE  /\ BackendLive(r)' => st'[r] = "in_flight"
                       /\ runner'[r] \notin {"none", "done", "cancelled"}
                             => st'[r] = "in_flight"
                       /\ runner'[r] \in {"thrown", "drain"} => ~BackendLive(r)'
                       /\ st'[r] \in {"none", "waiting"}
                             => backend'[r] = "none" /\ runner'[r] = "none"
    BY DEF TasksHoldSlot
  <2>1. CASE r \in late \cup sent
    <3>1. backend[r] = "none" /\ rn[r] = "none"
      BY <1>2, <2>1
    <3>. QED  BY <1>2, <1>3, <2>1, <3>1 DEF BackendLive, BackendLiveStates
  <2>2. CASE r \notin late \cup sent
    BY <1>3, <2>2 DEF TasksHoldSlot, BackendLive
  <2>. QED  BY <2>1, <2>2
<1>6. WaitingOnlyOpen'
  BY <1>3 DEF WaitingOnlyOpen
<1>7. CallersMatch'
  BY <1>2, <1>3 DEF CallersMatch
<1>8. SlotsBounded' /\ WorkConserving'
  BY <1>2, <1>6 DEF SlotsBounded, WorkConserving, WaitingOnlyOpen
<1>9. QueueBounded'
  <2>1. Cardinality(waiting') <= Cardinality(w)
    BY <1>3, FiniteReqs
  <2>2. Cardinality(waiting') \in Nat /\ Cardinality(w) \in Nat /\ Capacity \in Nat
    BY <1>3, FiniteReqs, ConstantsAssumption
  <2>. QED  BY <2>1, <2>2 DEF QueueBounded
<1>. QED  BY <1>4, <1>5, <1>6, <1>7, <1>8, <1>9

\* Only acloses leave "idle", and they close the queue.
LEMMA CloserModeStep == TypeOK /\ ClosersMatch /\ [Next]_vars => ClosersMatch'
<1>. SUFFICES ASSUME TypeOK, ClosersMatch, [Next]_vars PROVE ClosersMatch'
  OBVIOUS
<1>1. CASE UNCHANGED closer /\ mode' = mode
  BY <1>1 DEF ClosersMatch
<1>2. CASE Start
  BY <1>2 DEF Start, closeVars, ClosersMatch
<1>3. CASE Tick \/ UNCHANGED vars
  BY <1>1, <1>3 DEF Tick, vars, closeVars
<1>4. ASSUME NEW r \in Reqs, CallerStep(r) PROVE ClosersMatch'
  BY <1>1, <1>4 DEF CallerStep, CallerResumes, Reject, Accept, CancelCaller,
     CallerReturns, CancelWaiting, CancelInFlight, CancelDone, CallerDrained,
     CallerGoes, closeVars
<1>5. ASSUME NEW r \in Reqs, TimerResumes(r) PROVE ClosersMatch'
  BY <1>1, <1>5 DEF TimerResumes, TimerSleeps, TimeoutWaiting, TimeoutInFlight,
     TimerEnds, TimerGoes, closeVars
<1>6. ASSUME NEW r \in Reqs, BackendStep(r) PROVE ClosersMatch'
  BY <1>1, <1>6 DEF BackendStep, BackendStarts, BackendEnds,
     CancelledBackendEnds, BackendGoes, closeVars
<1>7. ASSUME NEW r \in Reqs, RunnerResumes(r) PROVE ClosersMatch'
  BY <1>1, <1>7 DEF RunnerResumes, RunnerAwaits, RunnerFinishes, RunnerDrains,
     RunnerDrained, RunnerDies, RunnerGoes, RunnerCompletes, closeVars
<1>8. ASSUME NEW c \in Closers, CloserStep(c) PROVE ClosersMatch'
  <2>1. CASE CloseIdle(c)
    BY <2>1 DEF CloseIdle, ClosersMatch
  <2>2. CASE Close(c)
    BY <2>2 DEF Close, JoinTimers, Ends, ClosersMatch
  <2>3. CASE CloserJoins(c)
    <3>1. closer[c] # "idle"
      BY <2>3 DEF CloserJoins
    <3>2. mode' = mode \/ mode' = "closed"
      BY <2>3 DEF CloserJoins, JoinTimers, Ends
    <3>. QED  BY <3>1, <3>2 DEF ClosersMatch, TypeOK
  <2>4. CASE CloserRaises(c)
    BY <2>4 DEF CloserRaises, Ends, ClosersMatch
  <2>5. CASE CancelCloser(c)
    BY <1>1, <2>5 DEF CancelCloser
  <2>. QED  BY <1>8, <2>1, <2>2, <2>3, <2>4, <2>5 DEF CloserStep
<1>. QED  BY <1>2, <1>3, <1>4, <1>5, <1>6, <1>7, <1>8 DEF Next

\* Every step of every task keeps the invariant.
LEMMA QueueStep == QueueInv /\ [Next]_vars => QueueInv'
<1>. SUFFICES ASSUME QueueInv, [Next]_vars PROVE QueueInv'
  OBVIOUS
<1>0. TypeOK /\ TypeOK' /\ ClosersMatch'
  BY TypeStep, CloserModeStep DEF QueueInv
<1>1. ASSUME NEW r \in Reqs, CallerStep(r) PROVE QueueInv'
  <2>1. ASSUME NEW from, NEW to, CallerGoes(r, from, to),
               to \in {"idle", "rejected"} => from = "idle",
               to = "cancelled" => st[r] = "done"
        PROVE  QueueInv'
    <3>1. /\ UNCHANGED <<mode, waiting, st, result, backend, runner>>
          /\ \A q \in Reqs : caller'[q] = IF q = r THEN to ELSE caller[q]
          /\ caller[r] = from
      BY <1>0, <2>1 DEF CallerGoes, entryVars, tasks, TypeOK
    <3>. QED  BY <1>0, <2>1, <3>1, QuietStep
              DEF QueueInv, TypeOK, BackendLive, TasksHoldSlot
  <2>2. CASE Reject(r) \/ CancelCaller(r) \/ CallerReturns(r) \/ CancelDone(r)
    BY <2>1, <2>2 DEF Reject, CancelCaller, CallerReturns, CancelDone
  <2>3. CASE CallerDrained(r)
    BY <2>1, <2>3 DEF CallerDrained, QueueInv, IndexConsistent
  <2>4. CASE CancelWaiting(r)
    <3>. DEFINE S == {r}
    <3>1. /\ waiting' = waiting \ S
          /\ st' = [q \in Reqs |-> IF q \in S THEN "done" ELSE st[q]]
          /\ \A q \in Reqs : result'[q] = IF q \in S THEN "CANCELLED" ELSE result[q]
          /\ \A q \in Reqs : caller'[q] = IF q = r THEN "cancelled" ELSE caller[q]
          /\ UNCHANGED <<mode, backend, runner>>
      BY <1>0, <2>4 DEF CancelWaiting, TypeOK
    <3>2. \A q \in S : st[q] = "waiting"
      BY <2>4 DEF CancelWaiting
    <3>. HIDE DEF S
    <3>3. S \in SUBSET Reqs /\ r \in S
      BY DEF S
    <3>. QED  BY <1>0, <3>1, <3>2, <3>3, DropStep, ZenonT(60)
              DEF QueueInv, TypeOK, BackendLive, TasksHoldSlot
  <2>5. CASE CancelInFlight(r)
    <3>1. /\ UNCHANGED <<mode, waiting, st, result, runner>>
          /\ \A q \in Reqs : caller'[q] = IF q = r THEN "drain" ELSE caller[q]
          /\ \A q \in Reqs : \/ backend'[q] = backend[q]
                             \/ backend'[q] = CancelBackend(backend[q])
      BY <1>0, <2>5 DEF CancelInFlight, TypeOK
    <3>2. \A q \in Reqs : /\ BackendLive(q)' <=> BackendLive(q)
                          /\ backend[q] = "none" => backend'[q] = "none"
      BY <3>1 DEF BackendLive, BackendLiveStates, CancelBackend
    <3>. QED  BY <1>0, <3>1, <3>2, QuietStep DEF QueueInv, TypeOK, TasksHoldSlot
  <2>6. CASE Accept(r)
    <3>. DEFINE w == waiting \cup {r}
                s == [st EXCEPT ![r] = "waiting"]
                tm == [timer EXCEPT ![r] = "new"]
    <3>1. /\ AdmitAvailable(w, s, result, tm, runner)
          /\ mode' = mode /\ mode = "open" /\ ~(Cardinality(waiting) >= Capacity)
          /\ caller[r] = "idle" /\ caller' = [caller EXCEPT ![r] = "await"]
      BY <2>6 DEF Accept, Accepting, QueueFull
    <3>2. st[r] = "none" /\ backend[r] = "none" /\ runner[r] = "none"
          /\ result[r] = "none" /\ r \notin waiting
      BY <3>1, <1>0 DEF QueueInv, CallersMatch, TasksHoldSlot, IndexConsistent,
                        TypeOK, ResultStatuses
    <3>3. Cardinality(w) <= Capacity
      <4>1. waiting \in SUBSET Reqs /\ Capacity \in Nat
        BY <1>0, ConstantsAssumption DEF TypeOK
      <4>2. IsFiniteSet(waiting) /\ Cardinality(waiting) \in Nat
        BY <4>1, FiniteReqs
      <4>3. Cardinality(w) = Cardinality(waiting) + 1
        BY <3>2, <4>2, FS_AddElement
      <4>. QED  BY <3>1, <4>1, <4>2, <4>3
    <3>4. /\ w \in SUBSET Reqs /\ s \in [Reqs -> EntryStates]
          /\ \A q \in Reqs : s[q] = IF q = r THEN "waiting" ELSE st[q]
      BY <1>0 DEF TypeOK, EntryStates
    <3>5. InFlight(s) \subseteq InFlight(st)
      BY <3>4 DEF InFlight
    <3>6. \A q \in Reqs : q \in w <=> s[q] = "waiting"
      BY <3>4 DEF QueueInv, IndexConsistent
    <3>7. \A q \in Reqs : s[q] = "done" <=> result[q] # "none"
      BY <3>2, <3>4 DEF QueueInv, IndexConsistent
    <3>8. /\ \A q \in Reqs : s[q] # st[q] =>
               ~BackendLive(q) /\ runner[q] \in {"none", "done", "cancelled"}
          /\ \A q \in Reqs : s[q] \in {"none", "waiting"} =>
               backend[q] = "none" /\ runner[q] = "none"
      BY <3>2, <3>4 DEF QueueInv, TasksHoldSlot, BackendLive, BackendLiveStates
    <3>9. /\ \A q \in Reqs : caller'[q] \in {"idle", "rejected"} => s[q] = "none"
          /\ \A q \in Reqs : caller'[q] = "cancelled" => s[q] = "done"
      BY <1>0, <3>1, <3>4 DEF QueueInv, CallersMatch, TypeOK
    <3>. HIDE DEF w, s, tm
    <3>. QED  BY <1>0, <3>1, <3>3, <3>4, <3>5, <3>6, <3>7, <3>8, <3>9, AdmitStep
  <2>. QED  BY <1>1, <2>2, <2>3, <2>4, <2>5, <2>6 DEF CallerStep, CallerResumes
<1>2. ASSUME NEW r \in Reqs, TimerResumes(r) PROVE QueueInv'
  <2>1. CASE TimerSleeps(r) \/ TimerEnds(r)
    <3>1. UNCHANGED <<mode, waiting, st, result, caller, backend, runner>>
      BY <2>1 DEF TimerSleeps, TimerEnds, TimerGoes, entryVars
    <3>. QED  BY <1>0, <3>1, QuietStep
              DEF QueueInv, TypeOK, BackendLive, TasksHoldSlot
  <2>2. CASE TimeoutWaiting(r)
    <3>. DEFINE S == {r}
    <3>1. /\ waiting' = waiting \ S
          /\ st' = [q \in Reqs |-> IF q \in S THEN "done" ELSE st[q]]
          /\ \A q \in Reqs : result'[q] = IF q \in S THEN "TIMEOUT" ELSE result[q]
          /\ UNCHANGED <<mode, caller, backend, runner>>
      BY <1>0, <2>2 DEF TimeoutWaiting, TypeOK
    <3>2. \A q \in S : st[q] = "waiting"
      BY <2>2 DEF TimeoutWaiting
    <3>3. S \in SUBSET Reqs
      OBVIOUS
    <3>. HIDE DEF S
    <3>. QED  BY <1>0, <3>1, <3>2, <3>3, DropStep, ZenonT(60)
              DEF QueueInv, TypeOK, BackendLive, TasksHoldSlot
  <2>3. CASE TimeoutInFlight(r)
    <3>1. /\ UNCHANGED <<mode, waiting, st, result, caller, runner>>
          /\ \A q \in Reqs : \/ backend'[q] = backend[q]
                             \/ backend'[q] = CancelBackend(backend[q])
      BY <1>0, <2>3 DEF TimeoutInFlight, TypeOK
    <3>2. \A q \in Reqs : /\ BackendLive(q)' <=> BackendLive(q)
                          /\ backend[q] = "none" => backend'[q] = "none"
      BY <3>1 DEF BackendLive, BackendLiveStates, CancelBackend
    <3>. QED  BY <1>0, <3>1, <3>2, QuietStep DEF QueueInv, TypeOK, TasksHoldSlot
  <2>. QED  BY <1>2, <2>1, <2>2, <2>3 DEF TimerResumes
<1>3. ASSUME NEW r \in Reqs, BackendStep(r) PROVE QueueInv'
  <2>1. ASSUME NEW from \in BackendLiveStates, NEW to, BackendGoes(r, from, to)
        PROVE  QueueInv'
    <3>1. /\ UNCHANGED <<mode, waiting, st, result, caller, runner>>
          /\ \A q \in Reqs : backend'[q] = backend[q] \/ (q = r /\ BackendLive(q))
      BY <1>0, <2>1 DEF BackendGoes, entryVars, TypeOK, BackendLive
    <3>2. \A q \in Reqs : /\ BackendLive(q)' => BackendLive(q)
                          /\ backend[q] = "none" => backend'[q] = "none"
      BY <3>1 DEF BackendLive, BackendLiveStates
    <3>. QED  BY <1>0, <3>1, <3>2, QuietStep DEF QueueInv, TypeOK, TasksHoldSlot
  <2>. QED  BY <1>3, <2>1 DEF BackendStep, BackendStarts, BackendEnds,
                              CancelledBackendEnds, BackendLiveStates
<1>4. ASSUME NEW r \in Reqs, RunnerResumes(r) PROVE QueueInv'
  <2>1. ASSUME NEW from, NEW to, RunnerGoes(r, from, to),
               from \notin {"none", "done", "cancelled"}, to # "none",
               to \in {"thrown", "drain"} => ~BackendLive(r)
        PROVE  QueueInv'
    <3>1. /\ UNCHANGED <<mode, waiting, st, result, caller, backend>>
          /\ \A q \in Reqs : runner'[q] = IF q = r THEN to ELSE runner[q]
          /\ runner[r] = from
      BY <1>0, <2>1 DEF RunnerGoes, entryVars, TypeOK
    <3>. QED  BY <1>0, <2>1, <3>1, QuietStep
              DEF QueueInv, TypeOK, BackendLive, TasksHoldSlot
  <2>2. CASE RunnerAwaits(r) \/ RunnerDies(r)
    BY <2>1, <2>2 DEF RunnerAwaits, RunnerDies
  <2>3. CASE RunnerDrains(r)
    <3>1. CASE backend[r] = "cancelled" /\ RunnerGoes(r, "relayed", "drain")
      BY <2>1, <3>1 DEF BackendLive, BackendLiveStates
    <3>2. CASE RunnerGoes(r, "thrown", "drain")
      BY <2>1, <3>2 DEF RunnerGoes, QueueInv, TasksHoldSlot
    <3>. QED  BY <2>3, <3>1, <3>2 DEF RunnerDrains
  <2>4. ASSUME NEW x \in {"SUCCESS", "ERROR", "CANCELLED"},
               NEW end \in {"done", "cancelled"}, RunnerCompletes(r, x, end),
               ~BackendLive(r), runner[r] \notin {"none", "done", "cancelled"}
        PROVE  QueueInv'
    <3>. DEFINE s == [st EXCEPT ![r] = "done"]
                a == [result EXCEPT ![r] = IF st[r] = "done" THEN @
                                           ELSE FinalStatus(r, x)]
                tm == [timer EXCEPT ![r] = CancelTimer(@)]
                rn == [runner EXCEPT ![r] = end]
    <3>1. /\ AdmitAvailable(waiting, s, a, tm, rn)
          /\ mode' = mode /\ caller' = caller
      BY <2>4 DEF RunnerCompletes
    <3>2. st[r] = "in_flight"
      BY <2>4 DEF QueueInv, TasksHoldSlot
    <3>3. FinalStatus(r, x) # "none"
      BY <2>4 DEF FinalStatus
    <3>4. /\ waiting \in SUBSET Reqs /\ s \in [Reqs -> EntryStates]
          /\ \A q \in Reqs : s[q] = IF q = r THEN "done" ELSE st[q]
          /\ \A q \in Reqs : rn[q] = IF q = r THEN end ELSE runner[q]
          /\ \A q \in Reqs : IF q = r THEN a[q] # "none" ELSE a[q] = result[q]
      BY <1>0, <3>2, <3>3 DEF TypeOK, EntryStates
    <3>5. InFlight(s) \subseteq InFlight(st)
      BY <3>4 DEF InFlight
    <3>6. /\ \A q \in Reqs : q \in waiting <=> s[q] = "waiting"
          /\ \A q \in Reqs : s[q] = "done" <=> a[q] # "none"
      BY <3>2, <3>4 DEF QueueInv, IndexConsistent
    <3>7. /\ \A q \in Reqs : s[q] # st[q] =>
               ~BackendLive(q) /\ rn[q] \in {"none", "done", "cancelled"}
          /\ \A q \in Reqs : s[q] \in {"none", "waiting"} =>
               backend[q] = "none" /\ rn[q] = "none"
          /\ \A q \in Reqs : s[q] = st[q] => rn[q] = runner[q]
      BY <2>4, <3>2, <3>4 DEF QueueInv, TasksHoldSlot
    <3>8. /\ \A q \in Reqs : caller'[q] \in {"idle", "rejected"} => s[q] = "none"
          /\ \A q \in Reqs : caller'[q] = "cancelled" => s[q] = "done"
      BY <3>1, <3>2, <3>4 DEF QueueInv, CallersMatch
    <3>9. (mode # "open" => waiting = {}) /\ Cardinality(waiting) <= Capacity
      BY DEF QueueInv, WaitingOnlyOpen, QueueBounded
    <3>. HIDE DEF s, a, tm, rn
    <3>. QED  BY <1>0, <3>1, <3>4, <3>5, <3>6, <3>7, <3>8, <3>9, AdmitStep
  <2>5. CASE RunnerFinishes(r)
    <3>1. \/ RunnerCompletes(r, "SUCCESS", "done")
          \/ RunnerCompletes(r, "ERROR", "done")
          \/ RunnerCompletes(r, "CANCELLED", "done")
      BY <2>5 DEF RunnerFinishes, BackendAnswered, BackendStatus
    <3>2. ~BackendLive(r) /\ runner[r] \notin {"none", "done", "cancelled"}
      BY <2>5 DEF RunnerFinishes, BackendAnswered, BackendStatus
    <3>. QED  BY <2>4, <3>1, <3>2
  <2>6. CASE RunnerDrained(r)
    BY <2>4, <2>6 DEF RunnerDrained, QueueInv, TasksHoldSlot
  <2>. QED  BY <1>4, <2>2, <2>3, <2>5, <2>6 DEF RunnerResumes
<1>5. ASSUME NEW c \in Closers, CloserStep(c) PROVE QueueInv'
  <2>1. ASSUME UNCHANGED <<waiting, st, result, caller, backend, runner>>,
               mode' = mode \/ mode # "open"
        PROVE  QueueInv'
    BY <1>0, <2>1, QuietStep
    DEF QueueInv, TypeOK, BackendLive, TasksHoldSlot, WaitingOnlyOpen
  <2>2. CASE CloseIdle(c)
    BY <2>1, <2>2 DEF CloseIdle, entryVars, tasks
  <2>3. CASE Close(c)
    <3>. DEFINE S == waiting
    <3>1. /\ waiting' = waiting \ S
          /\ st' = [q \in Reqs |-> IF q \in S THEN "done" ELSE st[q]]
          /\ \A q \in Reqs : result'[q] = IF q \in S THEN "CANCELLED" ELSE result[q]
          /\ UNCHANGED <<caller, runner>>
          /\ \A q \in Reqs : \/ backend'[q] = backend[q]
                             \/ backend'[q] = CancelBackend(backend[q])
      BY <2>3 DEF Close
    <3>2. \A q \in Reqs : /\ BackendLive(q)' <=> BackendLive(q)
                          /\ backend[q] = "none" => backend'[q] = "none"
      BY <3>1 DEF BackendLive, BackendLiveStates, CancelBackend
    <3>3. /\ S \in SUBSET Reqs /\ S = waiting
          /\ \A q \in S : st[q] = "waiting"
      BY <1>0 DEF QueueInv, IndexConsistent, TypeOK
    <3>4. /\ \A q \in Reqs : runner'[q] \in {"thrown", "drain"} => ~BackendLive(q)'
          /\ \A q \in Reqs : caller'[q] = caller[q] /\ runner'[q] = runner[q]
          /\ \A q \in Reqs : caller'[q] = "cancelled" => caller[q] = "cancelled"
      BY <3>1, <3>2 DEF QueueInv, TasksHoldSlot
    <3>. HIDE DEF S
    <3>. QED  BY <1>0, <3>1, <3>2, <3>3, <3>4, DropStep
  <2>4. CASE CloserJoins(c) \/ CloserRaises(c)
    <3>1. UNCHANGED <<waiting, st, result, caller, backend, runner>>
      BY <2>4 DEF CloserJoins, CloserRaises, entryVars, tasks
    <3>2. mode # "open"
      BY <2>4 DEF CloserJoins, CloserRaises, GatherDone, GatherCancelled,
                  QueueInv, ClosersMatch
    <3>. QED  BY <2>1, <3>1, <3>2
  <2>5. CASE CancelCloser(c)
    <3>1. /\ UNCHANGED <<mode, waiting, st, result, caller>>
          /\ \A q \in Reqs : \/ runner'[q] = runner[q]
                             \/ runner'[q] = CancelRunner(runner[q], backend[q])
          /\ \A q \in Reqs : \/ backend'[q] = backend[q]
                             \/ backend'[q] = CancelBackend(backend[q])
      BY <2>5 DEF CancelCloser, entryVars
    <3>2. \A q \in Reqs : /\ BackendLive(q)' <=> BackendLive(q)
                          /\ backend[q] = "none" => backend'[q] = "none"
      BY <3>1 DEF BackendLive, BackendLiveStates, CancelBackend
    <3>3. \A q \in Reqs : /\ runner[q] = "none" => runner'[q] = "none"
                          /\ runner'[q] \notin {"none", "done", "cancelled"}
                                => runner[q] \notin {"none", "done", "cancelled"}
                          /\ runner'[q] \in {"thrown", "drain"} => ~BackendLive(q)
      BY <3>1 DEF CancelRunner, BackendLive, QueueInv, TasksHoldSlot
    <3>. QED  BY <1>0, <3>1, <3>2, <3>3, QuietStep DEF QueueInv, TypeOK
  <2>. QED  BY <1>5, <2>2, <2>3, <2>4, <2>5 DEF CloserStep
<1>6. CASE Start \/ Tick \/ UNCHANGED vars
  <2>1. UNCHANGED <<waiting, st, result, caller, backend, runner>>
    BY <1>6 DEF Start, Tick, vars, entryVars, tasks
  <2>2. mode' = mode \/ waiting = {}
    BY <1>6 DEF Start, Tick, vars, QueueInv, WaitingOnlyOpen
  <2>. QED  BY <1>0, <2>1, <2>2, QuietStep
            DEF QueueInv, TypeOK, BackendLive, TasksHoldSlot
<1>. QED  BY <1>1, <1>2, <1>3, <1>4, <1>5, <1>6 DEF Next

\* The invariant holds when the queue is created.
LEMMA QueueInit == Init => QueueInv
<1>. SUFFICES ASSUME Init PROVE QueueInv
  OBVIOUS
<1>1. TypeOK
  BY ConstantsAssumption DEF Init, TypeOK, EntryStates, ForcedStatuses,
     ResultStatuses, CallerStates, TimerStates, BackendStates, RunnerStates,
     CloserStates
<1>2. InFlight(st) = {} /\ waiting = {}
  BY DEF Init, InFlight
<1>3. SlotsBounded /\ QueueBounded /\ WorkConserving
  BY <1>2, ConstantsAssumption, FS_EmptySet
  DEF SlotsBounded, QueueBounded, WorkConserving
<1>. QED  BY <1>1, <1>3 DEF Init, QueueInv, IndexConsistent, TasksHoldSlot,
          WaitingOnlyOpen, CallersMatch, ClosersMatch, BackendLive, BackendLiveStates

-----------------------------------------------------------------------------
(* The theorems.                                                           *)

\* The invariant holds in every behaviour.
THEOREM QueueInvariant == Spec => []QueueInv
BY QueueInit, QueueStep, PTL DEF Spec

\* No more than max_in_flight requests are ever in flight.
THEOREM SlotsAreBounded == Spec => []SlotsBounded
<1>1. QueueInv => SlotsBounded
  BY DEF QueueInv
<1>. QED  BY <1>1, QueueInvariant, PTL

\* The backend never works on more than max_in_flight requests at a time.
THEOREM BackendsAreBounded == Spec => []BackendsBounded
<1>1. QueueInv => BackendsBounded
  <2>. SUFFICES ASSUME QueueInv PROVE BackendsBounded
    OBVIOUS
  <2>. DEFINE live == {r \in Reqs : BackendLive(r)}
  <2>1. live \in SUBSET InFlight(st) /\ InFlight(st) \in SUBSET Reqs
    BY DEF QueueInv, TasksHoldSlot, InFlight
  <2>2. Cardinality(live) <= Cardinality(InFlight(st))
    BY <2>1, FiniteReqs
  <2>3. /\ Cardinality(live) \in Nat /\ Cardinality(InFlight(st)) \in Nat
        /\ MaxInFlight \in Nat
    BY <2>1, FiniteReqs, ConstantsAssumption
  <2>. QED  BY <2>2, <2>3 DEF QueueInv, SlotsBounded, BackendsBounded
<1>. QED  BY <1>1, QueueInvariant, PTL

\* The waiting list never outgrows queue_capacity, although submit checks the
\* capacity before it lets the admission loop run.
THEOREM QueueIsBounded == Spec => []QueueBounded
<1>1. QueueInv => QueueBounded
  BY DEF QueueInv
<1>. QED  BY <1>1, QueueInvariant, PTL

\* Whichever of its tasks completes an entry, the waiting list, the entry's state
\* and its result future agree.
THEOREM IndexIsConsistent == Spec => []IndexConsistent
<1>1. QueueInv => IndexConsistent
  BY DEF QueueInv
<1>. QED  BY <1>1, QueueInvariant, PTL

\* No request waits beside a free slot, although only submit and the runners
\* run the admission loop.
THEOREM WorkIsConserved == Spec => []WorkConserving
<1>1. QueueInv => WorkConserving
  BY DEF QueueInv
<1>. QED  BY <1>1, QueueInvariant, PTL

\* A caller that was cancelled leaves no work behind.
THEOREM CancelledCallersDrain == Spec => []CancelledCallerDrains
<1>1. QueueInv => CancelledCallerDrains
  BY DEF QueueInv, CallersMatch, TasksHoldSlot, CancelledCallerDrains
<1>. QED  BY <1>1, QueueInvariant, PTL
-----------------------------------------------------------------------------
(* The watchdogs, the deadline and aclose, for every set of requests and   *)
(* of closing tasks.                                                       *)

Armed == {"new", "sleeping"}
Stopped(r) == forced[r] # "none" /\ backend[r] \notin {"new", "running"}

\* The watchdog of an entry is armed until the entry is complete, or its
\* backend has been told to stop.
TimersMatch ==
    \A r \in Reqs : /\ st[r] = "waiting" => timer[r] \in Armed
                    /\ st[r] \in {"none", "done"} => timer[r] \notin Armed
                    /\ st[r] = "in_flight" => timer[r] \in Armed \/ Stopped(r)

\* What is in flight while the queue is being closed has been told to stop.
ClosingStops ==
    /\ mode = "new" => \A r \in Reqs : st[r] = "none"
    /\ mode \in {"closing", "closed"} => \A r \in InFlight(st) : Stopped(r)

\* As long as no aclose is cancelled, no runner is, and each aclose waits for
\* all that is in flight.
ClosersWait ==
    closerCancelled = {} =>
        /\ \A r \in Reqs : /\ runner[r] \in {"none", "new", "await", "done"}
                           /\ st[r] = "in_flight" => runner[r] \in {"new", "await"}
        /\ mode = "closed" => InFlight(st) = {}
        /\ \A c \in Closers :
              /\ closer[c] = "runners" => InFlight(st) \subseteq joined[c]
              /\ closer[c] \in {"timers", "returned", "raised"} => InFlight(st) = {}

CloseInv == QueueInv /\ TimersMatch /\ ClosingStops /\ ClosersWait

\* What the admission loop does to the entries: those it completes lose their
\* watchdog, those it sends get new tasks, and it does so only in an open queue.
LEMMA AdmitTasks ==
    ASSUME NEW w \in SUBSET Reqs,
           NEW s \in [Reqs -> EntryStates], NEW a, NEW tm, NEW rn,
           \A r \in w : s[r] = "waiting",
           AdmitAvailable(w, s, a, tm, rn),
           Cardinality(InFlight(s)) <= MaxInFlight
    PROVE  \A r \in Reqs :
              \/ /\ r \in w /\ st'[r] = "done" /\ timer'[r] = CancelTimer(tm[r])
                 /\ backend'[r] = backend[r] /\ runner'[r] = rn[r]
              \/ /\ r \in w /\ st'[r] = "in_flight" /\ timer'[r] = tm[r]
                 /\ backend'[r] = "new" /\ runner'[r] = "new"
              \/ /\ st'[r] = s[r] /\ timer'[r] = tm[r]
                 /\ backend'[r] = backend[r] /\ runner'[r] = rn[r]
<1>1. PICK late, sent \in SUBSET Reqs :
         /\ AdmitEffect(w, s, a, tm, rn, late, sent)
         /\ late \subseteq w /\ sent \subseteq w /\ late \cap sent = {}
  BY AdmitLemma
<1>. QED  BY <1>1 DEF AdmitEffect

LEMMA Disarmed ==
    /\ \A pc : CancelTimer(pc) \notin Armed
    /\ \A pc : CancelBackend(pc) \notin {"new", "running"}
    /\ \A pc : pc \notin {"new", "running"} => CancelBackend(pc) = pc
BY DEF CancelTimer, CancelBackend, Armed

LEMMA CloseStep ==
    ASSUME CloseInv, [Next]_vars
    PROVE  CloseInv'
<1>0. QueueInv' /\ TypeOK
  BY QueueStep DEF CloseInv, QueueInv
<1>. DEFINE Claim == TimersMatch' /\ ClosingStops' /\ ClosersWait'
<1>. SUFFICES Claim
  BY <1>0 DEF CloseInv
<1>1. ASSUME UNCHANGED <<mode, entryVars, timer, backend, runner, closeVars>> PROVE Claim
  BY <1>1 DEF CloseInv, TimersMatch, ClosingStops, ClosersWait, Stopped, InFlight,
              entryVars, closeVars
<1>2. ASSUME NEW r \in Reqs, CallerStep(r) PROVE Claim
  <2>1. CASE \E from, to : CallerGoes(r, from, to)
    BY <1>1, <2>1 DEF CallerGoes, tasks
  <2>2. CASE CancelWaiting(r)
    BY <1>0, <2>2, Disarmed
       DEF CancelWaiting, CloseInv, TypeOK, TimersMatch, ClosingStops, ClosersWait,
           Stopped, InFlight, closeVars
  <2>3. CASE CancelInFlight(r)
    BY <1>0, <2>3, Disarmed
       DEF CancelInFlight, CloseInv, TypeOK, TimersMatch, ClosingStops, ClosersWait,
           Stopped, InFlight, closeVars
  <2>4. CASE Accept(r)
    <3>. DEFINE w == waiting \cup {r}
                s == [st EXCEPT ![r] = "waiting"]
                tm == [timer EXCEPT ![r] = "new"]
    <3>1. /\ AdmitAvailable(w, s, result, tm, runner)
          /\ mode = "open" /\ st[r] = "none"
          /\ UNCHANGED <<mode, forced, closeVars>>
      BY <2>4 DEF Accept, Accepting, CloseInv, QueueInv, CallersMatch
    <3>2. /\ w \in SUBSET Reqs /\ s \in [Reqs -> EntryStates]
          /\ \A q \in w : s[q] = "waiting"
          /\ InFlight(s) = InFlight(st)
      BY <1>0, <3>1 DEF TypeOK, CloseInv, QueueInv, IndexConsistent, EntryStates, InFlight
    <3>3. Cardinality(InFlight(s)) <= MaxInFlight
      BY <3>2 DEF CloseInv, QueueInv, SlotsBounded
    <3>4. \A q \in Reqs :
              \/ /\ q \in w /\ st'[q] = "done" /\ timer'[q] = CancelTimer(tm[q])
                 /\ backend'[q] = backend[q] /\ runner'[q] = runner[q]
              \/ /\ q \in w /\ st'[q] = "in_flight" /\ timer'[q] = tm[q]
                 /\ backend'[q] = "new" /\ runner'[q] = "new"
              \/ /\ st'[q] = s[q] /\ timer'[q] = tm[q]
                 /\ backend'[q] = backend[q] /\ runner'[q] = runner[q]
      <4>. HIDE DEF w, s, tm
      <4>. QED  BY <3>1, <3>2, <3>3, AdmitTasks
    <3>5. \A q \in Reqs : /\ q # r => s[q] = st[q] /\ tm[q] = timer[q]
                          /\ q = r => s[q] = "waiting" /\ tm[q] = "new"
                          /\ q \in w /\ q # r => st[q] = "waiting"
      BY <1>0 DEF TypeOK, CloseInv, QueueInv, IndexConsistent
    <3>. HIDE DEF w, s, tm
    <3>6. TimersMatch'
      BY <3>1, <3>4, <3>5, Disarmed DEF CloseInv, TimersMatch, Stopped, Armed
    <3>7. ClosingStops'
      BY <3>1 DEF ClosingStops
    <3>8. ClosersWait'
      BY <3>1, <3>4, <3>5
         DEF CloseInv, QueueInv, ClosersMatch, ClosersWait, InFlight, closeVars
    <3>. QED  BY <3>6, <3>7, <3>8
  <2>. QED  BY <1>2, <2>1, <2>2, <2>3, <2>4
            DEF CallerStep, Reject, CancelCaller, CallerResumes, CallerReturns,
                CancelDone, CallerDrained
<1>3. ASSUME NEW r \in Reqs, TimerResumes(r) PROVE Claim
  <2>1. CASE TimerSleeps(r)
    BY <1>0, <2>1 DEF TimerSleeps, TimerGoes, CloseInv, TypeOK, TimersMatch, Armed,
                      ClosingStops, ClosersWait, Stopped, InFlight, entryVars, closeVars
  <2>2. CASE TimeoutWaiting(r)
    BY <1>0, <2>2 DEF TimeoutWaiting, TimerExpires, CloseInv, TypeOK, TimersMatch, Armed,
                      ClosingStops, ClosersWait, Stopped, InFlight, closeVars
  <2>3. CASE TimeoutInFlight(r)
    BY <1>0, <2>3, Disarmed
       DEF TimeoutInFlight, TimerExpires, CloseInv, TypeOK, TimersMatch, Armed,
           EntryStates, ClosingStops, ClosersWait, Stopped, InFlight, closeVars
  <2>4. CASE TimerEnds(r)
    BY <1>0, <2>4 DEF TimerEnds, TimerGoes, CloseInv, TypeOK, TimersMatch, Armed,
                      ClosingStops, ClosersWait, Stopped, InFlight, entryVars, closeVars
  <2>. QED  BY <1>3, <2>1, <2>2, <2>3, <2>4 DEF TimerResumes
<1>4. ASSUME NEW r \in Reqs, BackendStep(r) PROVE Claim
  <2>1. /\ UNCHANGED <<mode, entryVars, timer, runner, closeVars>>
        /\ \A q \in Reqs : backend[q] \notin {"new", "running"}
                              => backend'[q] \notin {"new", "running"}
    BY <1>0, <1>4 DEF BackendStep, BackendStarts, BackendEnds, CancelledBackendEnds,
                      BackendGoes, BackendEndStates, TypeOK
  <2>. QED  BY <2>1 DEF CloseInv, TimersMatch, ClosingStops, ClosersWait, Stopped,
                        InFlight, entryVars, closeVars
<1>5. ASSUME NEW r \in Reqs, RunnerResumes(r) PROVE Claim
  <2>1. CASE RunnerAwaits(r)
    BY <1>0, <2>1 DEF RunnerAwaits, RunnerGoes, CloseInv, TypeOK, TimersMatch,
                      ClosingStops, ClosersWait, Stopped, InFlight, entryVars, closeVars
  <2>2. CASE RunnerDrains(r) \/ RunnerDies(r)
    <3>1. closerCancelled # {}
      BY <2>2 DEF RunnerDrains, RunnerDies, RunnerGoes, CloseInv, ClosersWait
    <3>. QED  BY <2>2, <3>1
              DEF RunnerDrains, RunnerDies, RunnerGoes, CloseInv, TimersMatch,
                  ClosingStops, ClosersWait, Stopped, InFlight, entryVars, closeVars
  <2>3. ASSUME NEW x, NEW end, RunnerCompletes(r, x, end), st[r] = "in_flight",
               closerCancelled = {} => end = "done"
        PROVE  Claim
    <3>. DEFINE s == [st EXCEPT ![r] = "done"]
                tm == [timer EXCEPT ![r] = CancelTimer(@)]
                rn == [runner EXCEPT ![r] = end]
    <3>0. UNCHANGED <<mode, forced, closeVars>>
      BY <2>3 DEF RunnerCompletes
    <3>1. PICK a : AdmitAvailable(waiting, s, a, tm, rn)
      BY <2>3 DEF RunnerCompletes
    <3>2. /\ waiting \in SUBSET Reqs /\ s \in [Reqs -> EntryStates]
          /\ \A q \in waiting : s[q] = "waiting"
          /\ InFlight(s) = InFlight(st) \ {r}
      BY <1>0, <2>3 DEF TypeOK, CloseInv, QueueInv, IndexConsistent, EntryStates, InFlight
    <3>3. Cardinality(InFlight(s)) <= MaxInFlight
      <4>1. InFlight(st) \in SUBSET Reqs /\ InFlight(s) \in SUBSET InFlight(st)
        BY <3>2 DEF InFlight
      <4>2. Cardinality(InFlight(s)) <= Cardinality(InFlight(st))
            /\ Cardinality(InFlight(s)) \in Nat /\ Cardinality(InFlight(st)) \in Nat
        BY <4>1, FiniteReqs
      <4>. QED  BY <4>2, ConstantsAssumption DEF CloseInv, QueueInv, SlotsBounded
    <3>4. \A q \in Reqs :
              \/ /\ q \in waiting /\ st'[q] = "done" /\ timer'[q] = CancelTimer(tm[q])
                 /\ backend'[q] = backend[q] /\ runner'[q] = rn[q]
              \/ /\ q \in waiting /\ st'[q] = "in_flight" /\ timer'[q] = tm[q]
                 /\ backend'[q] = "new" /\ runner'[q] = "new"
              \/ /\ st'[q] = s[q] /\ timer'[q] = tm[q]
                 /\ backend'[q] = backend[q] /\ runner'[q] = rn[q]
      <4>. HIDE DEF s, tm, rn
      <4>. QED  BY <3>1, <3>2, <3>3, AdmitTasks
    <3>5. \A q \in Reqs :
             /\ q # r => s[q] = st[q] /\ tm[q] = timer[q] /\ rn[q] = runner[q]
             /\ q = r => s[q] = "done" /\ tm[q] = CancelTimer(timer[r]) /\ rn[q] = end
             /\ q \in waiting => st[q] = "waiting"
      BY <1>0 DEF TypeOK, CloseInv, QueueInv, IndexConsistent
    <3>6. mode # "open" => waiting = {}
      BY DEF CloseInv, QueueInv, WaitingOnlyOpen
    <3>. HIDE DEF s, tm, rn
    <3>7. TimersMatch'
      BY <2>3, <3>0, <3>4, <3>5, Disarmed DEF CloseInv, TimersMatch, Stopped
    <3>8. ClosingStops'
      BY <2>3, <3>0, <3>4, <3>5, <3>6 DEF CloseInv, ClosingStops, Stopped, InFlight
    <3>9. ClosersWait'
      BY <2>3, <3>0, <3>4, <3>5, <3>6
         DEF CloseInv, QueueInv, ClosersMatch, ClosersWait, InFlight, closeVars
    <3>. QED  BY <3>7, <3>8, <3>9
  <2>4. CASE RunnerFinishes(r)
    <3>1. \E x : RunnerCompletes(r, x, "done")
      BY <2>4 DEF RunnerFinishes, BackendAnswered, BackendStatus
    <3>2. st[r] = "in_flight"
      BY <2>4 DEF RunnerFinishes, BackendAnswered, BackendStatus, CloseInv, QueueInv,
                  TasksHoldSlot
    <3>. QED  BY <2>3, <3>1, <3>2
  <2>5. CASE RunnerDrained(r)
    <3>1. closerCancelled # {} /\ st[r] = "in_flight"
      BY <2>5 DEF RunnerDrained, CloseInv, ClosersWait, QueueInv, TasksHoldSlot
    <3>. QED  BY <2>3, <2>5, <3>1 DEF RunnerDrained
  <2>. QED  BY <1>5, <2>1, <2>2, <2>4, <2>5 DEF RunnerResumes
<1>6. ASSUME NEW c \in Closers, CloserStep(c) PROVE Claim
  <2>0. ASSUME UNCHANGED <<entryVars, timer, backend, runner, closerCancelled>>,
               mode' \in {mode, "closed"}, mode # "open",
               NEW k \in {"timers", "returned", "raised"},
               closer' = [closer EXCEPT ![c] = k],
               \A d \in Closers \ {c} : joined'[d] = joined[d],
               closerCancelled = {} => InFlight(st) = {}
        PROVE  Claim
    <3>1. mode' = "closed" => mode = "closed" \/ mode = "closing" \/ mode = "new"
      BY <1>0, <2>0 DEF TypeOK
    <3>. QED  BY <1>0, <2>0, <3>1
              DEF TypeOK, CloseInv, TimersMatch, ClosingStops, ClosersWait, Stopped,
                  InFlight, entryVars
  <2>1. CASE CloseIdle(c)
    <3>1. closerCancelled = {} => InFlight(st) = {}
      BY <2>1 DEF CloseIdle, CloseInv, ClosingStops, ClosersWait, InFlight
    <3>. QED  BY <2>0, <2>1, <3>1 DEF CloseIdle, tasks
  <2>2. CASE Close(c)
    <3>1. mode' \in {"closing", "closed"} /\ closerCancelled' = closerCancelled
      BY <2>2 DEF Close, JoinTimers, Ends
    <3>2. \A r \in Reqs :
             /\ r \in waiting <=> st[r] = "waiting"
             /\ st'[r] = IF r \in waiting THEN "done" ELSE st[r]
             /\ timer'[r] = IF r \in waiting THEN CancelTimer(timer[r]) ELSE timer[r]
             /\ st[r] = "in_flight" => /\ forced'[r] = "CANCELLED"
                                      /\ backend'[r] = CancelBackend(backend[r])
             /\ st[r] # "in_flight" => /\ forced'[r] = forced[r]
                                      /\ backend'[r] = backend[r]
             /\ runner'[r] = runner[r]
      BY <2>2 DEF Close, CloseInv, QueueInv, IndexConsistent, InFlight
    <3>3. TimersMatch'
      BY <3>2, Disarmed DEF CloseInv, TimersMatch, Stopped
    <3>4. ClosingStops'
      BY <3>1, <3>2, Disarmed DEF ClosingStops, Stopped, InFlight
    <3>5. InFlight(st') = InFlight(st)
      BY <3>2 DEF InFlight
    <3>6. ASSUME closerCancelled = {} PROVE ClosersWait'
      <4>1. \A r \in InFlight(st) : ~RunnerOver(r)
        BY <3>6 DEF CloseInv, ClosersWait, RunnerOver, InFlight
      <4>2. \A S \in RunnerTasks : InFlight(st) \subseteq S
        BY <4>1 DEF RunnerTasks, InFlight
      <4>3. \/ /\ mode' = "closing" /\ closer' = [closer EXCEPT ![c] = "runners"]
               /\ \E S \in RunnerTasks : joined' = [joined EXCEPT ![c] = S]
            \/ /\ closer' = [closer EXCEPT ![c] = "timers"]
               /\ \E S : joined' = [joined EXCEPT ![c] = S]
               /\ {} \in RunnerTasks /\ mode' = "closing"
            \/ /\ closer' = [closer EXCEPT ![c] = "returned"] /\ joined' = joined
               /\ {} \in RunnerTasks /\ mode' = "closed"
        BY <2>2 DEF Close, Gathers, JoinTimers, Ends
      <4>4. \A r \in Reqs : /\ runner'[r] \in {"none", "new", "await", "done"}
                            /\ st'[r] = "in_flight" => runner'[r] \in {"new", "await"}
        BY <3>2, <3>6 DEF CloseInv, ClosersWait
      <4>5. \A d \in Closers : /\ closer[d] = "runners" => InFlight(st) \subseteq joined[d]
                               /\ closer[d] \in {"timers", "returned", "raised"}
                                  => InFlight(st) = {}
        BY <3>6 DEF CloseInv, ClosersWait
      <4>. QED  BY <1>0, <3>5, <4>2, <4>3, <4>4, <4>5 DEF ClosersWait, TypeOK
    <3>7. ASSUME closerCancelled # {} PROVE ClosersWait'
      BY <3>1, <3>7 DEF ClosersWait
    <3>8. ClosersWait'
      BY <3>6, <3>7
    <3>. QED  BY <3>3, <3>4, <3>8
  <2>3. CASE CancelCloser(c)
    <3>1. mode \in {"closing", "closed"} /\ UNCHANGED <<mode, entryVars>>
      BY <1>0, <2>3 DEF CancelCloser, CloseInv, QueueInv, ClosersMatch, TypeOK
    <3>2. \A r \in Reqs : /\ timer'[r] \in {timer[r], CancelTimer(timer[r])}
                          /\ backend'[r] \in {backend[r], CancelBackend(backend[r])}
      BY <1>0, <2>3 DEF CancelCloser, TypeOK
    <3>3. \A r \in Reqs : st[r] # "waiting"
      BY <3>1 DEF CloseInv, QueueInv, WaitingOnlyOpen, IndexConsistent
    <3>4. closerCancelled' # {}
      BY <2>3 DEF CancelCloser
    <3>. QED  BY <3>1, <3>2, <3>3, <3>4, Disarmed
              DEF CloseInv, TimersMatch, ClosingStops, ClosersWait, Stopped, InFlight,
                  entryVars
  <2>4. CASE CloserJoins(c) \/ CloserRaises(c)
    <3>1. closer[c] \in {"runners", "timers"}
      BY <2>4 DEF CloserJoins, CloserRaises, GatherDone, GatherCancelled
    <3>2. mode # "open"
      BY <3>1 DEF CloseInv, QueueInv, ClosersMatch
    <3>3. ASSUME closerCancelled = {} PROVE InFlight(st) = {}
      <4>1. CASE closer[c] = "timers"
        BY <3>3, <4>1 DEF CloseInv, ClosersWait
      <4>2. CASE closer[c] = "runners"
        <5>1. InFlight(st) \subseteq joined[c] /\ joined[c] \subseteq Reqs
          BY <1>0, <3>3, <4>2 DEF CloseInv, ClosersWait, TypeOK
        <5>2. ~GatherCancelled(c)
          BY <3>3, <4>2, <5>1 DEF CloseInv, ClosersWait, GatherCancelled
        <5>3. \A r \in joined[c] : runner[r] = "done"
          BY <2>4, <3>3, <4>2, <5>2 DEF CloserJoins, CloserRaises, GatherDone
        <5>. QED  BY <3>3, <5>1, <5>3 DEF CloseInv, ClosersWait, InFlight
      <4>. QED  BY <3>1, <4>1, <4>2
    <3>4. /\ UNCHANGED <<entryVars, timer, backend, runner, closerCancelled>>
          /\ mode' \in {mode, "closed"}
          /\ \E k \in {"timers", "returned", "raised"} : closer' = [closer EXCEPT ![c] = k]
          /\ \A d \in Closers \ {c} : joined'[d] = joined[d]
      BY <1>0, <2>4 DEF CloserJoins, CloserRaises, JoinTimers, Gathers, Ends, TypeOK, tasks
    <3>. QED  BY <2>0, <3>2, <3>3, <3>4
  <2>. QED  BY <1>6, <2>1, <2>2, <2>3, <2>4 DEF CloserStep
<1>7. CASE Start
  BY <1>7 DEF Start, CloseInv, TimersMatch, ClosingStops, ClosersWait, Stopped, InFlight,
              entryVars, tasks, closeVars
<1>8. CASE Tick \/ UNCHANGED vars
  BY <1>1, <1>8 DEF Tick, vars, tasks
<1>. QED  BY <1>2, <1>3, <1>4, <1>5, <1>6, <1>7, <1>8 DEF Next

LEMMA CloseInvariant == Spec => []CloseInv
<1>1. Init => CloseInv
  BY QueueInit DEF Init, CloseInv, TimersMatch, ClosingStops, ClosersWait, Armed, InFlight
<1>. QED  BY <1>1, CloseStep, PTL DEF Spec

\* Nobody is left to wait for ever: every entry that is not complete has a
\* watchdog that will act (admission.py:308-346), or a backend that was told to
\* stop, for all orders of timeouts, cancellations and acloses.
THEOREM EntriesAreWatched == Spec => []Watched
<1>1. CloseInv => Watched
  BY DEF CloseInv, QueueInv, TypeOK, EntryStates, TimersMatch, Stopped, Armed, Watched
<1>. QED  BY <1>1, CloseInvariant, PTL

\* When an aclose that nobody cancelled ends (admission.py:185-218), all is over,
\* however many acloses run, and whether they return or raise.
THEOREM CloseJoinsAll == Spec => []CloseJoins
<1>1. CloseInv => CloseJoins
  <2>. SUFFICES ASSUME CloseInv, closerCancelled = {},
                       NEW c \in Closers, closer[c] \in {"returned", "raised"},
                       NEW r \in Reqs
                PROVE  /\ st[r] \in {"none", "done"} /\ ~BackendLive(r)
                       /\ runner[r] \in {"none", "done"}
                       /\ timer[r] \notin {"new", "sleeping"}
    BY DEF CloseJoins
  <2>1. st[r] # "in_flight" /\ runner[r] \in {"none", "new", "await", "done"}
    BY DEF CloseInv, ClosersWait, InFlight
  <2>2. mode # "open" /\ waiting = {}
    BY DEF CloseInv, QueueInv, ClosersMatch, WaitingOnlyOpen
  <2>3. st[r] \in {"none", "done"}
    BY <2>1, <2>2 DEF CloseInv, QueueInv, IndexConsistent, TypeOK, EntryStates
  <2>. QED  BY <2>1, <2>3 DEF CloseInv, QueueInv, TasksHoldSlot, TimersMatch, Armed
<1>. QED  BY <1>1, CloseInvariant, PTL

-----------------------------------------------------------------------------
(* The deadline.                                                           *)

\* Only an entry that is or was in flight has a forced status, and it is
\* TIMEOUT only once the deadline is over.
ForcedMatch ==
    \A r \in Reqs : /\ forced[r] = "TIMEOUT" => Overdue(r, enq)
                    /\ st[r] \in {"none", "waiting"} => forced[r] = "none"

DeadlineInv == CloseInv /\ ForcedMatch

\* The admission loop completes only overdue picks, and returns nothing to the
\* waiting list.
LEMMA AdmitDeadline ==
    ASSUME NEW w \in SUBSET Reqs, NEW s, NEW a, NEW tm, NEW rn,
           AdmitAvailable(w, s, a, tm, rn)
    PROVE  \A r \in Reqs :
              /\ \/ result'[r] = a[r]
                 \/ result'[r] = "TIMEOUT" /\ Overdue(r, enq')
              /\ st'[r] \in {s[r], "in_flight", "done"}
<1>1. PICK k, t :
         AdmitEffect(w, s, a, tm, rn, Picked(t, k) \ Sent(t, k, enq'), Sent(t, k, enq'))
  BY DEF AdmitAvailable
<1>2. \A r \in Picked(t, k) \ Sent(t, k, enq') : Overdue(r, enq')
  BY DEF Sent
<1>. QED  BY <1>1, <1>2 DEF AdmitEffect

\* What one step may do to the forced status and to the result of a request.
Punctual(r) ==
    result[r] = "none" => /\ result'[r] \in {"SUCCESS", "ERROR"} => ~Overdue(r, enq)
                          /\ result'[r] = "TIMEOUT" => Overdue(r, enq)

LEMMA DeadlineStep ==
    ASSUME DeadlineInv, [Next]_vars
    PROVE  DeadlineInv' /\ \A r \in Reqs : Punctual(r)
<1>0. CloseInv' /\ TypeOK /\ TypeOK'
  BY CloseStep DEF DeadlineInv, CloseInv, QueueInv
<1>. DEFINE Claim == ForcedMatch' /\ \A r \in Reqs : Punctual(r)
<1>. SUFFICES Claim
  BY <1>0 DEF DeadlineInv
<1>1. /\ \A r \in Reqs : now \in Int /\ enq[r] \in Int
      /\ Timeout \in Int /\ Timeout > 0
  BY <1>0, ConstantsAssumption DEF TypeOK
<1>2. ASSUME UNCHANGED <<st, enq, forced, result>>, now' \in {now, now + 1} PROVE Claim
  BY <1>1, <1>2 DEF DeadlineInv, ForcedMatch, Overdue, Punctual
<1>3. ASSUME UNCHANGED <<now, enq>>,
             \A q \in Reqs : st'[q] \in {st[q], "done"},
             \A q \in Reqs : \/ forced'[q] = forced[q]
                             \/ st[q] = "in_flight" /\ forced'[q] = "CANCELLED"
                             \/ /\ st[q] = "in_flight" /\ forced'[q] = "TIMEOUT"
                                /\ Overdue(q, enq),
             \A q \in Reqs : \/ result'[q] \in {result[q], "CANCELLED"}
                             \/ result'[q] = "TIMEOUT" /\ Overdue(q, enq)
      PROVE  Claim
  BY <1>3 DEF DeadlineInv, ForcedMatch, Overdue, Punctual
<1>4. ASSUME NEW r \in Reqs, CallerStep(r) PROVE Claim
  <2>1. CASE \E from, to : CallerGoes(r, from, to)
    BY <1>2, <2>1 DEF CallerGoes, entryVars
  <2>2. CASE CancelWaiting(r) \/ CancelInFlight(r)
    BY <1>0, <1>3, <2>2 DEF CancelWaiting, CancelInFlight, TypeOK
  <2>3. CASE Accept(r)
    <3>1. /\ UNCHANGED <<now, forced>> /\ st[r] = "none"
          /\ enq' = [enq EXCEPT ![r] = now]
          /\ AdmitAvailable(waiting \cup {r}, [st EXCEPT ![r] = "waiting"], result,
                            [timer EXCEPT ![r] = "new"], runner)
      BY <2>3 DEF Accept, DeadlineInv, CloseInv, QueueInv, CallersMatch
    <3>2. \A q \in Reqs :
             /\ \/ result'[q] = result[q]
                \/ result'[q] = "TIMEOUT" /\ Overdue(q, enq')
             /\ st'[q] \in {[st EXCEPT ![r] = "waiting"][q], "in_flight", "done"}
      <4>1. waiting \cup {r} \in SUBSET Reqs
        BY <1>0 DEF TypeOK
      <4>. QED  BY <3>1, <4>1, AdmitDeadline
    <3>3. \A q \in Reqs : IF q = r THEN enq'[q] = now ELSE enq'[q] = enq[q]
      BY <1>0, <3>1 DEF TypeOK
    <3>4. ~Overdue(r, enq')
      BY <1>1, <3>3 DEF Overdue
    <3>5. \A q \in Reqs : q # r => (Overdue(q, enq') <=> Overdue(q, enq))
      BY <3>3 DEF Overdue
    <3>6. \A q \in Reqs : Punctual(q)
      BY <3>2, <3>4, <3>5 DEF Punctual
    <3>7. forced[r] = "none"
      BY <3>1 DEF DeadlineInv, ForcedMatch
    <3>8. ForcedMatch'
      <4>. SUFFICES ASSUME NEW q \in Reqs
                    PROVE  /\ forced'[q] = "TIMEOUT" => Overdue(q, enq)'
                           /\ st'[q] \in {"none", "waiting"} => forced'[q] = "none"
        BY DEF ForcedMatch
      <4>1. CASE q = r
        BY <3>1, <3>7, <4>1
      <4>2. CASE q # r
        BY <1>0, <3>1, <3>2, <3>3, <4>2 DEF TypeOK, DeadlineInv, ForcedMatch, Overdue
      <4>. QED  BY <4>1, <4>2
    <3>. QED  BY <3>6, <3>8
  <2>. QED  BY <1>4, <2>1, <2>2, <2>3
            DEF CallerStep, Reject, CancelCaller, CallerResumes, CallerReturns,
                CancelDone, CallerDrained
<1>5. ASSUME NEW r \in Reqs, TimerResumes(r) PROVE Claim
  <2>1. CASE TimerSleeps(r) \/ TimerEnds(r)
    BY <1>2, <2>1 DEF TimerSleeps, TimerEnds, TimerGoes, entryVars
  <2>2. CASE TimeoutWaiting(r)
    BY <1>0, <1>3, <2>2 DEF TimeoutWaiting, TimerExpires, TypeOK
  <2>3. CASE TimeoutInFlight(r)
    <3>1. st[r] \in {"in_flight", "done"}
      BY <1>0, <2>3 DEF TimeoutInFlight, TimerExpires, TypeOK, EntryStates, Armed,
                        DeadlineInv, CloseInv, TimersMatch
    <3>. QED  BY <1>0, <1>3, <2>3, <3>1 DEF TimeoutInFlight, TimerExpires, TypeOK
  <2>. QED  BY <1>5, <2>1, <2>2, <2>3 DEF TimerResumes
<1>6. ASSUME NEW r \in Reqs, BackendStep(r) PROVE Claim
  BY <1>2, <1>6 DEF BackendStep, BackendStarts, BackendEnds, CancelledBackendEnds,
                    BackendGoes, entryVars
<1>7. ASSUME NEW r \in Reqs, RunnerResumes(r) PROVE Claim
  <2>1. CASE RunnerAwaits(r) \/ RunnerDrains(r) \/ RunnerDies(r)
    BY <1>2, <2>1 DEF RunnerAwaits, RunnerDrains, RunnerDies, RunnerGoes, entryVars
  <2>2. ASSUME NEW x \in {"SUCCESS", "ERROR", "CANCELLED"}, NEW end,
               RunnerCompletes(r, x, end)
        PROVE  Claim
    <3>. DEFINE a == [result EXCEPT ![r] = IF st[r] = "done" THEN @ ELSE FinalStatus(r, x)]
    <3>1. /\ UNCHANGED <<now, enq, forced>>
          /\ AdmitAvailable(waiting, [st EXCEPT ![r] = "done"], a,
                            [timer EXCEPT ![r] = CancelTimer(@)],
                            [runner EXCEPT ![r] = end])
      BY <2>2 DEF RunnerCompletes
    <3>2. \A q \in Reqs :
             /\ \/ result'[q] = a[q]
                \/ result'[q] = "TIMEOUT" /\ Overdue(q, enq')
             /\ st'[q] \in {[st EXCEPT ![r] = "done"][q], "in_flight", "done"}
      <4>1. waiting \in SUBSET Reqs
        BY <1>0 DEF TypeOK
      <4>. HIDE DEF a
      <4>. QED  BY <3>1, <4>1, AdmitDeadline
    <3>3. \A q \in Reqs : /\ q # r => a[q] = result[q]
                          /\ a[r] \in {result[r], FinalStatus(r, x)}
      BY <1>0 DEF TypeOK
    <3>4. \/ FinalStatus(r, x) \in {"SUCCESS", "ERROR"} /\ ~Overdue(r, enq)
          \/ FinalStatus(r, x) = "TIMEOUT" /\ Overdue(r, enq)
          \/ FinalStatus(r, x) = "CANCELLED"
      BY <1>0 DEF FinalStatus, TypeOK, ForcedStatuses, DeadlineInv, ForcedMatch
    <3>. HIDE DEF a
    <3>5. \A q \in Reqs : Punctual(q)
      BY <3>1, <3>2, <3>3, <3>4 DEF Punctual
    <3>6. ForcedMatch'
      BY <1>0, <3>1, <3>2 DEF DeadlineInv, ForcedMatch, Overdue, TypeOK
    <3>. QED  BY <3>5, <3>6
  <2>3. CASE RunnerFinishes(r)
    <3>1. \E x \in {"SUCCESS", "ERROR", "CANCELLED"} : RunnerCompletes(r, x, "done")
      BY <2>3 DEF RunnerFinishes, BackendAnswered, BackendStatus
    <3>. QED  BY <2>2, <3>1
  <2>4. CASE RunnerDrained(r)
    BY <2>2, <2>4 DEF RunnerDrained
  <2>. QED  BY <1>7, <2>1, <2>3, <2>4 DEF RunnerResumes
<1>8. ASSUME NEW c \in Closers, CloserStep(c) PROVE Claim
  <2>1. CASE Close(c)
    BY <1>3, <2>1 DEF Close, InFlight
  <2>2. CASE CloseIdle(c) \/ CancelCloser(c) \/ CloserJoins(c) \/ CloserRaises(c)
    BY <1>2, <2>2 DEF CloseIdle, CancelCloser, CloserJoins, CloserRaises, entryVars
  <2>. QED  BY <1>8, <2>1, <2>2 DEF CloserStep
<1>9. CASE Start \/ Tick \/ UNCHANGED vars
  BY <1>2, <1>9 DEF Start, Tick, vars, entryVars
<1>. QED  BY <1>4, <1>5, <1>6, <1>7, <1>8, <1>9 DEF Next

\* However late the tasks run, and whoever completes the request
\* (admission.py:236-242, 290-328): no success or error is reported after the
\* deadline, and no timeout before it.
THEOREM StatusRespectsDeadline == Spec => StatusAtDeadline
<1>1. Init => DeadlineInv
  BY QueueInit DEF Init, DeadlineInv, ForcedMatch, CloseInv, TimersMatch, ClosingStops,
                   ClosersWait, Armed, InFlight
<1>2. DeadlineInv /\ [Next]_vars => DeadlineInv'
  BY DeadlineStep
<1>3. DeadlineInv /\ [Next]_vars
      => [\A r \in Reqs : result[r] = "none" =>
             /\ result'[r] \in {"SUCCESS", "ERROR"} => ~Overdue(r, enq)
             /\ result'[r] = "TIMEOUT" => Overdue(r, enq)]_vars
  BY DeadlineStep DEF Punctual
<1>. QED  BY <1>1, <1>2, <1>3, PTL DEF Spec, StatusAtDeadline
=============================================================================
