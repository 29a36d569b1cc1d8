---------------------------- MODULE PolicyQueue -----------------------------
(***************************************************************************)
(* A waiting list and its slots over time, under one of the policies: how  *)
(* long can a request wait? The queue is AdmissionQueue reduced to what a  *)
(* policy sees: entries are anonymous, arrivals never end, and a submit or *)
(* a completion dispatches in the same step as the queue's critical section*)
(* does, so that a slot idles only while nothing waits.                    *)
(*                                                                         *)
(* Times are ages, counted in ticks and up to MaxAge, beyond which no      *)
(* policy tells them apart.                                                *)
(***************************************************************************)
EXTENDS Policies, SequencesExt

CONSTANTS
    Capacity,    \* router.queue_capacity
    Slots,       \* the slots, backend.max_in_flight of them
    MaxService,  \* the longest that a request keeps its slot
    MaxLateness, \* the longest after its arrival that a request is submitted
    MaxAge       \* bound of the model: older requests look this old

Idle == -1

ASSUME QueueAssumption ==
    /\ Capacity \in Nat \ {0} /\ Slots # {}
    /\ MaxService \in Nat /\ MaxLateness \in Nat /\ MaxAge \in Nat
    /\ MaxLateness <= MaxAge
    /\ AgingThreshold <= MaxAge /\ CeilingCap <= MaxAge
    /\ CeilingCap * MarginDen <= MarginNum * MaxAge

VARIABLES
    queue, \* _waiting, in the order of arrival
    slots  \* how long each slot has been busy, or Idle

vars == <<queue, slots, settings>>

Requests == [kind : Kinds, age : 0 .. MaxAge]

TypeOK ==
    /\ SettingsOK
    /\ queue \in Seq(Requests)
    /\ slots \in [Slots -> {Idle} \cup 0 .. MaxService]

-----------------------------------------------------------------------------
Init ==
    /\ SettingsOK
    /\ queue = << >>
    /\ slots = [s \in Slots |-> Idle]

\* A request of age l is the i-th to have arrived.
ArrivedAt(i, l) ==
    /\ \A j \in 1 .. i - 1 : queue[j].age >= l
    /\ \A j \in i .. Len(queue) : queue[j].age <= l

\* submit finds a slot, and no other request waits for it.
SubmitToSlot(s) ==
    /\ slots[s] = Idle
    /\ slots' = [slots EXCEPT ![s] = 0]
    /\ UNCHANGED queue

\* submit by _submit_at_arrival, which may have slept too long: the request
\* joins at its place by arrival. A full list rejects it and is unchanged.
SubmitToQueue(k, l, i) ==
    /\ \A s \in Slots : slots[s] # Idle
    /\ Len(queue) < Capacity
    /\ ArrivedAt(i, l)
    /\ queue' = InsertAt(queue, i, [kind |-> k, age |-> l])
    /\ UNCHANGED slots

\* _run_backend ends, at any time, and _admit_available_locked gives the slot
\* to the request that the policy orders first.
CompleteAndDispatch(s) ==
    /\ slots[s] # Idle
    /\ \E i \in DOMAIN queue : OrderedFirst(queue, i)
                               /\ queue' = RemoveAt(queue, i)
    /\ slots' = [slots EXCEPT ![s] = 0]

CompleteAndIdle(s) ==
    /\ slots[s] # Idle
    /\ queue = << >>
    /\ slots' = [slots EXCEPT ![s] = Idle]
    /\ UNCHANGED queue

\* A waiting request times out, or its caller is cancelled.
Leave(i) ==
    /\ queue' = RemoveAt(queue, i)
    /\ UNCHANGED slots

\* Time passes, unless a request has to leave its slot first.
Older(r) == [r EXCEPT !.age = Least(@ + 1, MaxAge)]

Tick ==
    /\ \A s \in Slots : slots[s] < MaxService
    /\ queue' = [i \in DOMAIN queue |-> Older(queue[i])]
    /\ slots' = [s \in Slots |-> IF slots[s] = Idle THEN Idle ELSE slots[s] + 1]

Step ==
    \/ \E s \in Slots : SubmitToSlot(s)
    \/ \E k \in Kinds, l \in 0 .. MaxLateness, i \in 1 .. Len(queue) + 1 :
          SubmitToQueue(k, l, i)
    \/ \E s \in Slots : CompleteAndDispatch(s)
    \/ \E s \in Slots : CompleteAndIdle(s)
    \/ \E i \in DOMAIN queue : Leave(i)
    \/ Tick

\* A run of the router keeps its settings.
Next == Step /\ UNCHANGED settings

Spec == Init /\ [][Next]_vars

-----------------------------------------------------------------------------
\* The age from which a policy lets no younger request overtake: that of the
\* aging ceiling, at its highest if it adapts; under the others, any, once no
\* request that arrived earlier can still be on its way to submit.
ProtectedAge ==
    Greatest(MaxLateness + 1,
             IF policy # "slo_aware" THEN 0
             ELSE IF adaptive THEN CeilingCap ELSE AgingThreshold)

\* static_priority protects nobody but the interactive requests.
Guarded(r) ==
    policy = "static_priority" => Class[r.kind] = "interactive"

\* The ceiling is strictly oldest-first (docs/LEARNING_NOTES.md:1057): once a
\* guarded request has the protected age, whatever the scores of the others,
\* their number and the median of their waits, the next slot goes to it or
\* to one that arrived before it.
AgedBeforeYounger ==
    \A r, i \in DOMAIN queue :
        /\ Guarded(queue[r]) /\ queue[r].age >= ProtectedAge
        /\ OrderedFirst(queue, i)
        => i <= r

\* Of two requests alike but for their arrival, the first to arrive goes first,
\* at every age and under every policy: time lowers a score (slack shrinks,
\* waiting grows) and raises a tier, and never the other way round.
FifoWithinKind ==
    \A i, j \in DOMAIN queue :
        queue[i].kind = queue[j].kind /\ OrderedFirst(queue, j) => j <= i

\* "A hard aging ceiling that guarantees a bounded worst-case wait"
\* (README.md:20): the bound that holds, in every order of submits, completions
\* and time, is the protected age plus the service of a full waiting list.
WaitBounded ==
    \A r \in DOMAIN queue :
        Guarded(queue[r]) =>
            queue[r].age <= ProtectedAge + MaxService * Capacity

\* The bound that docs/LEARNING_NOTES.md:729 states: the aging threshold plus
\* the service of the request ahead, whatever the arrivals.
WaitWithinThresholdAndHead ==
    policy = "slo_aware" /\ ~adaptive =>
        \A r \in DOMAIN queue : queue[r].age <= AgingThreshold + MaxService
=============================================================================
