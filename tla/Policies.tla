------------------------------ MODULE Policies ------------------------------
(***************************************************************************)
(* The scheduling policies (router/policies): which of the waiting requests*)
(* each of them dispatches first. All a policy sees of a request is its    *)
(* kind, how long ago it arrived and its place in the order of arrival,    *)
(* sequence_id included: the deadline of a request is its arrival plus the *)
(* budget of its kind, so its slack and score depend on its age alone.     *)
(* A waiting list is a sequence of requests, the first arrived first.      *)
(* Seconds and tokens are whole ticks here, a ratio is kept as a fraction. *)
(***************************************************************************)
EXTENDS Integers, Sequences

CONSTANTS
    Kinds,           \* the requests of a workload, up to their arrival
    Class,           \* request_class of a kind
    Budget,          \* deadline_time_s - arrival_time_s of a kind
    Service,         \* the service time that the policy estimates for a kind
    CostWeight, SlackWeight, WaitingWeight,
    AgingThreshold,  \* aging_threshold_s
    AgingLevels,     \* aging_levels
    MarginNum, MarginDen,       \* ceiling_margin = MarginNum / MarginDen
    CeilingFloor, CeilingCap    \* ceiling_floor_s, ceiling_cap_s

\* What SloAwareConfig and WorkloadConfig validate.
ASSUME PolicyAssumption ==
    /\ Class \in [Kinds -> {"interactive", "batch"}]
    /\ Budget \in [Kinds -> Nat \ {0}] /\ Service \in [Kinds -> Nat]
    /\ CostWeight \in Nat /\ SlackWeight \in Nat /\ WaitingWeight \in Nat
    /\ AgingThreshold \in Nat \ {0} /\ AgingLevels \in Nat \ {0}
    /\ MarginNum \in Nat \ {0} /\ MarginDen \in Nat \ {0}
    /\ CeilingFloor \in Nat \ {0} /\ CeilingCap \in Nat
    /\ CeilingFloor <= CeilingCap

VARIABLES
    policy,  \* router.policy
    adaptive \* adaptive_ceiling: the threshold follows the waits

settings == <<policy, adaptive>>

SettingsOK ==
    /\ policy \in {"fcfs", "static_priority", "slo_aware"}
    /\ adaptive \in BOOLEAN

Least(a, b) == IF a <= b THEN a ELSE b
Greatest(a, b) == IF a <= b THEN b ELSE a

-----------------------------------------------------------------------------
\* Twice the median age of a non-empty waiting list.
TwiceMedian(q) ==
    q[(Len(q) + 1) \div 2].age + q[Len(q) \div 2 + 1].age

\* The aging threshold of a waiting list, in units of 1 / Scale.
Scale == 2 * MarginDen

\* Mutant: the threshold follows the median past ceiling_cap_s.
EffectiveThresholdUncapped(q) ==
    Greatest(Scale * CeilingFloor, MarginNum * TwiceMedian(q))

EffectiveThreshold(q) ==
    IF adaptive
    THEN Least(Scale * CeilingCap,
               Greatest(Scale * CeilingFloor, MarginNum * TwiceMedian(q)))
    ELSE Scale * AgingThreshold

\* Mutant: the last tier is never reached.
AgeTierBelow(r, threshold) ==
    Least((r.age * Scale * AgingLevels) \div threshold, AgingLevels - 1)

\* age_tier: how many steps of a level's width the request has waited.
AgeTier(r, threshold) ==
    Least((r.age * Scale * AgingLevels) \div threshold, AgingLevels)

\* Mutant: the waiting term is added.
WeightedScorePenal(r) ==
      CostWeight * Service[r.kind]
    + SlackWeight * (Budget[r.kind] - r.age - Service[r.kind])
    + WaitingWeight * r.age

\* The score, times the budget: cost, slack and waiting are all per budget.
WeightedScore(r) ==
      CostWeight * Service[r.kind]
    + SlackWeight * (Budget[r.kind] - r.age - Service[r.kind])
    - WaitingWeight * r.age

Scores(r, s) == WeightedScore(r) * Budget[s.kind]
ScoresLower(r, s) == Scores(r, s) < Scores(s, r)
ScoresAlike(r, s) == Scores(r, s) = Scores(s, r)

\* Mutant: the score orders the last tier too.
SloAwareBeforeScored(q, i, j) ==
    LET threshold == EffectiveThreshold(q)
        tier(k)   == AgeTier(q[k], threshold)
    IN  \/ tier(i) > tier(j)
        \/ tier(i) = tier(j) /\ ScoresLower(q[i], q[j])
        \/ tier(i) = tier(j) /\ ScoresAlike(q[i], q[j]) /\ i < j

\* SloAwarePolicy._key of q[i] is below that of q[j]: the higher tier first;
\* in the last one, at the ceiling, the oldest; in the others, the score.
SloAwareBefore(q, i, j) ==
    LET threshold == EffectiveThreshold(q)
        tier(k)   == AgeTier(q[k], threshold)
    IN  \/ tier(i) > tier(j)
        \/ /\ tier(i) = tier(j)
           /\ \/ tier(i) = AgingLevels /\ i < j
              \/ tier(i) # AgingLevels /\ ScoresLower(q[i], q[j])
              \/ tier(i) # AgingLevels /\ ScoresAlike(q[i], q[j]) /\ i < j

\* FcfsPolicy.priority_key: the order of arrival.
FcfsBefore(q, i, j) == i < j

\* StaticPriorityPolicy.priority_key: interactive ahead of batch.
ClassRank(r) == IF Class[r.kind] = "interactive" THEN 0 ELSE 1

\* Mutant: within a class the last arrived goes first.
StaticBeforeReversed(q, i, j) ==
    \/ ClassRank(q[i]) < ClassRank(q[j])
    \/ ClassRank(q[i]) = ClassRank(q[j]) /\ j < i

StaticBefore(q, i, j) ==
    \/ ClassRank(q[i]) < ClassRank(q[j])
    \/ ClassRank(q[i]) = ClassRank(q[j]) /\ i < j

\* build_policy.
Before(q, i, j) ==
    \/ policy = "fcfs" /\ FcfsBefore(q, i, j)
    \/ policy = "static_priority" /\ StaticBefore(q, i, j)
    \/ policy = "slo_aware" /\ SloAwareBefore(q, i, j)

\* q[i] is the head of SchedulingPolicy.order.
OrderedFirst(q, i) == \A j \in DOMAIN q \ {i} : Before(q, i, j)
=============================================================================
