-------------------------- MODULE PolicyQueueProofs -------------------------
(***************************************************************************)
(* The bounded wait of PolicyQueue, for every workload, capacity, number of*)
(* slots and every setting of the policies. What a protected request has   *)
(* waited beyond the protected age is paid for: each slot has dispatched   *)
(* once per MaxService, and every dispatch moved the request up.           *)
(***************************************************************************)
EXTENDS PolicyQueue, SequenceTheorems, TLAPS

LEMMA RemoveAtFacts ==
    ASSUME NEW S, NEW q \in Seq(S), NEW i \in 1 .. Len(q)
    PROVE  /\ RemoveAt(q, i) \in Seq(S)
           /\ Len(RemoveAt(q, i)) = Len(q) - 1
           /\ \A j \in 1 .. Len(q) - 1 :
                 RemoveAt(q, i)[j] = IF j < i THEN q[j] ELSE q[j + 1]
<1> DEFINE a == SubSeq(q, 1, i - 1)
           b == SubSeq(q, i + 1, Len(q))
<1>1. a \in Seq(S) /\ Len(a) = i - 1 /\ \A j \in 1 .. i - 1 : a[j] = q[j]
  BY SubSeqProperties
<1>2. b \in Seq(S) /\ Len(b) = Len(q) - i /\ \A j \in 1 .. Len(q) - i : b[j] = q[i + j]
  BY SubSeqProperties
<1>3. RemoveAt(q, i) = a \o b
  BY DEF RemoveAt
<1> HIDE DEF a, b
<1>4. a \o b \in Seq(S) /\ Len(a \o b) = Len(q) - 1
  <2>1. a \o b \in Seq(S) /\ Len(a \o b) = Len(a) + Len(b)
    BY <1>1, <1>2, ConcatProperties
  <2>2. Len(q) \in Nat
    OBVIOUS
  <2>3. QED
    BY <1>1, <1>2, <2>1, <2>2
<1>5. ASSUME NEW j \in 1 .. Len(q) - 1
      PROVE  (a \o b)[j] = IF j < i THEN q[j] ELSE q[j + 1]
  <2>1. CASE j < i
    BY <1>1, <1>2, <2>1, ConcatProperties
  <2>2. CASE ~(j < i)
    <3>1. (a \o b)[j] = b[j - (i - 1)]
      BY <1>1, <1>2, <2>2, ConcatProperties
    <3>2. j - (i - 1) \in 1 .. Len(q) - i /\ i + (j - (i - 1)) = j + 1
      BY <2>2
    <3>3. QED
      BY <1>2, <2>2, <3>1, <3>2
  <2>3. QED
    BY <2>1, <2>2
<1>6. QED
  BY <1>3, <1>4, <1>5

LEMMA InsertAtFacts ==
    ASSUME NEW S, NEW q \in Seq(S), NEW i \in 1 .. Len(q) + 1, NEW e \in S
    PROVE  /\ InsertAt(q, i, e) \in Seq(S)
           /\ Len(InsertAt(q, i, e)) = Len(q) + 1
           /\ \A j \in 1 .. Len(q) + 1 :
                 InsertAt(q, i, e)[j] =
                    IF j < i THEN q[j] ELSE IF j = i THEN e ELSE q[j - 1]
<1> DEFINE a == SubSeq(q, 1, i - 1)
           b == SubSeq(q, i, Len(q))
<1>1. a \in Seq(S) /\ Len(a) = i - 1 /\ \A j \in 1 .. i - 1 : a[j] = q[j]
  BY SubSeqProperties
<1>2. b \in Seq(S) /\ Len(b) = Len(q) - i + 1
      /\ \A j \in 1 .. Len(q) - i + 1 : b[j] = q[i + j - 1]
  BY SubSeqProperties
<1>3. InsertAt(q, i, e) = (a \o <<e>>) \o b
  BY DEF InsertAt
<1> HIDE DEF a, b
<1>4. /\ a \o <<e>> \in Seq(S) /\ Len(a \o <<e>>) = i
      /\ \A j \in 1 .. i : (a \o <<e>>)[j] = IF j < i THEN q[j] ELSE e
  BY <1>1, ConcatProperties
<1> DEFINE c == a \o <<e>>
<1>5. c \in Seq(S) /\ Len(c) = i /\ \A j \in 1 .. i : c[j] = IF j < i THEN q[j] ELSE e
  BY <1>4
<1> HIDE DEF c
<1>6. c \o b \in Seq(S) /\ Len(c \o b) = Len(q) + 1
  <2>1. c \o b \in Seq(S) /\ Len(c \o b) = Len(c) + Len(b)
    BY <1>2, <1>5, ConcatProperties
  <2>2. Len(q) \in Nat
    OBVIOUS
  <2>3. QED
    BY <1>2, <1>5, <2>1, <2>2
<1>7. ASSUME NEW j \in 1 .. Len(q) + 1
      PROVE  (c \o b)[j] =
                IF j < i THEN q[j] ELSE IF j = i THEN e ELSE q[j - 1]
  <2>1. CASE j <= i
    BY <1>2, <1>5, <2>1, ConcatProperties
  <2>2. CASE i < j
    <3>1. (c \o b)[j] = b[j - i]
      BY <1>2, <1>5, <2>2, ConcatProperties
    <3>2. j - i \in 1 .. Len(q) - i + 1 /\ i + (j - i) - 1 = j - 1
      BY <2>2
    <3>3. QED
      BY <1>2, <2>2, <3>1, <3>2
  <2>3. j <= i \/ i < j
    OBVIOUS
  <2>4. QED
    BY <2>1, <2>2, <2>3, Zenon
<1>8. QED
  BY <1>3, <1>6, <1>7 DEF c

LEMMA TimesMonotone ==
    ASSUME NEW a \in Nat, NEW b \in Nat, NEW c \in Nat, b <= c
    PROVE  a * b \in Nat /\ a * c \in Nat /\ a * b <= a * c
OBVIOUS

\* A quotient is at least k if the dividend holds k divisors.
LEMMA DivAtLeast ==
    ASSUME NEW n \in Nat, NEW d \in Nat \ {0}, NEW k \in Nat, k * d <= n
    PROVE  k <= n \div d
<1>1. n \div d \in Nat /\ n < (n \div d + 1) * d
  OBVIOUS
<1>2. CASE n \div d + 1 <= k
  <2>1. (n \div d + 1) * d <= k * d
    BY <1>1, <1>2
  <2>2. QED
    BY <1>1, <2>1
<1>3. QED
  BY <1>1, <1>2

-----------------------------------------------------------------------------
\* The protected age is a number of ticks, whatever the settings.
LEMMA ProtectedAgeType ==
    ProtectedAge \in Nat /\ MaxLateness < ProtectedAge
BY PolicyAssumption, QueueAssumption DEF ProtectedAge, Greatest

\* The threshold is positive, and no policy protects below it.
LEMMA ThresholdRange ==
    ASSUME NEW q \in Seq(Requests), q # << >>
    PROVE  /\ EffectiveThreshold(q) \in Nat \ {0}
           /\ policy = "slo_aware" =>
                 EffectiveThreshold(q) <= Scale * ProtectedAge
<1> USE PolicyAssumption, QueueAssumption
<1>1. Scale \in Nat \ {0}
  BY DEF Scale
<1>2. TwiceMedian(q) \in Nat
  <2>1. Len(q) \in Nat \ {0}
    OBVIOUS
  <2>2. (Len(q) + 1) \div 2 \in 1 .. Len(q) /\ Len(q) \div 2 + 1 \in 1 .. Len(q)
    BY <2>1
  <2>3. /\ q[(Len(q) + 1) \div 2] \in Requests
        /\ q[Len(q) \div 2 + 1] \in Requests
    BY <2>2
  <2>4. \A r \in Requests : r.age \in Nat
    BY DEF Requests
  <2>5. QED
    BY <2>3, <2>4 DEF TwiceMedian
<1>3. MarginNum * TwiceMedian(q) \in Nat
  BY <1>2
<1>4. CASE adaptive
  <2>1. Scale * CeilingFloor \in Nat \ {0} /\ Scale * CeilingCap \in Nat
        /\ Scale * CeilingFloor <= Scale * CeilingCap
    BY <1>1
  <2>2. EffectiveThreshold(q) \in Nat \ {0} /\ EffectiveThreshold(q) <= Scale * CeilingCap
    BY <1>3, <1>4, <2>1 DEF EffectiveThreshold, Least, Greatest
  <2>3. policy = "slo_aware" =>
           ProtectedAge \in Nat /\ CeilingCap <= ProtectedAge
    BY <1>4 DEF ProtectedAge, Greatest
  <2>4. policy = "slo_aware" => Scale * CeilingCap <= Scale * ProtectedAge
    BY <1>1, <2>3, TimesMonotone
  <2>5. policy = "slo_aware" => Scale * ProtectedAge \in Nat
    BY <1>1, <2>3
  <2>6. QED
    BY <2>1, <2>2, <2>4, <2>5
<1>5. CASE ~adaptive
  <2>1. EffectiveThreshold(q) = Scale * AgingThreshold
    BY <1>5 DEF EffectiveThreshold
  <2>2. policy = "slo_aware" =>
           ProtectedAge \in Nat /\ AgingThreshold <= ProtectedAge
    BY <1>5 DEF ProtectedAge, Greatest
  <2>3. Scale * AgingThreshold \in Nat \ {0}
    BY <1>1
  <2>4. policy = "slo_aware" => Scale * AgingThreshold <= Scale * ProtectedAge
    BY <1>1, <2>2, TimesMonotone
  <2>5. QED
    BY <2>1, <2>3, <2>4
<1>6. QED
  BY <1>4, <1>5

\* A tier is at most the last, and the aged are in it.
LEMMA TierRange ==
    ASSUME NEW r \in Requests, NEW t \in Nat \ {0}
    PROVE  /\ AgeTier(r, t) \in Nat /\ AgeTier(r, t) <= AgingLevels
           /\ t <= Scale * r.age => AgeTier(r, t) = AgingLevels
<1> USE PolicyAssumption, QueueAssumption
<1> DEFINE n == r.age * Scale * AgingLevels
<1>1. r.age \in Nat /\ Scale \in Nat
  BY DEF Scale, Requests
<1>2. n \in Nat
  BY <1>1
<1>3. ASSUME t <= Scale * r.age PROVE AgingLevels * t <= n
  <2>1. n = AgingLevels * (Scale * r.age) /\ Scale * r.age \in Nat
    BY <1>1
  <2> DEFINE m == Scale * r.age
  <2>2. m \in Nat /\ t <= m
    BY <1>3, <2>1
  <2> HIDE DEF m
  <2>3. AgingLevels * t <= AgingLevels * m
    BY <2>2
  <2>4. QED
    BY <2>1, <2>3 DEF m
<1> HIDE DEF n
<1>4. t <= Scale * r.age => AgingLevels <= n \div t
  BY <1>2, <1>3, DivAtLeast
<1>5. n \div t \in Nat
  BY <1>2
<1>6. AgeTier(r, t) = Least(n \div t, AgingLevels)
  BY DEF AgeTier, n
<1>7. QED
  BY <1>4, <1>5, <1>6 DEF Least

\* A quotient grows with its dividend.
LEMMA DivMonotone ==
    ASSUME NEW m \in Nat, NEW n \in Nat, NEW d \in Nat \ {0}, m <= n
    PROVE  m \div d <= n \div d
<1>1. m \div d \in Nat /\ (m \div d) * d <= m
  OBVIOUS
<1>2. QED
  BY <1>1, DivAtLeast

LEMMA TierMonotone ==
    ASSUME NEW r \in Requests, NEW s \in Requests, NEW t \in Nat \ {0},
           r.age <= s.age
    PROVE  AgeTier(r, t) <= AgeTier(s, t)
<1> USE PolicyAssumption, QueueAssumption
<1> DEFINE w == Scale * AgingLevels
           m == r.age * Scale * AgingLevels
           n == s.age * Scale * AgingLevels
<1>1. r.age \in Nat /\ s.age \in Nat /\ Scale \in Nat /\ w \in Nat
  BY DEF Scale, Requests
<1>2. m = w * r.age /\ n = w * s.age
  BY <1>1
<1> HIDE DEF w
<1>3. m \in Nat /\ n \in Nat /\ m <= n
  BY <1>1, <1>2, TimesMonotone
<1> HIDE DEF m, n
<1>4. m \div t \in Nat /\ n \div t \in Nat
  BY <1>3
<1>5. m \div t <= n \div t
  BY <1>3, DivMonotone
<1>6. AgeTier(r, t) = Least(m \div t, AgingLevels)
      /\ AgeTier(s, t) = Least(n \div t, AgingLevels)
  BY DEF AgeTier, m, n
<1>7. QED
  BY <1>4, <1>5, <1>6 DEF Least

\* The older of two requests of a kind scores no higher.
LEMMA ScoreMonotone ==
    ASSUME NEW r \in Requests, NEW s \in Requests,
           r.kind = s.kind, r.age <= s.age
    PROVE  Scores(r, s) \in Int /\ Scores(s, r) \in Int /\ Scores(s, r) <= Scores(r, s)
<1> USE PolicyAssumption, QueueAssumption
<1> DEFINE b == Budget[r.kind]
           c == CostWeight * Service[r.kind]
           v == Service[r.kind]
<1>1. r.kind \in Kinds /\ r.age \in Nat /\ s.age \in Nat
  BY DEF Requests
<1>2. b \in Nat \ {0} /\ c \in Nat /\ v \in Nat
  BY <1>1
<1>3. /\ WeightedScore(r) = c + SlackWeight * (b - r.age - v) - WaitingWeight * r.age
      /\ WeightedScore(s) = c + SlackWeight * (b - s.age - v) - WaitingWeight * s.age
  BY DEF WeightedScore
<1> HIDE DEF b, c, v
<1>4. /\ SlackWeight * (b - r.age - v) = SlackWeight * (b - v) - SlackWeight * r.age
      /\ SlackWeight * (b - s.age - v) = SlackWeight * (b - v) - SlackWeight * s.age
      /\ SlackWeight * (b - v) \in Int
  BY <1>1, <1>2
<1>5. /\ SlackWeight * r.age \in Nat /\ SlackWeight * s.age \in Nat
      /\ SlackWeight * r.age <= SlackWeight * s.age
      /\ WaitingWeight * r.age \in Nat /\ WaitingWeight * s.age \in Nat
      /\ WaitingWeight * r.age <= WaitingWeight * s.age
  BY <1>1, TimesMonotone
<1>6. WeightedScore(r) \in Int /\ WeightedScore(s) \in Int
      /\ WeightedScore(s) <= WeightedScore(r)
  BY <1>2, <1>3, <1>4, <1>5
<1> DEFINE x == WeightedScore(s)
           y == WeightedScore(r)
<1>7. Scores(r, s) = y * b /\ Scores(s, r) = x * b
  BY DEF Scores, b
<1>8. x \in Int /\ y \in Int /\ x <= y
  BY <1>6
<1> HIDE DEF x, y
<1>9. x * b \in Int /\ y * b \in Int /\ x * b <= y * b
  BY <1>2, <1>8
<1>10. QED
  BY <1>7, <1>9

\* Of two requests of a kind, the one ahead is not overtaken.
LEMMA KindFifo ==
    ASSUME NEW q \in Seq(Requests), NEW i \in DOMAIN q, NEW j \in DOMAIN q,
           i < j, q[j].age <= q[i].age, q[i].kind = q[j].kind
    PROVE  ~Before(q, j, i)
<1> USE PolicyAssumption, QueueAssumption
<1>1. q # << >> /\ q[i] \in Requests /\ q[j] \in Requests /\ i \in Nat /\ j \in Nat
  OBVIOUS
<1>2. ~FcfsBefore(q, j, i)
  BY <1>1 DEF FcfsBefore
<1>3. ~StaticBefore(q, j, i)
  BY <1>1 DEF StaticBefore, ClassRank
<1>4. ~SloAwareBefore(q, j, i)
  <2> DEFINE t == EffectiveThreshold(q)
  <2>1. t \in Nat \ {0}
    BY <1>1, ThresholdRange
  <2> HIDE DEF t
  <2>2. /\ AgeTier(q[j], t) \in Nat /\ AgeTier(q[i], t) \in Nat
        /\ AgeTier(q[j], t) <= AgeTier(q[i], t)
    BY <1>1, <2>1, TierRange, TierMonotone
  <2>3. ~ScoresLower(q[j], q[i])
    BY <1>1, ScoreMonotone DEF ScoresLower
  <2>4. QED
    BY <1>1, <2>2, <2>3 DEF SloAwareBefore, t
<1>5. QED
  BY <1>2, <1>3, <1>4 DEF Before

\* The request that a policy orders first is no younger than an aged one.
LEMMA AgedFirst ==
    ASSUME NEW q \in Seq(Requests), NEW r \in DOMAIN q, NEW i \in DOMAIN q,
           SettingsOK, Guarded(q[r]), q[r].age >= ProtectedAge,
           OrderedFirst(q, i)
    PROVE  i <= r
<1> USE PolicyAssumption, QueueAssumption
<1> SUFFICES ASSUME r < i PROVE FALSE
  OBVIOUS
<1>1. Before(q, i, r)
  BY DEF OrderedFirst
<1>2. CASE policy = "fcfs"
  BY <1>1, <1>2 DEF Before, FcfsBefore
<1>3. CASE policy = "static_priority"
  BY <1>1, <1>3 DEF Before, StaticBefore, ClassRank, Guarded
<1>4. CASE policy = "slo_aware"
  <2> DEFINE t == EffectiveThreshold(q)
  <2>1. q # << >> /\ q[r] \in Requests /\ q[i] \in Requests
    OBVIOUS
  <2>2. t \in Nat \ {0} /\ t <= Scale * ProtectedAge
    BY <1>4, <2>1, ThresholdRange
  <2>3. Scale \in Nat /\ ProtectedAge \in Nat /\ q[r].age \in Nat
    BY <2>1, ProtectedAgeType DEF Scale, Requests
  <2>4. /\ Scale * ProtectedAge \in Nat /\ Scale * q[r].age \in Nat
        /\ Scale * ProtectedAge <= Scale * q[r].age
    BY <2>3, TimesMonotone
  <2>5. t <= Scale * q[r].age
    BY <2>2, <2>4
  <2> HIDE DEF t
  <2>6. AgeTier(q[r], t) = AgingLevels
    BY <2>1, <2>2, <2>5, TierRange
  <2>7. AgeTier(q[i], t) \in Nat /\ AgeTier(q[i], t) <= AgingLevels
    BY <2>1, <2>2, TierRange
  <2>8. SloAwareBefore(q, i, r)
    BY <1>1, <1>4 DEF Before
  <2>9. QED
    BY <2>6, <2>7, <2>8 DEF SloAwareBefore, t
<1>5. QED
  BY <1>2, <1>3, <1>4 DEF SettingsOK

-----------------------------------------------------------------------------
Protected(r) == Guarded(r) /\ r.age >= ProtectedAge

\* No slot idles while a request waits, and there are no more than Capacity.
QueueFits == Len(queue) <= Capacity
SlotsBusy == queue # << >> => \A s \in Slots : slots[s] # Idle

\* What a protected request has waited beyond the protected age.
WaitPaidFor ==
    \A r \in DOMAIN queue, s \in Slots :
        Protected(queue[r]) =>
            queue[r].age - ProtectedAge
                <= slots[s] + MaxService * (Capacity - r)

\* Ages decrease along the waiting list.
OldestAhead ==
    \A i, j \in DOMAIN queue : i < j => queue[j].age <= queue[i].age

IInv == TypeOK /\ QueueFits /\ SlotsBusy /\ WaitPaidFor /\ OldestAhead

\* A request that moves up from the r-th place owes one MaxService more.
LEMMA PlaceBound ==
    ASSUME NEW r \in Nat, r >= 1, r <= Capacity
    PROVE  /\ MaxService * (Capacity - r) \in Nat
           /\ MaxService * (Capacity - (r - 1)) =
                 MaxService * (Capacity - r) + MaxService
           /\ MaxService * (Capacity - r) <= MaxService * Capacity - MaxService
<1> USE QueueAssumption
<1> DEFINE d == Capacity - r
<1>1. d \in Nat /\ d + 1 <= Capacity /\ Capacity - (r - 1) = d + 1
  OBVIOUS
<1> HIDE DEF d
<1>2. MaxService * d \in Nat /\ MaxService * (d + 1) = MaxService * d + MaxService
  BY <1>1
<1>3. MaxService * (d + 1) <= MaxService * Capacity /\ MaxService * Capacity \in Nat
  BY <1>1, TimesMonotone
<1>4. QED
  BY <1>1, <1>2, <1>3 DEF d

LEMMA InitInvariant == Init => IInv
<1> SUFFICES ASSUME Init PROVE IInv
  OBVIOUS
<1>1. queue = << >> /\ DOMAIN queue = {} /\ Len(queue) = 0
  BY DEF Init
<1>2. TypeOK
  BY <1>1 DEF Init, TypeOK
<1>3. QED
  BY <1>1, <1>2, QueueAssumption
    DEF IInv, QueueFits, SlotsBusy, WaitPaidFor, OldestAhead

LEMMA SubmitToSlotKeeps ==
    ASSUME IInv, NEW s \in Slots, SubmitToSlot(s), UNCHANGED settings
    PROVE  IInv'
<1>1. queue = << >> /\ queue' = << >> /\ DOMAIN queue' = {} /\ Len(queue') = 0
  BY DEF IInv, SlotsBusy, SubmitToSlot
<1>2. TypeOK'
  BY QueueAssumption DEF IInv, TypeOK, SubmitToSlot, SettingsOK, settings
<1>3. QED
  BY <1>1, <1>2, QueueAssumption
    DEF IInv, QueueFits, SlotsBusy, WaitPaidFor, OldestAhead

LEMMA SubmitToQueueKeeps ==
    ASSUME IInv, NEW k \in Kinds, NEW l \in 0 .. MaxLateness,
           NEW i \in 1 .. Len(queue) + 1, SubmitToQueue(k, l, i), UNCHANGED settings
    PROVE  IInv'
<1> USE QueueAssumption
<1> DEFINE e == [kind |-> k, age |-> l]
<1>1. queue \in Seq(Requests) /\ Len(queue) \in Nat /\ DOMAIN queue = 1 .. Len(queue)
  BY DEF IInv, TypeOK
<1>2. e \in Requests /\ e.age <= MaxLateness
  BY DEF Requests
<1>3. /\ queue' \in Seq(Requests) /\ Len(queue') = Len(queue) + 1
      /\ \A j \in 1 .. Len(queue) + 1 :
            queue'[j] = IF j < i THEN queue[j]
                        ELSE IF j = i THEN e ELSE queue[j - 1]
  <2>1. queue' = InsertAt(queue, i, e)
    BY DEF SubmitToQueue
  <2> HIDE DEF e
  <2>2. /\ InsertAt(queue, i, e) \in Seq(Requests)
        /\ Len(InsertAt(queue, i, e)) = Len(queue) + 1
        /\ \A j \in 1 .. Len(queue) + 1 :
              InsertAt(queue, i, e)[j] = IF j < i THEN queue[j]
                                         ELSE IF j = i THEN e ELSE queue[j - 1]
    <3>1. queue \in Seq(Requests) /\ e \in Requests
      BY <1>1, <1>2
    <3>2. QED
      BY <3>1, InsertAtFacts, SMTT(60)
  <2>3. QED
    BY <2>1, <2>2, Zenon
<1>4. slots' = slots /\ Len(queue) < Capacity /\ \A s \in Slots : slots[s] # Idle
  BY DEF SubmitToQueue
<1>5. TypeOK' /\ QueueFits' /\ SlotsBusy'
  BY <1>1, <1>3, <1>4 DEF IInv, TypeOK, QueueFits, SlotsBusy, SettingsOK, settings
<1>6. WaitPaidFor'
  <2> SUFFICES ASSUME NEW r \in DOMAIN queue', NEW s \in Slots,
                      Protected(queue'[r])
               PROVE  queue'[r].age - ProtectedAge
                         <= slots[s] + MaxService * (Capacity - r)
    BY <1>4 DEF WaitPaidFor, Protected, Guarded, ProtectedAge, settings
  <2>1. r \in 1 .. Len(queue) + 1
    BY <1>1, <1>3
  <2>2. r < i
    <3>1. CASE r = i
      <4>1. queue'[r] = e
        BY <1>3, <2>1, <3>1
      <4>2. QED
        BY <1>2, <4>1, ProtectedAgeType DEF Protected, Requests
    <3>2. CASE r > i
      <4>1. queue'[r] = queue[r - 1] /\ r - 1 \in i .. Len(queue)
        BY <1>1, <1>3, <2>1, <3>2
      <4>2. queue[r - 1].age <= l
        BY <4>1 DEF SubmitToQueue, ArrivedAt
      <4>3. queue[r - 1] \in Requests
        BY <1>1, <4>1
      <4>4. queue[r - 1].age \in Nat
        BY <4>3 DEF Requests
      <4>5. QED
        BY <4>1, <4>2, <4>4, ProtectedAgeType DEF Protected
    <3>3. QED
      BY <2>1, <3>1, <3>2
  <2>3. r \in DOMAIN queue /\ queue'[r] = queue[r]
    BY <1>1, <1>3, <2>1, <2>2
  <2>4. QED
    BY <2>3 DEF IInv, WaitPaidFor
<1>7. OldestAhead'
  <2>1. DOMAIN queue' = 1 .. Len(queue) + 1
    BY <1>1, <1>3
  <2> SUFFICES ASSUME NEW a \in 1 .. Len(queue) + 1, NEW b \in 1 .. Len(queue) + 1, a < b
               PROVE  queue'[b].age <= queue'[a].age
    BY <2>1 DEF OldestAhead
  <2>2. CASE b < i
    <3>1. a \in DOMAIN queue /\ b \in DOMAIN queue
      BY <1>1, <2>2
    <3>2. queue'[a] = queue[a] /\ queue'[b] = queue[b]
      BY <1>3, <2>2
    <3>3. QED
      BY <3>1, <3>2 DEF IInv, OldestAhead
  <2>3. CASE b = i
    <3>1. queue'[b] = e /\ queue'[a] = queue[a] /\ a \in 1 .. i - 1
      BY <1>3, <2>3
    <3>2. QED
      BY <3>1 DEF SubmitToQueue, ArrivedAt
  <2>4. CASE i < b /\ a = i
    <3>1. queue'[a] = e /\ queue'[b] = queue[b - 1] /\ b - 1 \in i .. Len(queue)
      BY <1>1, <1>3, <2>4
    <3>2. QED
      BY <3>1 DEF SubmitToQueue, ArrivedAt
  <2>5. CASE i < b /\ a < i
    <3>1. /\ queue'[a] = queue[a] /\ queue'[b] = queue[b - 1]
          /\ a \in 1 .. i - 1 /\ b - 1 \in i .. Len(queue)
          /\ a \in DOMAIN queue /\ b - 1 \in DOMAIN queue /\ a < b - 1
      BY <1>1, <1>3, <2>5
    <3>2. QED
      BY <3>1 DEF IInv, OldestAhead
  <2>6. CASE i < a
    <3>1. /\ queue'[a] = queue[a - 1] /\ queue'[b] = queue[b - 1]
          /\ a - 1 \in DOMAIN queue /\ b - 1 \in DOMAIN queue /\ a - 1 < b - 1
      BY <1>1, <1>3, <2>6
    <3>2. QED
      BY <3>1 DEF IInv, OldestAhead
  <2>7. b < i \/ b = i \/ (i < b /\ a = i) \/ (i < b /\ a < i) \/ i < a
    BY <1>1
  <2>8. QED
    BY <2>2, <2>3, <2>4, <2>5, <2>6, <2>7
<1>8. QED
  BY <1>5, <1>6, <1>7 DEF IInv

\* What a removal does to the places, whoever it removes.
LEMMA RemovalShifts ==
    ASSUME TypeOK, NEW i \in DOMAIN queue, queue' = RemoveAt(queue, i)
    PROVE  /\ queue' \in Seq(Requests) /\ Len(queue') = Len(queue) - 1
           /\ \A r \in DOMAIN queue' :
                 \/ r < i /\ r \in DOMAIN queue /\ queue'[r] = queue[r]
                 \/ r >= i /\ r + 1 \in DOMAIN queue /\ queue'[r] = queue[r + 1]
<1>1. queue \in Seq(Requests) /\ Len(queue) \in Nat /\ i \in 1 .. Len(queue)
  BY DEF TypeOK
<1>2. /\ queue' \in Seq(Requests) /\ Len(queue') = Len(queue) - 1
      /\ \A j \in 1 .. Len(queue) - 1 :
            queue'[j] = IF j < i THEN queue[j] ELSE queue[j + 1]
  BY <1>1, RemoveAtFacts
<1>3. ASSUME NEW r \in DOMAIN queue'
      PROVE  \/ r < i /\ r \in DOMAIN queue /\ queue'[r] = queue[r]
             \/ r >= i /\ r + 1 \in DOMAIN queue /\ queue'[r] = queue[r + 1]
  <2>1. r \in 1 .. Len(queue) - 1
    BY <1>1, <1>2
  <2>2. CASE r < i
    BY <1>1, <1>2, <2>1, <2>2
  <2>3. CASE r >= i
    BY <1>1, <1>2, <2>1, <2>3
  <2>4. QED
    BY <1>1, <2>1, <2>2, <2>3
<1>4. QED
  BY <1>2, <1>3

LEMMA RemovalKeepsOrder ==
    ASSUME TypeOK, OldestAhead, NEW i \in DOMAIN queue, queue' = RemoveAt(queue, i)
    PROVE  OldestAhead'
<1> SUFFICES ASSUME NEW a \in DOMAIN queue', NEW b \in DOMAIN queue', a < b
             PROVE  queue'[b].age <= queue'[a].age
  BY DEF OldestAhead
<1>1. /\ queue' \in Seq(Requests)
      /\ \A r \in DOMAIN queue' :
            \/ r < i /\ r \in DOMAIN queue /\ queue'[r] = queue[r]
            \/ r >= i /\ r + 1 \in DOMAIN queue /\ queue'[r] = queue[r + 1]
  BY RemovalShifts
<1>2. a \in Nat /\ b \in Nat /\ i \in Nat
  BY <1>1 DEF TypeOK
<1>3. CASE b < i
  BY <1>1, <1>2, <1>3 DEF OldestAhead
<1>4. CASE a < i /\ i <= b
  <2>1. /\ a \in DOMAIN queue /\ queue'[a] = queue[a]
        /\ b + 1 \in DOMAIN queue /\ queue'[b] = queue[b + 1] /\ a < b + 1
    BY <1>1, <1>2, <1>4
  <2>2. QED
    BY <2>1 DEF OldestAhead
<1>5. CASE i <= a
  <2>1. /\ a + 1 \in DOMAIN queue /\ queue'[a] = queue[a + 1]
        /\ b + 1 \in DOMAIN queue /\ queue'[b] = queue[b + 1] /\ a + 1 < b + 1
    BY <1>1, <1>2, <1>5
  <2>2. QED
    BY <2>1 DEF OldestAhead
<1>6. QED
  BY <1>2, <1>3, <1>4, <1>5

LEMMA CompleteAndDispatchKeeps ==
    ASSUME IInv, NEW d \in Slots, CompleteAndDispatch(d), UNCHANGED settings
    PROVE  IInv'
<1> USE QueueAssumption
<1>1. queue \in Seq(Requests) /\ Len(queue) \in Nat /\ DOMAIN queue = 1 .. Len(queue)
  BY DEF IInv, TypeOK
<1>2. PICK i \in DOMAIN queue :
         OrderedFirst(queue, i) /\ queue' = RemoveAt(queue, i)
  BY DEF CompleteAndDispatch
<1>3. /\ queue' \in Seq(Requests) /\ Len(queue') = Len(queue) - 1
      /\ \A r \in DOMAIN queue' :
            \/ r < i /\ r \in DOMAIN queue /\ queue'[r] = queue[r]
            \/ r >= i /\ r + 1 \in DOMAIN queue /\ queue'[r] = queue[r + 1]
  BY <1>2, RemovalShifts DEF IInv
<1>4. /\ slots' \in [Slots -> {Idle} \cup 0 .. MaxService]
      /\ \A s \in Slots : slots'[s] = IF s = d THEN 0 ELSE slots[s]
  BY DEF IInv, TypeOK, CompleteAndDispatch
<1>5. \A s \in Slots : slots[s] \in 0 .. MaxService
  BY <1>2 DEF IInv, TypeOK, SlotsBusy
<1>6. TypeOK' /\ QueueFits' /\ SlotsBusy'
  BY <1>1, <1>3, <1>4, <1>5 DEF IInv, TypeOK, QueueFits, SlotsBusy, Idle,
                           SettingsOK, settings
<1>7. WaitPaidFor'
  <2> SUFFICES ASSUME NEW r \in DOMAIN queue', NEW s \in Slots,
                      Protected(queue'[r])
               PROVE  queue'[r].age - ProtectedAge
                         <= slots'[s] + MaxService * (Capacity - r)
    BY DEF WaitPaidFor, Protected, Guarded, ProtectedAge, settings
  <2>1. r \in Nat /\ r >= 1
    BY <1>3
  <2>2. r >= i /\ r + 1 \in DOMAIN queue /\ queue'[r] = queue[r + 1]
    <3>1. CASE r < i
      <4>1. r \in DOMAIN queue /\ queue'[r] = queue[r]
        BY <1>1, <1>3, <2>1, <3>1
      <4>2. i <= r
        BY <1>1, <1>2, <4>1, AgedFirst DEF Protected, IInv, TypeOK
      <4>3. QED
        BY <1>1, <2>1, <3>1, <4>2
    <3>2. QED
      BY <1>3, <3>1
  <2>3. r + 1 \in Nat /\ r + 1 >= 1 /\ r + 1 <= Capacity
    BY <1>1, <2>1, <2>2 DEF IInv, QueueFits
  <2>4. /\ MaxService * (Capacity - (r + 1)) \in Nat
        /\ MaxService * (Capacity - r) =
              MaxService * (Capacity - (r + 1)) + MaxService
    <3>1. (r + 1) - 1 = r
      BY <2>1
    <3>2. QED
      BY <2>3, <3>1, PlaceBound
  <2>5. queue[r + 1].age - ProtectedAge
           <= slots[s] + MaxService * (Capacity - (r + 1))
    BY <2>2 DEF IInv, WaitPaidFor
  <2>6. queue[r + 1] \in Requests
    BY <1>1, <2>2
  <2>7. queue'[r].age - ProtectedAge \in Int
    BY <2>2, <2>6, ProtectedAgeType DEF Requests
  <2>8. slots[s] \in 0 .. MaxService /\ (slots'[s] = 0 \/ slots'[s] = slots[s])
    BY <1>4, <1>5
  <2> DEFINE paid == MaxService * (Capacity - (r + 1))
             owed == queue'[r].age - ProtectedAge
  <2>9. /\ paid \in Nat /\ owed \in Int /\ owed <= slots[s] + paid
        /\ MaxService * (Capacity - r) = paid + MaxService
    BY <2>2, <2>4, <2>5, <2>7
  <2> HIDE DEF paid, owed
  <2>10. owed <= slots'[s] + (paid + MaxService)
    BY <2>8, <2>9
  <2>11. QED
    BY <2>9, <2>10 DEF owed
<1>8. OldestAhead'
  BY <1>2, RemovalKeepsOrder DEF IInv
<1>9. QED
  BY <1>6, <1>7, <1>8 DEF IInv

LEMMA CompleteAndIdleKeeps ==
    ASSUME IInv, NEW d \in Slots, CompleteAndIdle(d), UNCHANGED settings
    PROVE  IInv'
<1>1. queue = << >> /\ queue' = << >> /\ DOMAIN queue' = {} /\ Len(queue') = 0
  BY DEF CompleteAndIdle
<1>2. TypeOK'
  BY DEF IInv, TypeOK, CompleteAndIdle, SettingsOK, settings
<1>3. QED
  BY <1>1, <1>2, QueueAssumption
    DEF IInv, QueueFits, SlotsBusy, WaitPaidFor, OldestAhead

LEMMA LeaveKeeps ==
    ASSUME IInv, NEW i \in DOMAIN queue, Leave(i), UNCHANGED settings
    PROVE  IInv'
<1> USE QueueAssumption
<1>1. queue \in Seq(Requests) /\ Len(queue) \in Nat /\ DOMAIN queue = 1 .. Len(queue)
  BY DEF IInv, TypeOK
<1>2. /\ queue' \in Seq(Requests) /\ Len(queue') = Len(queue) - 1
      /\ \A r \in DOMAIN queue' :
            \/ r < i /\ r \in DOMAIN queue /\ queue'[r] = queue[r]
            \/ r >= i /\ r + 1 \in DOMAIN queue /\ queue'[r] = queue[r + 1]
  BY RemovalShifts DEF IInv, Leave
<1>3. slots' = slots /\ \A s \in Slots : slots[s] \in 0 .. MaxService
  BY DEF IInv, TypeOK, SlotsBusy, Leave
<1>4. TypeOK' /\ QueueFits' /\ SlotsBusy'
  BY <1>1, <1>2, <1>3 DEF IInv, TypeOK, QueueFits, SlotsBusy, Idle,
                           SettingsOK, settings
<1>5. WaitPaidFor'
  <2> SUFFICES ASSUME NEW r \in DOMAIN queue', NEW s \in Slots,
                      Protected(queue'[r])
               PROVE  queue'[r].age - ProtectedAge
                         <= slots[s] + MaxService * (Capacity - r)
    BY <1>3 DEF WaitPaidFor, Protected, Guarded, ProtectedAge, settings
  <2>1. CASE r < i /\ r \in DOMAIN queue /\ queue'[r] = queue[r]
    BY <2>1 DEF IInv, WaitPaidFor
  <2>2. CASE r >= i /\ r + 1 \in DOMAIN queue /\ queue'[r] = queue[r + 1]
    <3>1. r \in Nat /\ r + 1 \in Nat /\ r + 1 >= 1 /\ r + 1 <= Capacity
          /\ (r + 1) - 1 = r
      BY <1>1, <1>2, <2>2 DEF IInv, QueueFits
    <3> DEFINE paid == MaxService * (Capacity - (r + 1))
               owed == queue'[r].age - ProtectedAge
    <3>2. paid \in Nat /\ MaxService * (Capacity - r) = paid + MaxService
      BY <3>1, PlaceBound
    <3>3. owed <= slots[s] + paid
      BY <2>2 DEF IInv, WaitPaidFor
    <3>4. queue[r + 1] \in Requests
      BY <1>1, <2>2
    <3>5. owed \in Int
      BY <2>2, <3>4, ProtectedAgeType DEF Requests
    <3> HIDE DEF paid, owed
    <3>6. owed <= slots[s] + (paid + MaxService)
      BY <1>3, <3>2, <3>3, <3>5
    <3>7. QED
      BY <3>2, <3>6 DEF owed
  <2>3. QED
    BY <1>2, <2>1, <2>2
<1>6. OldestAhead'
  BY RemovalKeepsOrder DEF IInv, Leave
<1>7. QED
  BY <1>4, <1>5, <1>6 DEF IInv

LEMMA TickKeeps ==
    ASSUME IInv, Tick, UNCHANGED settings
    PROVE  IInv'
<1> USE QueueAssumption
<1>1. queue \in Seq(Requests) /\ Len(queue) \in Nat /\ DOMAIN queue = 1 .. Len(queue)
  BY DEF IInv, TypeOK
<1>2. \A r \in Requests :
         Older(r) \in Requests /\ Older(r).kind = r.kind
         /\ Older(r).age \in Nat /\ r.age \in Nat /\ Older(r).age <= r.age + 1
  BY DEF Older, Requests, Least
<1>3. /\ queue' \in Seq(Requests) /\ Len(queue') = Len(queue)
      /\ DOMAIN queue' = DOMAIN queue
      /\ \A r \in DOMAIN queue : queue'[r] = Older(queue[r])
  BY <1>1, <1>2 DEF Tick
<1>4. slots' \in [Slots -> {Idle} \cup 0 .. MaxService]
      /\ \A s \in Slots : slots'[s] = IF slots[s] = Idle THEN Idle ELSE slots[s] + 1
  BY DEF IInv, TypeOK, Tick, Idle
<1>5. TypeOK' /\ QueueFits' /\ SlotsBusy'
  BY <1>1, <1>3, <1>4 DEF IInv, TypeOK, QueueFits, SlotsBusy, Idle,
                           SettingsOK, settings
<1>6. WaitPaidFor'
  <2> SUFFICES ASSUME NEW r \in DOMAIN queue, NEW s \in Slots,
                      Protected(queue'[r])
               PROVE  queue'[r].age - ProtectedAge
                         <= slots'[s] + MaxService * (Capacity - r)
    BY <1>3 DEF WaitPaidFor, Protected, Guarded, ProtectedAge, settings
  <2>1. queue[r] \in Requests /\ queue'[r] = Older(queue[r])
    BY <1>1, <1>3
  <2>2. /\ queue'[r].age \in Nat /\ queue[r].age \in Nat
        /\ queue'[r].age <= queue[r].age + 1 /\ Guarded(queue[r])
    BY <1>2, <2>1 DEF Protected, Guarded
  <2>3. slots[s] \in 0 .. MaxService /\ slots'[s] = slots[s] + 1
    BY <1>4 DEF IInv, TypeOK, SlotsBusy
  <2> DEFINE paid == MaxService * (Capacity - r)
  <2>4. paid \in Nat
    <3>1. r \in Nat /\ r >= 1 /\ r <= Capacity
      BY <1>1 DEF IInv, QueueFits
    <3>2. QED
      BY <3>1, PlaceBound
  <2>5. queue[r].age >= ProtectedAge => queue[r].age - ProtectedAge <= slots[s] + paid
    BY <2>2 DEF IInv, WaitPaidFor, Protected
  <2> HIDE DEF paid
  <2>6. queue'[r].age - ProtectedAge <= slots'[s] + paid
    BY <2>2, <2>3, <2>4, <2>5, ProtectedAgeType
  <2>7. QED
    BY <2>6 DEF paid
<1>7. OldestAhead'
  <2> SUFFICES ASSUME NEW i \in DOMAIN queue, NEW j \in DOMAIN queue, i < j
               PROVE  queue'[j].age <= queue'[i].age
    BY <1>3 DEF OldestAhead
  <2>1. /\ queue[i] \in Requests /\ queue[j] \in Requests
        /\ queue'[i] = Older(queue[i]) /\ queue'[j] = Older(queue[j])
    BY <1>1, <1>3
  <2>2. queue[j].age <= queue[i].age
    BY DEF IInv, OldestAhead
  <2>3. QED
    BY <2>1, <2>2 DEF Older, Requests, Least
<1>8. QED
  BY <1>5, <1>6, <1>7 DEF IInv

-----------------------------------------------------------------------------
\* The inductive invariant: every step of the queue (submit, completion,
\* departure and the passing of time) keeps what a protected request has
\* waited within what each slot has served meanwhile.
THEOREM WaitInvariant == Spec => []IInv
<1>1. IInv /\ [Next]_vars => IInv'
  <2> SUFFICES ASSUME IInv, [Next]_vars PROVE IInv'
    OBVIOUS
  <2>1. ASSUME NEW s \in Slots, SubmitToSlot(s), UNCHANGED settings PROVE IInv'
    BY <2>1, SubmitToSlotKeeps
  <2>2. ASSUME NEW k \in Kinds, NEW l \in 0 .. MaxLateness,
               NEW i \in 1 .. Len(queue) + 1, SubmitToQueue(k, l, i),
               UNCHANGED settings
        PROVE  IInv'
    BY <2>2, SubmitToQueueKeeps
  <2>3. ASSUME NEW s \in Slots, CompleteAndDispatch(s), UNCHANGED settings PROVE IInv'
    BY <2>3, CompleteAndDispatchKeeps
  <2>4. ASSUME NEW s \in Slots, CompleteAndIdle(s), UNCHANGED settings PROVE IInv'
    BY <2>4, CompleteAndIdleKeeps
  <2>5. ASSUME NEW i \in DOMAIN queue, Leave(i), UNCHANGED settings PROVE IInv'
    BY <2>5, LeaveKeeps
  <2>6. CASE Tick /\ UNCHANGED settings
    BY <2>6, TickKeeps
  <2>7. CASE UNCHANGED vars
    BY <2>7 DEF vars, IInv, TypeOK, QueueFits, SlotsBusy, WaitPaidFor,
                OldestAhead, Protected, Guarded, ProtectedAge,
                SettingsOK, settings
  <2>8. QED
    BY <2>1, <2>2, <2>3, <2>4, <2>5, <2>6, <2>7 DEF Next, Step
<1>2. QED
  BY <1>1, InitInvariant, PTL DEF Spec

\* The waiting list and the busy times of the slots keep their types.
THEOREM PolicyQueueTyped == Spec => []TypeOK
<1>1. IInv => TypeOK
  BY DEF IInv
<1>2. QED
  BY <1>1, WaitInvariant, PTL

\* The aging ceiling is strictly oldest-first (slo_aware.py:99-101), with the
\* adaptive threshold too, once a request has waited for ceiling_cap_s.
THEOREM CeilingIsOldestFirst == Spec => []AgedBeforeYounger
<1>1. TypeOK => AgedBeforeYounger
  BY AgedFirst DEF TypeOK, AgedBeforeYounger
<1>2. QED
  BY <1>1, PolicyQueueTyped, PTL

\* No policy lets a request overtake one of its kind, at any age, whatever the
\* weights: the terms of the score and the tiers all favour the older one.
THEOREM KindsAreFifo == Spec => []FifoWithinKind
<1>1. IInv => FifoWithinKind
  <2> SUFFICES ASSUME IInv, NEW i \in DOMAIN queue, NEW j \in DOMAIN queue,
                      queue[i].kind = queue[j].kind, OrderedFirst(queue, j), i < j
               PROVE  FALSE
    BY DEF FifoWithinKind, IInv, TypeOK
  <2>1. queue \in Seq(Requests) /\ queue[j].age <= queue[i].age
    BY DEF IInv, TypeOK, OldestAhead
  <2>2. ~Before(queue, j, i)
    BY <2>1, KindFifo
  <2>3. i # j
    BY DEF IInv, TypeOK
  <2>4. QED
    BY <2>2, <2>3 DEF OrderedFirst
<1>2. QED
  BY <1>1, WaitInvariant, PTL

\* No guarded request waits longer than the protected age and the service of
\* a full waiting list, whatever the arrivals, scores, slots and weights are.
THEOREM WaitsAreBounded == Spec => []WaitBounded
<1>1. IInv => WaitBounded
  <2> SUFFICES ASSUME IInv, NEW r \in DOMAIN queue, Guarded(queue[r])
               PROVE  queue[r].age <= ProtectedAge + MaxService * Capacity
    BY DEF WaitBounded
  <2> USE QueueAssumption
  <2>1. queue[r] \in Requests /\ r \in Nat /\ r >= 1 /\ r <= Capacity
    BY DEF IInv, TypeOK, QueueFits
  <2>2. queue[r].age \in Nat /\ ProtectedAge \in Nat
    BY <2>1, ProtectedAgeType DEF Requests
  <2>3. PICK s \in Slots : TRUE
    OBVIOUS
  <2>4. slots[s] \in 0 .. MaxService
    BY DEF IInv, TypeOK, SlotsBusy
  <2> DEFINE paid == MaxService * (Capacity - r)
             all == MaxService * Capacity
  <2>5. paid \in Nat /\ all \in Nat /\ paid <= all - MaxService
    BY <2>1, PlaceBound, TimesMonotone
  <2>6. queue[r].age >= ProtectedAge => queue[r].age - ProtectedAge <= slots[s] + paid
    BY DEF IInv, WaitPaidFor, Protected
  <2> HIDE DEF paid, all
  <2>7. queue[r].age <= ProtectedAge + all
    BY <2>2, <2>4, <2>5, <2>6
  <2>8. QED
    BY <2>7 DEF all
<1>2. QED
  BY <1>1, WaitInvariant, PTL
=============================================================================
