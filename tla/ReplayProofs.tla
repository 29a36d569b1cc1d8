---------------------------- MODULE ReplayProofs ----------------------------
(***************************************************************************)
(* Theorems about what is computed again from the times of a simulated     *)
(* history: that it agrees with what the probe integrated on the way, for  *)
(* any number of requests, any arrival and service times, and any          *)
(* thresholds and holds.                                                   *)
(***************************************************************************)
EXTENDS TraceProofs

Statistics ==
    [depthTime : [0 .. N -> Nat], levelTime : [0 .. 3 -> Nat], peak : Nat,
     current : [Thresholds -> Nat], episodes : [Thresholds -> Seq(Nat)]]

\* Requests are dispatched in the order of their arrival, each after it came.
InOrder ==
    /\ stats \in Statistics /\ depth \in 0 .. N /\ dispatched \in Seq(Nat)
    /\ Len(dispatched) = Len(decisions) /\ Len(ends) = Len(decisions)
    /\ next <= N + 1 /\ Len(waiting) = next - 1 - Len(decisions)
    /\ \A r \in 1 .. Len(decisions) : /\ decisions[r].time = dispatched[r]
                                      /\ arrival[r] <= dispatched[r]
                                      /\ dispatched[r] <= now
    /\ \A i, j \in 1 .. Len(decisions) : i <= j => dispatched[i] <= dispatched[j]
    /\ \A r \in 1 .. next - 1 : arrival[r] <= now

\* At the top of the loop, what has arrived has been taken in.
UpToDate ==
    /\ stage = "arrived" \/ (stage = "top" /\ next > 1) => \A r \in next .. N : arrival[r] > now
    /\ stage = "top" => depth = Len(waiting)

\* No time passes before the first dispatch nor after the last one.
BeginAndEnd ==
    /\ decisions = <<>> =>
          /\ now = arrival[1]
          /\ \/ stage \in {"top", "freed"} /\ next = 1
             \/ stage = "arrived" /\ next > 1
    /\ decisions # <<>> => level = decisions[Len(decisions)].new
    /\ Unfinished \/ (decisions # <<>> /\ decisions[Len(decisions)].time = now)
    /\ stage = "done" => ~Unfinished

HistoryInv == TraceInv /\ InOrder /\ UpToDate /\ BeginAndEnd

-----------------------------------------------------------------------------
(* The statistics.                                                         *)

\* What add_interval does, field by field.
IntervalAdded(t, s, span, d, k) ==
    /\ t.depthTime = [s.depthTime EXCEPT ![d] = s.depthTime[d] + span]
    /\ t.levelTime = [s.levelTime EXCEPT ![k] = s.levelTime[k] + span]
    /\ t.peak = IF d > s.peak THEN d ELSE s.peak
    /\ t.current = [j \in Thresholds |-> IF d >= j THEN s.current[j] + span ELSE 0]
    /\ t.episodes = [j \in Thresholds |-> IF d < j /\ s.current[j] > 0
                                          THEN Append(s.episodes[j], s.current[j])
                                          ELSE s.episodes[j]]

LEMMA AddIntervalFields ==
    ASSUME NEW s \in Statistics, NEW span \in Nat \ {0}, NEW d \in 0 .. N, NEW k \in 0 .. 3,
           NEW t, t = AddInterval(s, span, d, k)
    PROVE  t \in Statistics /\ IntervalAdded(t, s, span, d, k)
<1> DEFINE depthTime == [s.depthTime EXCEPT ![d] = s.depthTime[d] + span]
           levelTime == [s.levelTime EXCEPT ![k] = s.levelTime[k] + span]
           peak == IF d > s.peak THEN d ELSE s.peak
           grown == [j \in Thresholds |-> IF d >= j THEN s.current[j] + span ELSE s.current[j]]
           u == [s EXCEPT !.depthTime[d] = @ + span, !.levelTime[k] = @ + span,
                          !.peak = IF d > @ THEN d ELSE @,
                          !.current = [j \in Thresholds |->
                                         IF d >= j THEN @[j] + span ELSE @[j]]]
           K == {j \in Thresholds : d < j}
           current == [j \in Thresholds |-> IF d >= j THEN s.current[j] + span ELSE 0]
           episodes == [j \in Thresholds |-> IF d < j /\ s.current[j] > 0
                                             THEN Append(s.episodes[j], s.current[j])
                                             ELSE s.episodes[j]]
<1>1. /\ s.depthTime \in [0 .. N -> Nat] /\ s.levelTime \in [0 .. 3 -> Nat] /\ s.peak \in Nat
      /\ s.current \in [Thresholds -> Nat] /\ s.episodes \in [Thresholds -> Seq(Nat)]
      /\ d \in Nat /\ Thresholds \subseteq Nat
  <2>1. /\ s.depthTime \in [0 .. N -> Nat] /\ s.levelTime \in [0 .. 3 -> Nat]
        /\ s.peak \in Nat /\ s.current \in [Thresholds -> Nat]
        /\ s.episodes \in [Thresholds -> Seq(Nat)]
    BY DEF Statistics
  <2>2. d \in Nat /\ Thresholds \subseteq Nat
    BY TraceAssumption DEF Thresholds
  <2> QED
    BY <2>1, <2>2
<1>2. /\ depthTime \in [0 .. N -> Nat] /\ levelTime \in [0 .. 3 -> Nat] /\ peak \in Nat
      /\ grown \in [Thresholds -> Nat] /\ current \in [Thresholds -> Nat]
      /\ episodes \in [Thresholds -> Seq(Nat)]
  <2>1. depthTime \in [0 .. N -> Nat]
    <3>1. s.depthTime[d] \in Nat
      BY <1>1
    <3>2. s.depthTime[d] + span \in Nat
      BY <3>1
    <3> QED
      BY <1>1, <3>2
  <2>2. levelTime \in [0 .. 3 -> Nat]
    <3>1. s.levelTime[k] + span \in Nat
      BY <1>1
    <3> QED
      BY <1>1, <3>1
  <2>3. peak \in Nat
    BY <1>1
  <2>4. grown \in [Thresholds -> Nat]
    BY <1>1
  <2>4a. current \in [Thresholds -> Nat]
    BY <1>1
  <2>5. \A j \in Thresholds : s.episodes[j] \in Seq(Nat) /\ s.current[j] \in Nat
    BY <1>1
  <2>6. episodes \in [Thresholds -> Seq(Nat)]
    BY <2>5
  <2> QED
    BY <2>1, <2>2, <2>3, <2>4, <2>4a, <2>6
<1>0. s = [depthTime |-> s.depthTime, levelTime |-> s.levelTime, peak |-> s.peak,
           current |-> s.current, episodes |-> s.episodes]
  BY DEF Statistics
<1>3. u = [depthTime |-> depthTime, levelTime |-> levelTime, peak |-> peak,
           current |-> grown, episodes |-> s.episodes]
  <2> DEFINE u1 == [s EXCEPT !.depthTime[d] = @ + span]
             u2 == [u1 EXCEPT !.levelTime[k] = @ + span]
             u3 == [u2 EXCEPT !.peak = IF d > @ THEN d ELSE @]
             u4 == [u3 EXCEPT !.current = [j \in Thresholds |->
                                             IF d >= j THEN @[j] + span ELSE @[j]]]
  <2>1. u = u4
    OBVIOUS
  <2>2. u1 = [depthTime |-> depthTime, levelTime |-> s.levelTime, peak |-> s.peak,
              current |-> s.current, episodes |-> s.episodes]
    BY <1>0
  <2> HIDE DEF u1, depthTime
  <2>3. u2 = [depthTime |-> depthTime, levelTime |-> levelTime, peak |-> s.peak,
              current |-> s.current, episodes |-> s.episodes]
    BY <2>2
  <2> HIDE DEF u2, levelTime
  <2>4. u3 = [depthTime |-> depthTime, levelTime |-> levelTime, peak |-> peak,
              current |-> s.current, episodes |-> s.episodes]
    BY <2>3
  <2> HIDE DEF u3, peak
  <2>5. u4 = [depthTime |-> depthTime, levelTime |-> levelTime, peak |-> peak,
              current |-> grown, episodes |-> s.episodes]
    BY <2>4
  <2> HIDE DEF u, u4, grown
  <2> QED
    BY <2>1, <2>5
<1>4. t = FinishEpisodes(u, K)
  <2>1. span # 0
    OBVIOUS
  <2> QED
    BY <2>1, Zenon DEF AddInterval
<1> HIDE DEF u, depthTime, levelTime, peak
<1>5. t = [depthTime |-> depthTime, levelTime |-> levelTime, peak |-> peak,
           current |-> [j \in Thresholds |-> IF j \in K THEN 0 ELSE grown[j]],
           episodes |-> [j \in Thresholds |-> IF j \in K /\ grown[j] > 0
                                              THEN Append(s.episodes[j], grown[j])
                                              ELSE s.episodes[j]]]
  <2> DEFINE E == [j \in Thresholds |-> IF j \in K /\ u.current[j] > 0
                                        THEN Append(u.episodes[j], u.current[j])
                                        ELSE u.episodes[j]]
             v == [u EXCEPT !.episodes = E]
             C == [j \in Thresholds |-> IF j \in K THEN 0 ELSE v.current[j]]
  <2>1. t = [v EXCEPT !.current = C]
    BY <1>4 DEF FinishEpisodes
  <2>2. u.current = grown /\ u.episodes = s.episodes
    BY <1>3
  <2> HIDE DEF E, C
  <2>3. v = [depthTime |-> depthTime, levelTime |-> levelTime, peak |-> peak,
             current |-> grown, episodes |-> E]
    BY <1>3
  <2> HIDE DEF v
  <2>4. v.current = grown
    BY <2>3
  <2>5. t = [depthTime |-> depthTime, levelTime |-> levelTime, peak |-> peak,
             current |-> C, episodes |-> E]
    BY <2>1, <2>3
  <2> HIDE DEF grown, K
  <2> QED
    BY <2>2, <2>4, <2>5 DEF E, C
<1>6. [j \in Thresholds |-> IF j \in K THEN 0 ELSE grown[j]] = current
  BY <1>1
<1>7. [j \in Thresholds |-> IF j \in K /\ grown[j] > 0
                            THEN Append(s.episodes[j], grown[j]) ELSE s.episodes[j]] = episodes
  BY <1>1
<1> HIDE DEF current, episodes, K, grown
<1>8. t = [depthTime |-> depthTime, levelTime |-> levelTime, peak |-> peak,
           current |-> current, episodes |-> episodes]
  BY <1>5, <1>6, <1>7
<1>9. t \in Statistics
  BY <1>2, <1>8 DEF Statistics
<1> QED
  BY <1>8, <1>9 DEF IntervalAdded, depthTime, levelTime, peak, current, episodes

-----------------------------------------------------------------------------
(* The steps.                                                              *)

LEMMA Numbers ==
    ASSUME TraceTypes
    PROVE  /\ N \in Nat \ {0} /\ now \in Nat /\ next \in Nat \ {0}
           /\ waiting \in Seq(Nat) /\ Len(waiting) \in Nat /\ Len(decisions) \in Nat
           /\ arrival \in [1 .. N -> Nat] /\ arrival[1] \in Nat
           /\ \A i, j \in 1 .. N : i <= j => arrival[i] <= arrival[j]
<1>1. /\ decisions \in Seq(DecisionRecord) /\ waiting \in Seq(Nat) /\ now \in Nat
      /\ next \in Nat \ {0} /\ arrival \in ArrivalTimes
  BY DEF TraceTypes
<1>2. Len(decisions) \in Nat /\ Len(waiting) \in Nat
  BY <1>1
<1>3. /\ N \in Nat \ {0} /\ arrival \in [1 .. N -> Nat]
      /\ \A i, j \in 1 .. N : i <= j => arrival[i] <= arrival[j]
  BY <1>1, TraceAssumption
<1>4. 1 \in 1 .. N
  BY <1>3
<1>5. arrival[1] \in Nat
  BY <1>3, <1>4
<1> QED
  BY <1>1, <1>2, <1>3, <1>5

LEMMA Interval ==
    ASSUME NEW a \in Int, NEW b \in Int, a <= b + 1
    PROVE  IsFiniteSet(a .. b) /\ Cardinality(a .. b) = b - a + 1
<1>1. IsFiniteSet(a .. b) /\ Cardinality(a .. b) = IF a > b THEN 0 ELSE b - a + 1
  BY FS_Interval, Zenon
<1> QED
  BY <1>1

LEMMA Concatenated ==
    ASSUME NEW s \in Seq(Nat), NEW t \in Seq(Nat)
    PROVE  s \o t \in Seq(Nat) /\ Len(s \o t) = Len(s) + Len(t)
OBVIOUS

\* The arrivals of a moment are the next ones.
LEMMA Newcomers ==
    ASSUME TraceTypes, next <= N + 1
    PROVE  LET n == Cardinality(Come)
           IN /\ n \in Nat /\ next + n <= N + 1
              /\ \A r \in next .. next + n - 1 : arrival[r] <= now
              /\ \A r \in next + n .. N : arrival[r] > now
<1> DEFINE B == {r \in next .. N + 1 : r = N + 1 \/ arrival[r] > now}
           b == Min(B)
<1>1. /\ N \in Nat /\ next \in Nat \ {0} /\ arrival \in [1 .. N -> Nat] /\ now \in Nat
      /\ \A i, j \in 1 .. N : i <= j => arrival[i] <= arrival[j]
  BY TraceAssumption DEF TraceTypes
<1>2. b \in B /\ \A r \in B : b <= r
  <2>1. N + 1 \in B /\ B \in SUBSET Nat
    BY <1>1
  <2> HIDE DEF B
  <2> QED
    BY <2>1, LeastOfNaturals
<1> HIDE DEF b
<1>3. b \in next .. N + 1
  BY <1>2
<1>4. ASSUME NEW r \in next .. N PROVE r \in Come <=> r < b
  <2>1. r \in 1 .. N /\ arrival[r] \in Nat
    BY <1>1
  <2>2. ASSUME r < b PROVE arrival[r] <= now
    <3>1. r \notin B
      BY <1>2, <1>3, <2>2
    <3> QED
      BY <1>1, <2>1, <3>1
  <2>3. ASSUME b <= r PROVE arrival[r] > now
    <3>1. b \in 1 .. N /\ arrival[b] > now
      BY <1>1, <1>2, <1>3, <2>3
    <3>2. arrival[b] <= arrival[r] /\ arrival[b] \in Nat
      BY <1>1, <2>1, <2>3, <3>1
    <3> QED
      BY <1>1, <2>1, <3>1, <3>2
  <2> QED
    BY <1>1, <1>3, <2>1, <2>2, <2>3 DEF Come
<1>5. Come = next .. b - 1
  BY <1>1, <1>3, <1>4 DEF Come
<1>6. Cardinality(Come) = b - next
  BY <1>1, <1>3, <1>5, Interval
<1>7. /\ \A r \in next .. b - 1 : arrival[r] <= now
      /\ \A r \in b .. N : arrival[r] > now
  BY <1>1, <1>3, <1>4 DEF Come
<1> QED
  BY <1>1, <1>3, <1>6, <1>7

LEMMA HistoryStarts == Init => HistoryInv
<1> SUFFICES ASSUME Init PROVE HistoryInv
  OBVIOUS
<1>1. TraceInv /\ N \in Nat \ {0} /\ arrival \in [1 .. N -> Nat]
  BY TraceStarts, TraceAssumption DEF Init
<1>2. stats \in Statistics
  <2>1. stats = FreshStats
    BY DEF Init
  <2>2. <<>> \in Seq(Nat)
    OBVIOUS
  <2> QED
    BY <2>1, <2>2 DEF FreshStats, Statistics
<1>3. /\ next = 1 /\ waiting = <<>> /\ dispatched = <<>> /\ ends = <<>> /\ decisions = <<>>
      /\ stage = "top" /\ depth = 0 /\ now = arrival[1]
  BY DEF Init
<1>4. InOrder
  <2>1. Len(<<>>) = 0 /\ <<>> \in Seq(Nat) /\ 1 .. 0 = {}
    OBVIOUS
  <2>2. \A r \in 1 .. 1 - 1 : r \in 1 .. 0
    OBVIOUS
  <2>3. depth \in 0 .. N /\ next <= N + 1 /\ 0 = next - 1 - 0
    BY <1>1, <1>3
  <2> QED
    BY <1>2, <1>3, <2>1, <2>2, <2>3 DEF InOrder
<1>5. UpToDate /\ BeginAndEnd
  BY <1>1, <1>3 DEF UpToDate, BeginAndEnd, Unfinished
<1> QED
  BY <1>1, <1>4, <1>5 DEF HistoryInv

\* The time to the next event, and what the statistics become.
LEMMA AdvanceTime ==
    ASSUME HistoryInv, Advance
    PROVE  /\ now' \in Nat /\ now' >= now /\ \A r \in next .. N : arrival[r] >= now'
           /\ decisions = <<>> => now' = now
           /\ now' = now => stats' = stats
           /\ now' # now => now' - now \in Nat \ {0}
           /\ stats' = AddInterval(stats, now' - now, depth, level)
           /\ level \in 0 .. 3 /\ stats \in Statistics /\ depth \in 0 .. N
<1>1. TraceTypes /\ EventsAhead /\ stage = "top" /\ Unfinished
  BY DEF HistoryInv, TraceInv, Advance
<1>2. /\ now' \in Nat /\ now' >= now /\ \A r \in next .. N : arrival[r] >= now'
  BY <1>1, NextEventAhead DEF Advance
<1>3. stats' = AddInterval(stats, now' - now, depth, level)
  BY DEF Advance
<1>4. ASSUME decisions = <<>> PROVE now' = now
  <2>1. next = 1 /\ now = arrival[1] /\ 1 \in next .. N
    BY <1>1, <1>4, TraceAssumption DEF HistoryInv, BeginAndEnd
  <2>2. arrival[1] >= now'
    BY <1>2, <2>1
  <2> QED
    BY <1>1, <1>2, <2>1, <2>2 DEF TraceTypes
<1>5. ASSUME now' = now PROVE stats' = stats
  <2>1. now' - now = 0
    BY <1>1, <1>5 DEF TraceTypes
  <2> QED
    BY <1>3, <2>1 DEF AddInterval
<1>6. now' # now => now' - now \in Nat \ {0}
  <2>1. now \in Nat /\ now' \in Nat /\ now' >= now
    BY <1>1, <1>2 DEF TraceTypes
  <2>2. \A x, y \in Nat : y >= x /\ y # x => y - x \in Nat /\ y - x # 0
    OBVIOUS
  <2> QED
    BY <2>1, <2>2
<1>7. level \in 0 .. 3 /\ stats \in Statistics /\ depth \in 0 .. N
  <2>1. stats \in Statistics /\ depth \in 0 .. N
    BY Zenon DEF HistoryInv, InOrder
  <2>2. level \in 0 .. 3
    BY <1>1, Zenon DEF TraceTypes
  <2> QED
    BY <2>1, <2>2
<1> QED
  BY <1>2, <1>3, <1>4, <1>5, <1>6, <1>7

LEMMA AdvanceInHistory ==
    ASSUME HistoryInv, Advance
    PROVE  HistoryInv'
<1>1. TraceInv' /\ TraceTypes /\ now \in Nat /\ stage = "top" /\ stage' = "freed"
  BY AdvanceKeeps DEF HistoryInv, TraceInv, TraceTypes, Advance
<1>2. /\ now' \in Nat /\ now' >= now
      /\ decisions = <<>> => now' = now
      /\ now' = now => stats' = stats
      /\ now' # now => now' - now \in Nat \ {0}
      /\ stats' = AddInterval(stats, now' - now, depth, level)
      /\ level \in 0 .. 3 /\ stats \in Statistics /\ depth \in 0 .. N
  BY AdvanceTime
<1>3. UNCHANGED <<arrival, next, waiting, dispatched, ends, depth, decisions, level>>
  BY DEF Advance, control
<1>4. stats' \in Statistics
  <2>1. CASE now' = now
    BY <1>2, <2>1
  <2>2. CASE now' # now
    BY <1>2, <2>2, AddIntervalFields
  <2> QED
    BY <2>1, <2>2
<1>5. /\ \A r \in 1 .. Len(decisions) : dispatched[r] <= now'
      /\ \A r \in 1 .. next - 1 : arrival[r] <= now'
  <2>1. /\ dispatched \in Seq(Nat) /\ Len(dispatched) = Len(decisions)
        /\ next <= N + 1 /\ \A r \in 1 .. Len(decisions) : dispatched[r] <= now
        /\ \A r \in 1 .. next - 1 : arrival[r] <= now
    BY DEF HistoryInv, InOrder
  <2>2. next \in Nat /\ N \in Nat /\ arrival \in [1 .. N -> Nat]
    BY <1>1, TraceAssumption DEF TraceTypes
  <2>3. ASSUME NEW r \in 1 .. Len(decisions) PROVE dispatched[r] <= now'
    <3>1. dispatched[r] \in Nat
      BY <2>1
    <3> QED
      BY <1>1, <1>2, <2>1, <3>1
  <2>4. ASSUME NEW r \in 1 .. next - 1 PROVE arrival[r] <= now'
    <3>1. arrival[r] \in Nat
      BY <2>1, <2>2
    <3> QED
      BY <1>1, <1>2, <2>1, <3>1
  <2> QED
    BY <2>3, <2>4
<1>6. InOrder'
  BY <1>2, <1>3, <1>4, <1>5 DEF HistoryInv, InOrder
<1>7. Unfinished /\ Unfinished'
  BY <1>3 DEF Advance, Unfinished
<1>8. UpToDate' /\ BeginAndEnd'
  BY <1>1, <1>2, <1>3, <1>7 DEF HistoryInv, UpToDate, BeginAndEnd
<1> QED
  BY <1>1, <1>6, <1>8 DEF HistoryInv

LEMMA DispatchInHistory ==
    ASSUME HistoryInv, Dispatch
    PROVE  HistoryInv'
<1> DEFINE m == Len(decisions)
<1>1. TraceInv' /\ TraceTypes /\ now \in Nat /\ arrival \in [1 .. N -> Nat] /\ next \in Nat
  BY DispatchKeeps, TraceAssumption DEF HistoryInv, TraceInv, TraceTypes
<1>2. /\ Len(decisions') = m + 1 /\ m \in Nat
      /\ \A i \in 1 .. m : decisions'[i] = decisions[i]
      /\ decisions'[m + 1]
            = [time |-> now, q |-> qInst', bar |-> qBar', old |-> level, new |-> level']
  BY <1>1, LogGrows
<1>3. decisions'[m + 1].time = now /\ decisions'[m + 1].new = level'
  BY <1>2
<1>4. /\ dispatched' = Append(dispatched, now) /\ dispatched \in Seq(Nat)
      /\ Len(dispatched) = m /\ Len(ends) = m
  BY DEF HistoryInv, InOrder, Dispatch
<1>5. /\ dispatched' \in Seq(Nat) /\ Len(dispatched') = m + 1 /\ dispatched'[m + 1] = now
      /\ \A i \in 1 .. m : dispatched'[i] = dispatched[i]
  BY <1>1, <1>4
<1>6. Len(ends') = m + 1
  <2>1. PICK s \in Services : ends' = Append(ends, now + s)
    BY DEF Dispatch
  <2>2. ends \in Seq(Nat) /\ now + s \in Nat
    BY <1>1, TraceAssumption DEF TraceTypes
  <2> QED
    BY <1>4, <2>1, <2>2
<1>7. /\ waiting \in Seq(Nat) /\ waiting # <<>> /\ waiting' = Tail(waiting)
      /\ Len(waiting') = Len(waiting) - 1 /\ Len(waiting) >= 1
  BY <1>1 DEF Dispatch, TraceTypes
<1>8. /\ UNCHANGED <<now, arrival, next, stage, depth, stats>>
      /\ stage \in {"freed", "arrived"}
  BY DEF Dispatch
<1>9. /\ next <= N + 1 /\ Len(waiting) = next - 1 - m
      /\ \A r \in 1 .. m : /\ decisions[r].time = dispatched[r]
                           /\ arrival[r] <= dispatched[r] /\ dispatched[r] <= now
      /\ \A i, j \in 1 .. m : i <= j => dispatched[i] <= dispatched[j]
      /\ \A r \in 1 .. next - 1 : arrival[r] <= now
      /\ stats \in Statistics /\ depth \in 0 .. N
  BY DEF HistoryInv, InOrder
<1> HIDE DEF m
<1>10. ASSUME NEW r \in 1 .. m + 1
       PROVE  decisions'[r].time = dispatched'[r] /\ arrival[r] <= dispatched'[r]
              /\ dispatched'[r] <= now
  <2>1. CASE r \in 1 .. m
    BY <1>2, <1>5, <1>9, <2>1
  <2>2. CASE r = m + 1
    <3>1. r \in 1 .. next - 1
      BY <1>1, <1>2, <1>7, <1>9, <2>2
    <3> QED
      BY <1>1, <1>3, <1>5, <1>9, <2>2, <3>1
  <2> QED
    BY <1>2, <2>1, <2>2
<1>11. ASSUME NEW i \in 1 .. m + 1, NEW j \in 1 .. m + 1, i <= j
       PROVE  dispatched'[i] <= dispatched'[j]
  <2>1. CASE j \in 1 .. m
    BY <1>2, <1>5, <1>9, <1>11, <2>1
  <2>2. CASE j = m + 1
    BY <1>5, <1>10, <2>2
  <2> QED
    BY <1>2, <2>1, <2>2
<1>12. InOrder'
  <2>1. Len(waiting') = next - 1 - (m + 1)
    BY <1>1, <1>2, <1>7, <1>9
  <2> QED
    BY <1>2, <1>5, <1>6, <1>8, <1>9, <1>10, <1>11, <2>1 DEF InOrder
<1>13. UpToDate'
  BY <1>8 DEF HistoryInv, UpToDate
<1>14. BeginAndEnd'
  <2>1. decisions' # <<>>
    BY <1>2
  <2>2. stage' # "done"
    BY <1>8
  <2> QED
    BY <1>2, <1>3, <1>8, <2>1, <2>2 DEF BeginAndEnd
<1> QED
  BY <1>1, <1>12, <1>13, <1>14 DEF HistoryInv

LEMMA SettleInHistory ==
    ASSUME HistoryInv, Settle
    PROVE  HistoryInv'
<1> DEFINE n == Cardinality(Come)
           new == [i \in 1 .. n |-> next + i - 1]
           m == Len(decisions)
<1>1. /\ TraceInv' /\ TraceTypes
      /\ UNCHANGED <<now, arrival, dispatched, ends, decisions, level>>
  BY SettleKeeps DEF HistoryInv, TraceInv, Settle, control
<1>2. /\ N \in Nat /\ next \in Nat \ {0} /\ m \in Nat /\ waiting \in Seq(Nat)
      /\ now \in Nat /\ arrival \in [1 .. N -> Nat]
  BY <1>1, Numbers
<1>3. /\ stats \in Statistics /\ dispatched \in Seq(Nat)
      /\ Len(dispatched) = m /\ Len(ends) = m
      /\ next <= N + 1 /\ Len(waiting) = next - 1 - m
      /\ \A r \in 1 .. m : /\ decisions[r].time = dispatched[r]
                           /\ arrival[r] <= dispatched[r] /\ dispatched[r] <= now
      /\ \A i, j \in 1 .. m : i <= j => dispatched[i] <= dispatched[j]
      /\ \A r \in 1 .. next - 1 : arrival[r] <= now
  BY DEF HistoryInv, InOrder
<1>4. Len(waiting) \in 0 .. N /\ depth' = Len(waiting)
  <2>1. Len(waiting) \in Nat /\ Len(waiting) = next - 1 - m
    BY <1>2, <1>3
  <2>2. Len(waiting) \in 0 .. N
    BY <1>2, <1>3, <2>1
  <2> QED
    BY <2>2 DEF Settle
<1>5. stats' \in Statistics
  <2>1. stats' = [stats EXCEPT !.peak = IF depth' > @ THEN depth' ELSE @]
    BY DEF Settle
  <2>2. depth' \in Nat /\ stats.peak \in Nat
    BY <1>2, <1>3, <1>4 DEF Statistics
  <2> QED
    BY <1>3, <2>1, <2>2 DEF Statistics
<1>6. CASE stage = "freed"
  <2>1. /\ n \in Nat /\ next + n <= N + 1
        /\ \A r \in next .. next + n - 1 : arrival[r] <= now
        /\ \A r \in next + n .. N : arrival[r] > now
    BY <1>1, <1>3, Newcomers
  <2>2. waiting' = waiting \o new /\ next' = next + n /\ stage' = "arrived"
    BY <1>6 DEF Settle
  <2> HIDE DEF n, m
  <2>3. new \in Seq(Nat) /\ Len(new) = n
    BY <1>2, <2>1
  <2> HIDE DEF new
  <2>4. waiting' \in Seq(Nat) /\ Len(waiting') = Len(waiting) + n
    <3>1. waiting \in Seq(Nat) /\ waiting' = waiting \o new
      BY <1>2, <2>2
    <3>2. waiting \o new \in Seq(Nat) /\ Len(waiting \o new) = Len(waiting) + Len(new)
      BY <2>3, <3>1, Concatenated
    <3> QED
      BY <2>3, <3>1, <3>2
  <2>5. ASSUME NEW r \in 1 .. next' - 1 PROVE arrival[r] <= now
    <3>1. r \in Int /\ 1 <= r /\ r <= next + n - 1
      BY <1>2, <2>1, <2>2
    <3>2. r \in 1 .. next - 1 \/ r \in next .. next + n - 1
      BY <1>2, <2>1, <3>1
    <3> QED
      BY <1>3, <2>1, <3>2
  <2>6. Len(waiting') = next' - 1 - m /\ next' <= N + 1
    BY <1>2, <1>3, <2>1, <2>2, <2>4
  <2>7. InOrder'
    BY <1>1, <1>3, <1>4, <1>5, <2>5, <2>6 DEF InOrder, m
  <2>8. UpToDate'
    BY <1>1, <2>1, <2>2 DEF UpToDate
  <2>9. ASSUME decisions = <<>> PROVE next' > 1
    <3>1. next = 1 /\ now = arrival[1] /\ 1 \in 1 .. N
      BY <1>6, <2>9, TraceAssumption DEF HistoryInv, BeginAndEnd
    <3>2. n # 0
      <4>1. ASSUME n = 0 PROVE FALSE
        <5>1. 1 \in next + n .. N /\ arrival[1] \in Nat
          BY <1>2, <3>1, <4>1
        <5>2. arrival[1] > now
          BY <2>1, <5>1
        <5> QED
          BY <3>1, <5>1, <5>2
      <4> QED
        BY <4>1
    <3> QED
      BY <2>1, <2>2, <3>1, <3>2
  <2>10. Unfinished' \/ (decisions # <<>> /\ decisions[Len(decisions)].time = now)
    <3>1. CASE Unfinished
      <4>1. waiting' # <<>> \/ (n = 0 /\ next <= N)
        <5>1. waiting # <<>> => Len(waiting) > 0
          BY <1>2
        <5>2. n # 0 => Len(waiting') > 0
          BY <1>2, <2>1, <2>4
        <5>3. waiting # <<>> => Len(waiting') > 0
          BY <1>2, <2>1, <2>4, <5>1
        <5> QED
          BY <3>1, <5>2, <5>3 DEF Unfinished
      <4> QED
        BY <1>2, <2>2, <4>1 DEF Unfinished
    <3>2. CASE ~Unfinished
      BY <3>2 DEF HistoryInv, BeginAndEnd
    <3> QED
      BY <3>1, <3>2
  <2>11. BeginAndEnd'
    BY <1>1, <1>6, <2>2, <2>9, <2>10 DEF HistoryInv, BeginAndEnd
  <2> QED
    BY <1>1, <2>7, <2>8, <2>11 DEF HistoryInv
<1>7. CASE stage = "arrived"
  <2>1. stage' = "top" /\ UNCHANGED <<waiting, next>>
    BY <1>7 DEF Settle
  <2>2. InOrder'
    BY <1>1, <1>3, <1>4, <1>5, <2>1 DEF InOrder
  <2>3. UpToDate'
    BY <1>1, <1>4, <1>7, <2>1 DEF HistoryInv, UpToDate
  <2>4. decisions # <<>>
    <3>1. ASSUME decisions = <<>> PROVE FALSE
      <4>1. next > 1 /\ Len(decisions) = 0
        BY <1>7, <3>1 DEF HistoryInv, BeginAndEnd
      <4>2. Len(ends) = 0 /\ Len(waiting) >= 1
        BY <1>2, <1>3, <4>1
      <4>3. waiting # <<>> /\ ends = <<>>
        BY <1>1, <1>2, <4>2 DEF TraceTypes
      <4>4. InFlight = {}
        BY <4>3 DEF InFlight
      <4>5. Cardinality(InFlight) = 0
        BY <4>4, FS_EmptySet
      <4> QED
        BY <4>3, <4>5, TraceAssumption DEF Settle
    <3> QED
      BY <3>1
  <2>5. BeginAndEnd'
    BY <1>1, <1>7, <2>1, <2>4 DEF HistoryInv, BeginAndEnd, Unfinished
  <2> QED
    BY <1>1, <2>2, <2>3, <2>5 DEF HistoryInv
<1> QED
  BY <1>6, <1>7 DEF Settle

LEMMA FinishFields ==
    ASSUME stats \in Statistics, Finish
    PROVE  /\ stats' \in Statistics
           /\ stats'.depthTime = stats.depthTime /\ stats'.levelTime = stats.levelTime
           /\ stats'.peak = stats.peak
           /\ stats'.episodes = [k \in Thresholds |->
                                   IF stats.current[k] > 0
                                   THEN Append(stats.episodes[k], stats.current[k])
                                   ELSE stats.episodes[k]]
<1> DEFINE episodes == [k \in Thresholds |->
                          IF k \in Thresholds /\ stats.current[k] > 0
                          THEN Append(stats.episodes[k], stats.current[k])
                          ELSE stats.episodes[k]]
           current == [k \in Thresholds |-> IF k \in Thresholds THEN 0 ELSE stats.current[k]]
<1>1. stats' = FinishEpisodes(stats, Thresholds)
  BY DEF Finish
<1>2. stats = [depthTime |-> stats.depthTime, levelTime |-> stats.levelTime,
               peak |-> stats.peak, current |-> stats.current, episodes |-> stats.episodes]
  BY DEF Statistics
<1>3. stats' = [depthTime |-> stats.depthTime, levelTime |-> stats.levelTime,
                peak |-> stats.peak, current |-> current, episodes |-> episodes]
  BY <1>1, <1>2 DEF FinishEpisodes
<1>4. /\ \A k \in Thresholds : stats.episodes[k] \in Seq(Nat) /\ stats.current[k] \in Nat
      /\ stats.depthTime \in [0 .. N -> Nat] /\ stats.levelTime \in [0 .. 3 -> Nat]
      /\ stats.peak \in Nat
  BY DEF Statistics
<1>5. episodes \in [Thresholds -> Seq(Nat)] /\ current \in [Thresholds -> Nat]
  BY <1>4
<1>6. episodes = [k \in Thresholds |-> IF stats.current[k] > 0
                                       THEN Append(stats.episodes[k], stats.current[k])
                                       ELSE stats.episodes[k]]
  OBVIOUS
<1> HIDE DEF episodes, current
<1>7. stats' \in Statistics
  BY <1>3, <1>4, <1>5 DEF Statistics
<1> QED
  BY <1>3, <1>6, <1>7

LEMMA RestInHistory ==
    ASSUME HistoryInv, Finish \/ UNCHANGED vars
    PROVE  HistoryInv'
<1>1. TraceInv'
  BY RestKeeps DEF HistoryInv
<1>2. CASE UNCHANGED vars
  <2>1. UNCHANGED <<now, arrival, next, waiting, dispatched, ends, stage, depth, stats,
                    decisions, level>>
    BY <1>2 DEF vars, control
  <2> QED
    BY <1>1, <2>1 DEF HistoryInv, InOrder, UpToDate, BeginAndEnd, Unfinished
<1>3. CASE Finish
  <2>1. /\ UNCHANGED <<now, arrival, next, waiting, dispatched, ends, depth, decisions, level>>
        /\ stage = "top" /\ stage' = "done" /\ ~Unfinished
    BY <1>3 DEF Finish, control
  <2>2. stats' \in Statistics
    BY <1>3, FinishFields DEF HistoryInv, InOrder
  <2>3. InOrder'
    BY <2>1, <2>2 DEF HistoryInv, InOrder
  <2>4. UpToDate'
    BY <2>1 DEF HistoryInv, UpToDate
  <2>5. decisions # <<>>
    <3>1. waiting = <<>> /\ next > N
      BY <2>1, TraceAssumption DEF Unfinished, HistoryInv, TraceInv, TraceTypes
    <3> QED
      BY <2>1, <3>1 DEF HistoryInv, BeginAndEnd
  <2>6. BeginAndEnd'
    BY <2>1, <2>5 DEF HistoryInv, BeginAndEnd, Unfinished
  <2> QED
    BY <1>1, <2>3, <2>4, <2>6 DEF HistoryInv
<1> QED
  BY <1>2, <1>3

LEMMA HistoryKept ==
    ASSUME HistoryInv, [TraceNext]_vars
    PROVE  HistoryInv'
BY AdvanceInHistory, DispatchInHistory, SettleInHistory, RestInHistory DEF TraceNext

\* The requests are dispatched in the order of their arrival and the clock
\* stands at an arrival when the first, at a dispatch when all are: what the
\* programs that read the times afterwards take for granted.
THEOREM HistoryInvariant == TraceSpec => []HistoryInv
<1>1. Init => HistoryInv
  BY HistoryStarts
<1>2. HistoryInv /\ [TraceNext]_vars => HistoryInv'
  BY HistoryKept
<1> QED
  BY <1>1, <1>2, PTL DEF TraceSpec

-----------------------------------------------------------------------------
(* How long the controller was on each level.                              *)

Until(i) == IF i = Len(decisions) THEN now ELSE decisions[i + 1].time

\* How long the level chosen at each decision has been held.
Stays == [i \in 1 .. Len(decisions) |-> Until(i) - decisions[i].time]

\* The decisions that chose level k.
Chose(k) == {i \in 1 .. Len(decisions) : decisions[i].new = k}

ResidenceInv ==
    HistoryInv /\ \A k \in 0 .. 3 : stats.levelTime[k] = Sum(Stays, Chose(k))

LEMMA StaysSummable ==
    ASSUME TraceTypes
    PROVE  /\ Len(decisions) \in Nat
           /\ \A i \in 1 .. Len(decisions) : decisions[i].time \in Nat /\ Stays[i] \in Int
           /\ \A k \in 0 .. 3 : Summable(Stays, Chose(k))
<1>1. Len(decisions) \in Nat /\ now \in Nat
  BY DEF TraceTypes
<1>2. \A i \in 1 .. Len(decisions) : decisions[i].time \in Nat
  BY LogEntries
<1>3. ASSUME NEW i \in 1 .. Len(decisions) PROVE Until(i) \in Nat
  <2>1. CASE i = Len(decisions)
    BY <1>1, <2>1 DEF Until
  <2>2. CASE i # Len(decisions)
    <3>1. i + 1 \in 1 .. Len(decisions)
      BY <1>1, <2>2
    <3> QED
      BY <1>2, <2>2, <3>1 DEF Until
  <2> QED
    BY <2>1, <2>2
<1>4. \A i \in 1 .. Len(decisions) : Stays[i] \in Int
  BY <1>2, <1>3 DEF Stays
<1>5. ASSUME NEW k \in 0 .. 3 PROVE Summable(Stays, Chose(k))
  <2>1. Chose(k) \subseteq 1 .. Len(decisions)
    BY DEF Chose
  <2>2. IsFiniteSet(1 .. Len(decisions))
    BY <1>1, Interval
  <2>3. IsFiniteSet(Chose(k))
    BY <2>1, <2>2, FS_Subset
  <2> QED
    BY <1>4, <2>1, <2>3 DEF Summable
<1> QED
  BY <1>1, <1>2, <1>4, <1>5

LEMMA AdvanceInStays ==
    ASSUME ResidenceInv, Advance
    PROVE  ResidenceInv'
<1> DEFINE m == Len(decisions)
           span == now' - now
<1>1. HistoryInv /\ HistoryInv' /\ TraceTypes /\ now \in Nat
  BY AdvanceInHistory DEF ResidenceInv, HistoryInv, TraceInv, TraceTypes
<1>2. /\ now' \in Nat /\ now' >= now
      /\ decisions = <<>> => now' = now
      /\ now' = now => stats' = stats
      /\ now' # now => now' - now \in Nat \ {0}
      /\ stats' = AddInterval(stats, now' - now, depth, level)
      /\ level \in 0 .. 3 /\ stats \in Statistics /\ depth \in 0 .. N
  BY <1>1, AdvanceTime
<1>3. UNCHANGED decisions
  BY DEF Advance
<1>4. /\ m \in Nat /\ \A i \in 1 .. m : decisions[i].time \in Nat /\ Stays[i] \in Int
      /\ \A k \in 0 .. 3 : Summable(Stays, Chose(k))
  BY <1>1, StaysSummable
<1>5. \A k \in 0 .. 3 : stats.levelTime[k] = Sum(Stays, Chose(k)) /\ Chose(k)' = Chose(k)
  BY <1>3 DEF ResidenceInv, Chose
<1>6. CASE now' = now
  <2>1. Stays' = Stays
    BY <1>3, <1>6 DEF Stays, Until
  <2>2. stats' = stats
    BY <1>2, <1>6
  <2> QED
    BY <1>1, <1>5, <2>1, <2>2 DEF ResidenceInv
<1>7. CASE now' # now
  <2>1. stats'.levelTime = [stats.levelTime EXCEPT ![level] = stats.levelTime[level] + span]
    <3>1. /\ span \in Nat \ {0} /\ stats' = AddInterval(stats, span, depth, level)
          /\ stats \in Statistics /\ depth \in 0 .. N /\ level \in 0 .. 3
      BY <1>2, <1>7
    <3> HIDE DEF span
    <3>2. IntervalAdded(stats', stats, span, depth, level)
      BY <3>1, AddIntervalFields
    <3> QED
      BY <3>2 DEF IntervalAdded
  <2>2. stats.levelTime \in [0 .. 3 -> Nat] /\ span \in Int
    <3>1. stats.levelTime \in [0 .. 3 -> Nat]
      BY <1>2 DEF Statistics
    <3>2. span \in Int
      BY <1>1, <1>2
    <3> QED
      BY <3>1, <3>2
  <2>3. decisions # <<>> /\ decisions[m].new = level
    BY <1>1, <1>2, <1>7 DEF HistoryInv, BeginAndEnd
  <2>4. m \in 1 .. m
    BY <1>1, <1>4, <2>3 DEF TraceTypes
  <2>5. Stays'[m] = Stays[m] + span /\ \A i \in 1 .. m : i # m => Stays'[i] = Stays[i]
    <3>1. Stays'[m] = now' - decisions[m].time /\ Stays[m] = now - decisions[m].time
      BY <1>3, <2>4 DEF Stays, Until
    <3>2. Stays'[m] = Stays[m] + span
      BY <1>1, <1>2, <1>4, <2>4, <3>1
    <3>3. \A i \in 1 .. m : i # m => Stays'[i] = Stays[i]
      BY <1>3 DEF Stays, Until
    <3> QED
      BY <3>2, <3>3
  <2> HIDE DEF span, m
  <2>6. ASSUME NEW k \in 0 .. 3, k = level
        PROVE  stats'.levelTime[k] = Sum(Stays', Chose(k))
    <3>1. GainsAt(Stays', Stays, Chose(k), m, span)
      <4>1. m \in Chose(k)
        BY <2>3, <2>4, <2>6 DEF Chose, m
      <4>2. \A i \in Chose(k) : i \in 1 .. m
        BY DEF Chose, m
      <4>3. ASSUME NEW i \in Chose(k)
            PROVE  Stays'[i] = IF i = m THEN Stays[i] + span ELSE Stays[i]
        <5>1. CASE i = m
          BY <2>5, <5>1
        <5>2. CASE i # m
          BY <2>5, <4>2, <5>2
        <5> QED
          BY <5>1, <5>2
      <4> QED
        BY <4>1, <4>3 DEF GainsAt
    <3>2. Summable(Stays, Chose(k)) /\ span \in Int
      BY <1>4, <2>2
    <3>3. Sum(Stays, Chose(k)) + span = Sum(Stays', Chose(k))
      BY <3>1, <3>2, SumChange, Zenon
    <3> QED
      BY <1>5, <2>1, <2>2, <2>6, <3>3
  <2>7. ASSUME NEW k \in 0 .. 3, k # level
        PROVE  stats'.levelTime[k] = Sum(Stays', Chose(k))
    <3>1. \A i \in Chose(k) : Stays[i] = Stays'[i]
      BY <2>3, <2>5, <2>7 DEF Chose, m
    <3>2. Sum(Stays, Chose(k)) = Sum(Stays', Chose(k))
      BY <1>4, <3>1, SumAgrees
    <3> QED
      BY <1>5, <2>1, <2>2, <2>7, <3>2
  <2>8. \A k \in 0 .. 3 : stats'.levelTime[k] = Sum(Stays', Chose(k)')
    BY <1>5, <2>6, <2>7
  <2> QED
    BY <1>1, <2>8 DEF ResidenceInv
<1> QED
  BY <1>6, <1>7

LEMMA DispatchInStays ==
    ASSUME ResidenceInv, Dispatch
    PROVE  ResidenceInv'
<1> DEFINE m == Len(decisions)
<1>1. HistoryInv /\ HistoryInv' /\ TraceTypes /\ TraceTypes' /\ now \in Nat
  BY DispatchInHistory DEF ResidenceInv, HistoryInv, TraceInv, TraceTypes
<1>2. /\ Len(decisions') = m + 1 /\ m \in Nat
      /\ \A i \in 1 .. m : decisions'[i] = decisions[i]
      /\ decisions'[m + 1].time = now /\ decisions'[m + 1].new = level'
  BY <1>1, LogGrows
<1>3. UNCHANGED <<now, stats>>
  BY DEF Dispatch
<1>4. /\ \A i \in 1 .. m : decisions[i].time \in Nat
      /\ \A k \in 0 .. 3 : Summable(Stays, Chose(k))
      /\ \A k \in 0 .. 3 : stats.levelTime[k] = Sum(Stays, Chose(k))
  BY <1>1, StaysSummable DEF ResidenceInv
<1>5. Stays'[m + 1] = 0 /\ \A i \in 1 .. m : Stays[i] = Stays'[i]
  <2>1. m + 1 \in 1 .. m + 1 /\ \A i \in 1 .. m : i \in 1 .. m + 1 /\ i # m + 1
    BY <1>2
  <2>2. Stays' = [i \in 1 .. m + 1 |-> (IF i = m + 1 THEN now ELSE decisions'[i + 1].time)
                                       - decisions'[i].time]
    BY <1>2, <1>3 DEF Stays, Until
  <2>3. Stays'[m + 1] = now - now
    BY <1>2, <2>1, <2>2
  <2>4. ASSUME NEW i \in 1 .. m PROVE Stays[i] = Stays'[i]
    <3>1. Stays'[i] = decisions'[i + 1].time - decisions[i].time
      BY <1>2, <2>1, <2>2
    <3>2. Stays[i] = (IF i = m THEN now ELSE decisions[i + 1].time) - decisions[i].time
      BY DEF Stays, Until
    <3>3. i # m => i + 1 \in 1 .. m
      BY <1>2
    <3>4. decisions'[i + 1].time = IF i = m THEN now ELSE decisions[i + 1].time
      BY <1>2, <3>3
    <3> QED
      BY <3>1, <3>2, <3>4
  <2>5. \A i \in 1 .. m : Stays[i] = Stays'[i]
    BY <2>4
  <2> QED
    BY <1>1, <2>3, <2>5
<1> HIDE DEF m
<1>6. ASSUME NEW k \in 0 .. 3 PROVE Sum(Stays, Chose(k)) = Sum(Stays', Chose(k)')
  <2>0. Chose(k) \subseteq 1 .. m
    BY DEF Chose, m
  <2>1. /\ Summable(Stays', Chose(k))
        /\ Sum(Stays, Chose(k)) = Sum(Stays', Chose(k))
    <3>1. \A i \in Chose(k) : Stays[i] = Stays'[i]
      BY <1>5, <2>0
    <3> QED
      BY <1>4, <3>1, SumAgrees
  <2>2. ASSUME k # level' PROVE Chose(k)' = Chose(k)
    BY <1>2, <2>2 DEF Chose, m
  <2>3. ASSUME k = level' PROVE Chose(k)' = Chose(k) \cup {m + 1}
    BY <1>2, <2>3 DEF Chose, m
  <2>4. Sum(Stays', Chose(k) \cup {m + 1}) = Sum(Stays', Chose(k))
    <3>1. m + 1 \notin Chose(k)
      BY <1>2, <2>0
    <3>2. Stays'[m + 1] \in Int
      BY <1>5
    <3>3. Sum(Stays', Chose(k) \cup {m + 1}) = Stays'[m + 1] + Sum(Stays', Chose(k))
      BY <2>1, <3>1, <3>2, SumAdd
    <3>4. Sum(Stays', Chose(k)) \in Int
      BY <2>1, SumSteps
    <3> QED
      BY <1>5, <3>3, <3>4
  <2> QED
    BY <2>1, <2>2, <2>3, <2>4
<1> QED
  BY <1>1, <1>3, <1>4, <1>6 DEF ResidenceInv

LEMMA RestInStays ==
    ASSUME ResidenceInv, Settle \/ Finish \/ UNCHANGED vars
    PROVE  ResidenceInv'
<1>1. HistoryInv /\ HistoryInv' /\ stats \in Statistics
  BY SettleInHistory, RestInHistory DEF ResidenceInv, HistoryInv, InOrder
<1>2. UNCHANGED <<now, decisions>>
  BY DEF Settle, Finish, vars
<1>3. stats'.levelTime = stats.levelTime
  <2>1. CASE Settle
    <3>1. stats' = [stats EXCEPT !.peak = IF depth' > @ THEN depth' ELSE @]
      BY <2>1 DEF Settle
    <3> QED
      BY <1>1, <3>1 DEF Statistics
  <2>2. CASE Finish
    BY <1>1, <2>2, FinishFields
  <2>3. CASE UNCHANGED vars
    BY <2>3 DEF vars
  <2> QED
    BY <2>1, <2>2, <2>3
<1>4. Stays' = Stays
  BY <1>2 DEF Stays, Until
<1>5. \A k \in 0 .. 3 : Chose(k)' = Chose(k)
  BY <1>2 DEF Chose
<1> QED
  BY <1>1, <1>3, <1>4, <1>5 DEF ResidenceInv

\* All have been dispatched in the end, the last one now.
LEMMA AtTheEnd ==
    ASSUME HistoryInv, stage = "done"
    PROVE  /\ Len(decisions) = N /\ next = N + 1 /\ waiting = <<>>
           /\ dispatched[N] = now /\ LastDispatch = now
<1>1. /\ TraceTypes /\ ~Unfinished /\ next <= N + 1 /\ N \in Nat \ {0}
      /\ Len(waiting) = next - 1 - Len(decisions)
      /\ dispatched \in Seq(Nat) /\ Len(dispatched) = Len(decisions)
  BY TraceAssumption DEF HistoryInv, TraceInv, BeginAndEnd, InOrder
<1>2. waiting = <<>> /\ next = N + 1 /\ Len(waiting) = 0 /\ Len(decisions) \in Nat
  BY <1>1 DEF Unfinished, TraceTypes
<1>3. Len(decisions) = N /\ N \in 1 .. N
  BY <1>1, <1>2
<1>4. decisions # <<>> /\ decisions[N].time = now /\ decisions[N].time = dispatched[N]
  BY <1>1, <1>3 DEF HistoryInv, BeginAndEnd, InOrder
<1>5. dispatched[N] = now
  BY <1>4
<1>6. \A r \in 1 .. N : dispatched[r] \in Nat /\ dispatched[r] <= now
  BY <1>1, <1>3 DEF HistoryInv, InOrder
<1>7. LastDispatch = now
  <2> DEFINE S == {dispatched[r] : r \in Requests}
  <2>1. now \in S /\ \A t \in S : t \in Nat /\ now >= t /\ now \in Nat
    BY <1>3, <1>5, <1>6 DEF Requests
  <2> HIDE DEF S
  <2>2. PICK t \in S : t = Max(S) /\ \A u \in S : t >= u
    <3>1. \E t \in S : \A u \in S : t >= u
      BY <2>1
    <3> QED
      BY <3>1, Zenon DEF Max
  <2>3. t >= now /\ now >= t
    BY <2>1, <2>2
  <2>4. t = now
    BY <2>1, <2>3
  <2> QED
    BY <2>2, <2>4 DEF LastDispatch, S
<1> QED
  BY <1>2, <1>3, <1>5, <1>7

\* From the log of decisions, the health report computes the time on each level
\* that the probe measured.
THEOREM ResidenceFromLog == TraceSpec => []ResidenceAgrees
<1>1. Init => ResidenceInv
  <2> SUFFICES ASSUME Init PROVE ResidenceInv
    OBVIOUS
  <2>1. HistoryInv /\ TraceTypes /\ decisions = <<>> /\ stats = FreshStats
    BY HistoryStarts DEF Init, HistoryInv, TraceInv
  <2>2. ASSUME NEW k \in 0 .. 3 PROVE Sum(Stays, Chose(k)) = 0
    <3>1. Summable(Stays, Chose(k))
      BY <2>1, StaysSummable
    <3>2. Chose(k) = {}
      BY <2>1 DEF Chose
    <3> QED
      BY <3>1, <3>2, SumSteps
  <2> QED
    BY <2>1, <2>2 DEF ResidenceInv, FreshStats
<1>2. ResidenceInv /\ [TraceNext]_vars => ResidenceInv'
  BY AdvanceInStays, DispatchInStays, RestInStays DEF TraceNext
<1>3. ResidenceInv => ResidenceAgrees
  <2> SUFFICES ASSUME ResidenceInv, stage = "done", NEW k \in 0 .. 3
               PROVE  Residence(k) = stats.levelTime[k]
    BY DEF ResidenceAgrees
  <2>1. LastDispatch = now
    BY AtTheEnd DEF ResidenceInv
  <2> DEFINE until == [i \in 1 .. Len(decisions) |-> IF i = Len(decisions) THEN LastDispatch
                                                     ELSE decisions[i + 1].time]
             stays == [i \in 1 .. Len(decisions) |-> until[i] - decisions[i].time]
  <2>2. stays = Stays
    BY <2>1 DEF Stays, Until
  <2>3. Residence(k) = Sum(stays, Chose(k))
    BY Zenon DEF Residence, Chose
  <2> QED
    BY <2>2, <2>3 DEF ResidenceInv
<1> QED
  BY <1>1, <1>2, <1>3, PTL DEF TraceSpec

-----------------------------------------------------------------------------
(* The integral of the depth.                                              *)

\* How long a request has waited so far.
Waits == [r \in Requests |->
            (IF r <= Len(decisions) THEN dispatched[r] ELSE IF r < next THEN now ELSE arrival[r])
            - arrival[r]]

Weighted == [d \in 0 .. N |-> d * stats.depthTime[d]]

IntegralInv == HistoryInv /\ Sum(Weighted, 0 .. N) = Sum(Waits, Requests)

LEMMA WaitsSummable ==
    ASSUME HistoryInv
    PROVE  Summable(Waits, Requests) /\ Summable(Weighted, 0 .. N)
<1>1. /\ N \in Nat /\ arrival \in [1 .. N -> Nat] /\ now \in Nat /\ stats \in Statistics
      /\ dispatched \in Seq(Nat) /\ Len(dispatched) = Len(decisions)
      /\ Len(decisions) \in Nat
  <2>1. TraceTypes /\ InOrder
    BY DEF HistoryInv, TraceInv
  <2>2. /\ stats \in Statistics /\ dispatched \in Seq(Nat)
        /\ Len(dispatched) = Len(decisions)
    BY <2>1 DEF InOrder
  <2> QED
    BY <2>1, <2>2, Numbers
<1>2. ASSUME NEW r \in Requests PROVE Waits[r] \in Int
  <2>1. r \in 1 .. N /\ arrival[r] \in Nat
    BY <1>1 DEF Requests
  <2>2. r <= Len(decisions) => dispatched[r] \in Nat
    BY <1>1, <2>1
  <2> QED
    BY <1>1, <2>1, <2>2 DEF Waits
<1>3. ASSUME NEW d \in 0 .. N PROVE Weighted[d] \in Int
  <2>1. d \in Nat /\ stats.depthTime[d] \in Nat
    BY <1>1 DEF Statistics
  <2> QED
    BY <2>1 DEF Weighted
<1>4. IsFiniteSet(Requests) /\ IsFiniteSet(0 .. N)
  BY <1>1, Interval DEF Requests
<1> QED
  BY <1>2, <1>3, <1>4 DEF Summable

LEMMA AdvanceInIntegral ==
    ASSUME IntegralInv, Advance
    PROVE  IntegralInv'
<1> DEFINE m == Len(decisions)
           span == now' - now
           W == m + 1 .. next - 1
<1>1. HistoryInv /\ HistoryInv' /\ TraceTypes /\ stage = "top"
  BY AdvanceInHistory DEF IntegralInv, HistoryInv, TraceInv, Advance
<1>2. /\ now' \in Nat /\ now' >= now
      /\ now' = now => stats' = stats
      /\ now' # now => now' - now \in Nat \ {0}
      /\ stats' = AddInterval(stats, now' - now, depth, level)
      /\ level \in 0 .. 3 /\ stats \in Statistics /\ depth \in 0 .. N
  BY <1>1, AdvanceTime
<1>3. UNCHANGED <<arrival, next, waiting, dispatched, decisions>>
  BY DEF Advance
<1>4. Summable(Waits, Requests) /\ Summable(Weighted, 0 .. N)
  BY <1>1, WaitsSummable
<1>5. /\ N \in Nat /\ m \in Nat /\ next \in Nat \ {0} /\ now \in Nat
      /\ arrival \in [1 .. N -> Nat]
      /\ next <= N + 1 /\ Len(waiting) = next - 1 - m /\ Len(waiting) \in Nat
      /\ depth = Len(waiting)
  <2>1. /\ N \in Nat /\ m \in Nat /\ next \in Nat \ {0} /\ now \in Nat
        /\ arrival \in [1 .. N -> Nat] /\ Len(waiting) \in Nat
    BY <1>1, Numbers
  <2>2. next <= N + 1 /\ Len(waiting) = next - 1 - m /\ depth = Len(waiting)
    BY <1>1 DEF HistoryInv, InOrder, UpToDate
  <2> QED
    BY <2>1, <2>2
<1>6. CASE now' = now
  <2>1. stats' = stats
    BY <1>2, <1>6
  <2>2. Waits' = Waits /\ Weighted' = Weighted
    BY <1>3, <1>6, <2>1 DEF Waits, Weighted
  <2> QED
    BY <1>1, <2>2 DEF IntegralInv
<1>7. CASE now' # now
  <2>1. /\ span \in Nat \ {0} /\ stats' = AddInterval(stats, span, depth, level)
        /\ span \in Int /\ now' = now + span
    <3>1. span \in Nat \ {0} /\ stats' = AddInterval(stats, span, depth, level)
      BY <1>2, <1>7
    <3>2. span \in Int /\ now' = now + span
      <4>1. now \in Nat /\ now' \in Nat
        BY <1>2, <1>5
      <4>2. \A x, y \in Nat : y - x \in Int /\ y = x + (y - x)
        OBVIOUS
      <4> QED
        BY <4>1, <4>2
    <3> QED
      BY <3>1, <3>2
  <2> HIDE DEF span, m
  <2>2. IntervalAdded(stats', stats, span, depth, level)
    BY <1>2, <2>1, AddIntervalFields
  <2>3. stats.depthTime \in [0 .. N -> Nat]
    BY <1>2 DEF Statistics
  <2>4. stats'.depthTime = [stats.depthTime EXCEPT ![depth] = stats.depthTime[depth] + span]
    BY <2>2 DEF IntervalAdded
  <2>5. depth * span \in Int /\ depth \in Nat
    BY <1>2, <2>1
  <2>6. GainsAt(Weighted', Weighted, 0 .. N, depth, depth * span)
    <3>1. \A d \in 0 .. N : d # depth => Weighted'[d] = Weighted[d]
      BY <2>3, <2>4 DEF Weighted
    <3>2. Weighted'[depth] = depth * (stats.depthTime[depth] + span)
      BY <1>2, <2>3, <2>4 DEF Weighted
    <3>3. Weighted[depth] = depth * stats.depthTime[depth]
      BY <1>2 DEF Weighted
    <3>4. stats.depthTime[depth] \in Nat
      BY <1>2, <2>3
    <3>5. \A a, b, c \in Nat : a * (b + c) = a * b + a * c
      OBVIOUS
    <3>6. Weighted'[depth] = Weighted[depth] + depth * span
      <4>1. depth \in Nat /\ span \in Nat
        BY <2>1, <2>5
      <4>2. depth * (stats.depthTime[depth] + span)
               = depth * stats.depthTime[depth] + depth * span
        BY <3>4, <3>5, <4>1, Zenon
      <4> QED
        BY <3>2, <3>3, <4>2, Zenon
    <3> QED
      BY <1>2, <3>1, <3>6 DEF GainsAt
  <2>7. Sum(Weighted, 0 .. N) + depth * span = Sum(Weighted', 0 .. N)
    BY <1>4, <2>5, <2>6, SumChange, Zenon
  <2>8. Gains(Waits', Waits, Requests, W, span)
    <3>1. W \in SUBSET Requests
      BY <1>5 DEF Requests
    <3>2. ASSUME NEW r \in Requests
          PROVE  Waits'[r] = IF r \in W THEN Waits[r] + span ELSE Waits[r]
      <4>1. r \in 1 .. N /\ arrival[r] \in Nat
        BY <1>5 DEF Requests
      <4>2. ASSUME r \in W PROVE Waits'[r] = Waits[r] + span
        <5>1. ~(r <= m) /\ r < next
          BY <1>5, <4>1, <4>2
        <5>2. Waits'[r] = now' - arrival[r] /\ Waits[r] = now - arrival[r]
          BY <1>3, <5>1 DEF Waits, m
        <5> QED
          BY <1>5, <2>1, <4>1, <5>2
      <4>3. ASSUME r \notin W PROVE Waits'[r] = Waits[r]
        <5>1. r <= m \/ ~(r < next)
          BY <1>5, <4>1, <4>3
        <5> QED
          BY <1>3, <5>1 DEF Waits, m
      <4> QED
        BY <4>2, <4>3
    <3> QED
      BY <3>1, <3>2 DEF Gains
  <2>9. Cardinality(W) = depth
    <3>1. m + 1 \in Int /\ next - 1 \in Int /\ m + 1 <= next - 1 + 1
      BY <1>5
    <3>2. Cardinality(W) = (next - 1) - (m + 1) + 1
      BY <3>1, Interval
    <3> QED
      BY <1>5, <3>2
  <2> HIDE DEF W
  <2>10. Sum(Waits, Requests) + span * Cardinality(W) = Sum(Waits', Requests)
    <3>1. Summable(Waits, Requests) /\ span \in Int
      BY <1>4, <2>1
    <3> QED
      BY <2>8, <3>1, SumShift
  <2>11. span * depth = depth * span
    BY <2>1, <2>5
  <2>12. Sum(Weighted', 0 .. N) = Sum(Waits', Requests)
    BY <2>7, <2>9, <2>10, <2>11 DEF IntegralInv
  <2> QED
    BY <1>1, <2>12 DEF IntegralInv, Requests
<1> QED
  BY <1>6, <1>7

LEMMA DispatchInIntegral ==
    ASSUME IntegralInv, Dispatch
    PROVE  IntegralInv'
<1> DEFINE m == Len(decisions)
<1>1. HistoryInv /\ HistoryInv' /\ TraceTypes
  BY DispatchInHistory DEF IntegralInv, HistoryInv, TraceInv
<1>2. Len(decisions') = m + 1 /\ m \in Nat
  BY <1>1, LogGrows
<1>3. UNCHANGED <<now, stats, arrival, next>>
  BY DEF Dispatch
<1>4. /\ dispatched \in Seq(Nat) /\ Len(dispatched) = m /\ next \in Nat
      /\ Len(waiting) = next - 1 - m /\ Len(waiting) >= 1
  <2>1. waiting \in Seq(Nat) /\ waiting # <<>> /\ next \in Nat
    BY <1>1 DEF TraceTypes, Dispatch
  <2>2. Len(waiting) >= 1
    BY <2>1
  <2> QED
    BY <1>1, <2>1, <2>2 DEF HistoryInv, InOrder
<1>5. dispatched' = Append(dispatched, now)
  BY DEF Dispatch
<1>6. dispatched'[m + 1] = now /\ \A r \in 1 .. m : dispatched'[r] = dispatched[r]
  BY <1>2, <1>4, <1>5
<1>7. m + 1 < next
  BY <1>2, <1>4
<1>8. Waits' = [r \in Requests |->
                 (IF r <= m + 1 THEN dispatched'[r] ELSE IF r < next THEN now ELSE arrival[r])
                 - arrival[r]]
  BY <1>2, <1>3 DEF Waits
<1>9. ASSUME NEW r \in Requests PROVE Waits'[r] = Waits[r]
  <2>1. r \in Nat /\ r >= 1
    BY TraceAssumption DEF Requests
  <2>2. Waits[r] = (IF r <= m THEN dispatched[r] ELSE IF r < next THEN now ELSE arrival[r])
                   - arrival[r]
    BY DEF Waits
  <2>3. Waits'[r] = (IF r <= m + 1 THEN dispatched'[r]
                     ELSE IF r < next THEN now ELSE arrival[r]) - arrival[r]
    BY <1>8
  <2> HIDE DEF m
  <2>4. CASE r <= m
    <3>1. r \in 1 .. m /\ r <= m + 1
      BY <1>2, <2>1, <2>4
    <3> QED
      BY <1>6, <2>2, <2>3, <2>4, <3>1
  <2>5. CASE r = m + 1
    BY <1>2, <1>6, <1>7, <2>2, <2>3, <2>5
  <2>6. CASE r > m + 1
    <3>1. ~(r <= m) /\ ~(r <= m + 1)
      BY <1>2, <2>1, <2>6
    <3> QED
      BY <2>2, <2>3, <3>1
  <2> QED
    BY <1>2, <2>1, <2>4, <2>5, <2>6
<1>10. Waits' = Waits
  BY <1>8, <1>9 DEF Waits
<1>11. Weighted' = Weighted
  BY <1>3 DEF Weighted
<1> QED
  BY <1>1, <1>10, <1>11 DEF IntegralInv

LEMMA RestInIntegral ==
    ASSUME IntegralInv, Settle \/ Finish \/ UNCHANGED vars
    PROVE  IntegralInv'
<1>1. HistoryInv /\ HistoryInv' /\ TraceTypes /\ stats \in Statistics
  BY SettleInHistory, RestInHistory DEF IntegralInv, HistoryInv, InOrder, TraceInv
<1>2. UNCHANGED <<now, arrival, dispatched, decisions>>
  BY DEF Settle, Finish, vars
<1>3. stats'.depthTime = stats.depthTime
  <2>1. CASE Settle
    <3>1. stats' = [stats EXCEPT !.peak = IF depth' > @ THEN depth' ELSE @]
      BY <2>1 DEF Settle
    <3> QED
      BY <1>1, <3>1 DEF Statistics
  <2>2. CASE Finish
    BY <1>1, <2>2, FinishFields
  <2>3. CASE UNCHANGED vars
    BY <2>3 DEF vars
  <2> QED
    BY <2>1, <2>2, <2>3
<1>4. Waits' = Waits
  <2>1. ASSUME next' = next PROVE Waits' = Waits
    BY <1>2, <2>1 DEF Waits
  <2>2. ASSUME Settle, stage = "freed" PROVE Waits' = Waits
    <3> DEFINE n == Cardinality(Come)
    <3>1. /\ n \in Nat /\ next + n <= N + 1 /\ next' = next + n
          /\ \A r \in next .. next + n - 1 : arrival[r] <= now
      BY <1>1, <2>2, Newcomers DEF HistoryInv, InOrder, Settle
    <3> HIDE DEF n
    <3>2. N \in Nat /\ next \in Nat /\ now \in Nat /\ arrival \in [1 .. N -> Nat]
      BY <1>1, TraceAssumption DEF TraceTypes
    <3>3. \A r \in next .. N : arrival[r] >= now
      BY DEF IntegralInv, HistoryInv, TraceInv, EventsAhead
    <3>4. ASSUME NEW r \in Requests PROVE Waits'[r] = Waits[r]
      <4>1. r \in 1 .. N /\ arrival[r] \in Nat
        BY <3>2 DEF Requests
      <4>2. /\ Waits'[r] = (IF r <= Len(decisions) THEN dispatched[r]
                             ELSE IF r < next' THEN now ELSE arrival[r]) - arrival[r]
            /\ Waits[r] = (IF r <= Len(decisions) THEN dispatched[r]
                            ELSE IF r < next THEN now ELSE arrival[r]) - arrival[r]
        BY <1>2 DEF Waits
      <4>3. ASSUME r >= next, r < next' PROVE arrival[r] = now
        <5>1. r \in next .. next + n - 1 /\ r \in next .. N
          BY <3>1, <3>2, <4>1, <4>3
        <5> QED
          BY <3>1, <3>2, <3>3, <4>1, <5>1
      <4>4. r < next => r < next'
        BY <3>1, <3>2, <4>1
      <4>5. CASE r < next
        BY <4>2, <4>4, <4>5
      <4>6. CASE ~(r < next')
        BY <4>2, <4>4, <4>6
      <4>7. CASE r >= next /\ r < next'
        <5>1. ~(r < next)
          BY <3>2, <4>1, <4>7
        <5> QED
          BY <4>2, <4>3, <4>7, <5>1
      <4> QED
        BY <3>2, <4>1, <4>5, <4>6, <4>7
    <3> QED
      BY <1>2, <3>4 DEF Waits
  <2> QED
    BY <2>1, <2>2 DEF Settle, Finish, vars
<1>5. Weighted' = Weighted
  BY <1>3 DEF Weighted
<1> QED
  BY <1>1, <1>4, <1>5 DEF IntegralInv

LEMMA IntegralStarts == Init => IntegralInv
<1> SUFFICES ASSUME Init PROVE IntegralInv
  OBVIOUS
<1>1. HistoryInv /\ decisions = <<>> /\ next = 1 /\ stats = FreshStats
  BY HistoryStarts DEF Init
<1>2. N \in Nat /\ arrival \in [1 .. N -> Nat]
  BY <1>1, TraceAssumption DEF HistoryInv, TraceInv, TraceTypes
<1>3. /\ IsFiniteSet(Requests) /\ \A r \in Requests : Waits[r] \in Nat
      /\ ~ \E r \in Requests : Waits[r] > 0
  <2>1. ASSUME NEW r \in Requests PROVE Waits[r] = 0
    <3>1. r \in Nat /\ r >= 1 /\ arrival[r] \in Nat
      BY <1>2 DEF Requests
    <3>2. ~(r <= Len(decisions)) /\ ~(r < next)
      BY <1>1, <3>1
    <3> QED
      BY <3>1, <3>2 DEF Waits
  <2>2. IsFiniteSet(Requests)
    BY <1>2, Interval DEF Requests
  <2> QED
    BY <2>1, <2>2
<1>4. /\ IsFiniteSet(0 .. N) /\ \A d \in 0 .. N : Weighted[d] \in Nat
      /\ ~ \E d \in 0 .. N : Weighted[d] > 0
  <2>1. ASSUME NEW d \in 0 .. N PROVE Weighted[d] = 0
    BY <1>1, <1>2 DEF Weighted, FreshStats
  <2>2. IsFiniteSet(0 .. N)
    BY <1>2, Interval
  <2> QED
    BY <2>1, <2>2
<1>5. Sum(Waits, Requests) = 0 /\ Sum(Weighted, 0 .. N) = 0
  <2>1. Sum(Waits, Requests) \in Nat /\ ~(Sum(Waits, Requests) > 0)
    BY <1>3, SumPositive
  <2>2. Sum(Weighted, 0 .. N) \in Nat /\ ~(Sum(Weighted, 0 .. N) > 0)
    BY <1>4, SumPositive
  <2> QED
    BY <2>1, <2>2
<1> QED
  BY <1>1, <1>5 DEF IntegralInv

LEMMA IntegralKept == IntegralInv /\ [TraceNext]_vars => IntegralInv'
BY AdvanceInIntegral, DispatchInIntegral, RestInIntegral DEF TraceNext

\* In the end the integral is the sum of the waits that the metrics report.
LEMMA IntegralAtTheEnd ==
    ASSUME IntegralInv, stage = "done"
    PROVE  Sum([d \in 0 .. N |-> d * stats.depthTime[d]], 0 .. N)
           = Sum([r \in Requests |-> Wait(r)], Requests)
<1>1. Len(decisions) = N /\ N \in Nat
  BY AtTheEnd, TraceAssumption DEF IntegralInv
<1>2. Waits = [r \in Requests |-> Wait(r)]
  BY <1>1 DEF Waits, Wait, Requests
<1> QED
  BY <1>2 DEF IntegralInv, Weighted

-----------------------------------------------------------------------------
(* The history in units of time. Both the probe, which integrates from     *)
(* event to event, and the programs that replay the times afterwards are   *)
(* compared with what one finds by going through every unit of time.       *)

\* What has been measured of a history of depths.
Measured == [time : [0 .. N -> Nat], current : [Thresholds -> Nat],
             episodes : [Thresholds -> Seq(Nat)]]

NothingYet == [time |-> [d \in 0 .. N |-> 0], current |-> [k \in Thresholds |-> 0],
               episodes |-> [k \in Thresholds |-> <<>>]]

\* For a span of time the depth is d.
Run(s, span, d) ==
    [time |-> [s.time EXCEPT ![d] = s.time[d] + span],
     current |-> [k \in Thresholds |-> IF d >= k THEN s.current[k] + span ELSE 0],
     episodes |-> [k \in Thresholds |-> IF d < k /\ s.current[k] > 0
                                        THEN Append(s.episodes[k], s.current[k])
                                        ELSE s.episodes[k]]]

\* In each unit of time n the depth is D[n].
Runs(f, D) == /\ f \in [Nat -> Measured] /\ f[0] = NothingYet
              /\ \A n \in Nat : f[n + 1] = Run(f[n], 1, D[n])

Ticks(D) == CHOOSE f : Runs(f, D)

LEMMA MeasuredFields ==
    ASSUME NEW s \in Measured
    PROVE  /\ s.time \in [0 .. N -> Nat] /\ s.current \in [Thresholds -> Nat]
           /\ s.episodes \in [Thresholds -> Seq(Nat)]
           /\ s = [time |-> s.time, current |-> s.current, episodes |-> s.episodes]
BY DEF Measured

LEMMA RunMeasured ==
    ASSUME NEW s \in Measured, NEW span \in Nat, NEW d \in 0 .. N
    PROVE  Run(s, span, d) \in Measured
<1> DEFINE time == [s.time EXCEPT ![d] = s.time[d] + span]
           current == [k \in Thresholds |-> IF d >= k THEN s.current[k] + span ELSE 0]
           episodes == [k \in Thresholds |-> IF d < k /\ s.current[k] > 0
                                             THEN Append(s.episodes[k], s.current[k])
                                             ELSE s.episodes[k]]
<1>1. /\ s.time \in [0 .. N -> Nat] /\ \A k \in Thresholds : s.current[k] \in Nat
      /\ \A k \in Thresholds : s.episodes[k] \in Seq(Nat)
  BY DEF Measured
<1>2. time \in [0 .. N -> Nat]
  <2>1. s.time[d] \in Nat
    BY <1>1
  <2>2. s.time[d] + span \in Nat
    BY <2>1
  <2> QED
    BY <1>1, <2>2
<1>3. current \in [Thresholds -> Nat]
  <2>1. \A k \in Thresholds : s.current[k] + span \in Nat
    BY <1>1
  <2> QED
    BY <2>1
<1>4. episodes \in [Thresholds -> Seq(Nat)]
  BY <1>1
<1> HIDE DEF time, current, episodes
<1>5. [time |-> time, current |-> current, episodes |-> episodes] \in Measured
  BY <1>2, <1>3, <1>4 DEF Measured
<1> QED
  BY <1>5 DEF Run, time, current, episodes

LEMMA TicksRuns ==
    ASSUME NEW D \in [Nat -> 0 .. N]
    PROVE  Runs(Ticks(D), D)
<1> DEFINE h == [n \in Nat |-> [s \in Measured |-> Run(s, 1, D[n])]]
<1>1. h \in [Nat -> [Measured -> Measured]]
  <2>1. ASSUME NEW n \in Nat, NEW s \in Measured PROVE Run(s, 1, D[n]) \in Measured
    <3>1. D[n] \in 0 .. N
      OBVIOUS
    <3> QED
      BY <3>1, RunMeasured
  <2> QED
    BY <2>1
<1>2. NothingYet \in Measured
  <2>1. <<>> \in Seq(Nat)
    OBVIOUS
  <2>2. /\ [d \in 0 .. N |-> 0] \in [0 .. N -> Nat]
        /\ [k \in Thresholds |-> 0] \in [Thresholds -> Nat]
        /\ [k \in Thresholds |-> <<>>] \in [Thresholds -> Seq(Nat)]
    BY <2>1
  <2> QED
    BY <2>2 DEF NothingYet, Measured
<1>3. \A n \in Nat : \A s \in Measured : h[n][s] = Run(s, 1, D[n])
  OBVIOUS
<1> HIDE DEF h
<1>4. PICK f : Iterates(f, Measured, NothingYet, h)
  <2>1. StepsOf(h, Measured)
    BY <1>1 DEF StepsOf
  <2> QED
    BY <1>2, <2>1, Recursion
<1>5. \A n \in Nat : f[n + 1] = Run(f[n], 1, D[n])
  BY <1>3, <1>4 DEF Iterates
<1>6. Runs(f, D)
  BY <1>4, <1>5 DEF Runs, Iterates
<1> QED
  BY <1>6 DEF Ticks

\* What has been measured depends on the past only.
LEMMA TicksAgree ==
    ASSUME NEW D \in [Nat -> 0 .. N], NEW E \in [Nat -> 0 .. N], NEW n \in Nat,
           \A i \in Nat : i < n => D[i] = E[i]
    PROVE  Ticks(D)[n] = Ticks(E)[n]
<1> DEFINE S == {m \in Nat : m <= n => Ticks(D)[m] = Ticks(E)[m]}
<1>1. /\ Ticks(D)[0] = NothingYet /\ Ticks(E)[0] = NothingYet
      /\ \A m \in Nat : Ticks(D)[m + 1] = Run(Ticks(D)[m], 1, D[m])
      /\ \A m \in Nat : Ticks(E)[m + 1] = Run(Ticks(E)[m], 1, E[m])
  BY TicksRuns DEF Runs
<1>2. 0 \in S
  BY <1>1
<1>3. ASSUME NEW m \in Nat, m \in S PROVE m + 1 \in S
  <2>1. m + 1 \in Nat
    OBVIOUS
  <2>2. ASSUME m + 1 <= n PROVE Ticks(D)[m + 1] = Ticks(E)[m + 1]
    <3>1. m <= n /\ m < n
      BY <2>2
    <3>2. D[m] = E[m] /\ Ticks(D)[m] = Ticks(E)[m]
      BY <1>3, <3>1
    <3> QED
      BY <1>1, <3>2
  <2> QED
    BY <2>1, <2>2
<1>4. Nat \subseteq S
  <2> HIDE DEF S
  <2> QED
    BY <1>2, <1>3, NaturalsInductive
<1> QED
  BY <1>4

LEMMA RunOneMore ==
    ASSUME NEW s \in Measured, NEW a \in Nat \ {0}, NEW d \in 0 .. N
    PROVE  Run(Run(s, a, d), 1, d) = Run(s, a + 1, d)
<1> DEFINE u == Run(s, a, d)
<1>1. /\ s.time \in [0 .. N -> Nat] /\ s.current \in [Thresholds -> Nat]
      /\ s.episodes \in [Thresholds -> Seq(Nat)] /\ d \in Nat /\ Thresholds \subseteq Nat
  <2>1. d \in Nat /\ Thresholds \subseteq Nat
    BY TraceAssumption DEF Thresholds
  <2> QED
    BY <2>1, MeasuredFields
<1>2. [u.time EXCEPT ![d] = u.time[d] + 1] = [s.time EXCEPT ![d] = s.time[d] + (a + 1)]
  <2>1. u.time = [s.time EXCEPT ![d] = s.time[d] + a]
    BY DEF Run
  <2>2. u.time[d] + 1 = s.time[d] + (a + 1)
    <3>1. u.time[d] = s.time[d] + a /\ s.time[d] \in Nat
      BY <1>1, <2>1
    <3> QED
      BY <3>1
  <2> HIDE DEF u
  <2> QED
    BY <1>1, <2>1, <2>2
<1>3. u.current = [k \in Thresholds |-> IF d >= k THEN s.current[k] + a ELSE 0]
  BY DEF Run
<1>4. u.episodes = [k \in Thresholds |-> IF d < k /\ s.current[k] > 0
                                         THEN Append(s.episodes[k], s.current[k])
                                         ELSE s.episodes[k]]
  BY DEF Run
<1> HIDE DEF u
<1>5. [k \in Thresholds |-> IF d >= k THEN u.current[k] + 1 ELSE 0]
      = [k \in Thresholds |-> IF d >= k THEN s.current[k] + (a + 1) ELSE 0]
  <2>1. ASSUME NEW k \in Thresholds, d >= k PROVE u.current[k] + 1 = s.current[k] + (a + 1)
    <3>1. u.current[k] = s.current[k] + a /\ s.current[k] \in Nat
      BY <1>1, <1>3, <2>1
    <3> QED
      BY <3>1
  <2> QED
    BY <2>1
<1>6. [k \in Thresholds |-> IF d < k /\ u.current[k] > 0
                            THEN Append(u.episodes[k], u.current[k]) ELSE u.episodes[k]]
      = u.episodes
  <2>1. ASSUME NEW k \in Thresholds PROVE ~(d < k /\ u.current[k] > 0)
    BY <1>1, <1>3
  <2> QED
    BY <1>4, <2>1
<1>7. Run(u, 1, d) = [time |-> [u.time EXCEPT ![d] = u.time[d] + 1],
        current |-> [k \in Thresholds |-> IF d >= k THEN u.current[k] + 1 ELSE 0],
        episodes |-> [k \in Thresholds |-> IF d < k /\ u.current[k] > 0
                            THEN Append(u.episodes[k], u.current[k]) ELSE u.episodes[k]]]
  BY DEF Run
<1>8. Run(s, a + 1, d) = [time |-> [s.time EXCEPT ![d] = s.time[d] + (a + 1)],
        current |-> [k \in Thresholds |-> IF d >= k THEN s.current[k] + (a + 1) ELSE 0],
        episodes |-> u.episodes]
  BY <1>4 DEF Run
<1> QED
  BY <1>2, <1>5, <1>6, <1>7, <1>8 DEF u

\* As long as the depth stays the same, the units of time add up.
LEMMA TicksConstant ==
    ASSUME NEW D \in [Nat -> 0 .. N], NEW n \in Nat, NEW span \in Nat \ {0}, NEW d \in 0 .. N,
           \A i \in Nat : n <= i /\ i < n + span => D[i] = d
    PROVE  Ticks(D)[n + span] = Run(Ticks(D)[n], span, d)
<1> DEFINE S == {a \in Nat : a + 1 <= span =>
                               Ticks(D)[n + (a + 1)] = Run(Ticks(D)[n], a + 1, d)}
<1>1. Ticks(D) \in [Nat -> Measured] /\ \A m \in Nat : Ticks(D)[m + 1] = Run(Ticks(D)[m], 1, D[m])
  BY TicksRuns DEF Runs
<1>2. 0 \in S
  <2>1. n + (0 + 1) = n + 1 /\ D[n] = d /\ 0 + 1 = 1
    OBVIOUS
  <2> QED
    BY <1>1, <2>1
<1>3. ASSUME NEW a \in Nat, a \in S PROVE a + 1 \in S
  <2>1. a + 1 \in Nat /\ a + 1 \in Nat \ {0} /\ n + (a + 1) \in Nat
        /\ n + ((a + 1) + 1) = (n + (a + 1)) + 1
    OBVIOUS
  <2>2. ASSUME (a + 1) + 1 <= span
        PROVE  Ticks(D)[n + ((a + 1) + 1)] = Run(Ticks(D)[n], (a + 1) + 1, d)
    <3>1. D[n + (a + 1)] = d
      BY <2>1, <2>2
    <3>2. Ticks(D)[n + (a + 1)] = Run(Ticks(D)[n], a + 1, d)
      BY <1>3, <2>2
    <3>3. Ticks(D)[n] \in Measured
      BY <1>1
    <3> DEFINE b == a + 1
               s == Ticks(D)[n]
    <3>4. Ticks(D)[(n + b) + 1] = Run(Ticks(D)[n + b], 1, D[n + b])
      BY <1>1, <2>1
    <3>5. b \in Nat \ {0} /\ s \in Measured
      BY <2>1, <3>3
    <3> HIDE DEF b, s
    <3>6. Run(Run(s, b, d), 1, d) = Run(s, b + 1, d)
      BY <3>5, RunOneMore
    <3> QED
      BY <2>1, <3>1, <3>2, <3>4, <3>6 DEF b, s
  <2> QED
    BY <2>1, <2>2
<1>4. Nat \subseteq S
  <2> HIDE DEF S
  <2> QED
    BY <1>2, <1>3, NaturalsInductive
<1>5. span - 1 \in Nat /\ (span - 1) + 1 = span /\ span - 1 \in S
  BY <1>4
<1> QED
  BY <1>5

-----------------------------------------------------------------------------
(* What the probe has measured is the history so far.                      *)

\* The requests that wait during the n-th unit of time, when requests arrive at
\* a and the first m of them are dispatched at d.
WaitingOf(a, d, m, n) == {r \in 1 .. N : a[r] <= a[1] + n /\ ~(r <= m /\ d[r] <= a[1] + n)}
DepthsOf(a, d, m) == [n \in Nat |-> Cardinality(WaitingOf(a, d, m, n))]

Depths == DepthsOf(arrival, dispatched, Len(decisions))
SoFar == Ticks(Depths)[now - arrival[1]]

\* The episodes, with those that are under way.
Closed(s) == [k \in Thresholds |-> IF s.current[k] > 0 THEN Append(s.episodes[k], s.current[k])
                                   ELSE s.episodes[k]]

TickInv ==
    /\ HistoryInv /\ now >= arrival[1]
    /\ stats.depthTime = SoFar.time
    /\ stage # "done" => stats.current = SoFar.current /\ stats.episodes = SoFar.episodes
    /\ stage = "done" => stats.episodes = Closed(SoFar)

LEMMA DepthsTyped ==
    ASSUME NEW a, NEW d, NEW m
    PROVE  /\ DepthsOf(a, d, m) \in [Nat -> 0 .. N]
           /\ \A n \in Nat : IsFiniteSet(WaitingOf(a, d, m, n))
<1>1. N \in Nat /\ IsFiniteSet(1 .. N) /\ Cardinality(1 .. N) = N
  <2>1. N \in Nat /\ 1 \in Int /\ N \in Int /\ 1 <= N + 1
    BY TraceAssumption
  <2>2. IsFiniteSet(1 .. N) /\ Cardinality(1 .. N) = N - 1 + 1
    BY <2>1, Interval
  <2> QED
    BY <2>1, <2>2
<1>2. ASSUME NEW n \in Nat
      PROVE  IsFiniteSet(WaitingOf(a, d, m, n)) /\ Cardinality(WaitingOf(a, d, m, n)) \in 0 .. N
  <2>1. WaitingOf(a, d, m, n) \subseteq 1 .. N
    BY DEF WaitingOf
  <2> DEFINE W == WaitingOf(a, d, m, n)
  <2> HIDE DEF W
  <2>2. IsFiniteSet(W) /\ Cardinality(W) <= Cardinality(1 .. N)
    BY <1>1, <2>1, FS_Subset DEF W
  <2>3. Cardinality(W) \in Nat
    BY <2>2, FS_CardinalityType
  <2>4. Cardinality(W) \in 0 .. N
    BY <1>1, <2>2, <2>3
  <2> QED
    BY <2>2, <2>4 DEF W
<1> QED
  BY <1>2 DEF DepthsOf

\* Until the next arrival, the depth is what waits now.
LEMMA DepthHere ==
    ASSUME TraceTypes, InOrder, now >= arrival[1], NEW i \in Nat,
           now - arrival[1] <= i, \A r \in next .. N : arrival[r] > arrival[1] + i
    PROVE  Depths[i] = Len(waiting)
<1> DEFINE m == Len(decisions)
           a1 == arrival[1]
<1>2. /\ N \in Nat \ {0} /\ m \in Nat /\ next \in Nat \ {0} /\ now \in Nat
      /\ arrival \in [1 .. N -> Nat] /\ dispatched \in Seq(Nat) /\ Len(dispatched) = m
      /\ Len(waiting) \in Nat
  <2>1. dispatched \in Seq(Nat) /\ Len(dispatched) = m
    BY DEF InOrder
  <2> QED
    BY <2>1, Numbers
<1>3. /\ next <= N + 1 /\ Len(waiting) = next - 1 - m
      /\ \A r \in 1 .. m : dispatched[r] <= now
      /\ \A r \in 1 .. next - 1 : arrival[r] <= now
  BY DEF InOrder
<1>6. a1 \in Nat /\ now <= a1 + i /\ a1 + i \in Nat
  <2>1. 1 \in 1 .. N
    BY <1>2
  <2>2. a1 \in Nat /\ now - a1 <= i
    BY <1>2, <2>1
  <2> QED
    BY <1>2, <2>2
<1>61. \A r \in next .. N : arrival[r] > a1 + i
  OBVIOUS
<1> HIDE DEF m, a1
<1>7. ASSUME NEW r \in 1 .. N
      PROVE  (arrival[r] <= a1 + i /\ ~(r <= m /\ dispatched[r] <= a1 + i))
             <=> r \in m + 1 .. next - 1
  <2>1. arrival[r] \in Nat
    BY <1>2
  <2>2. CASE r <= m
    <3>1. r \in 1 .. m /\ dispatched[r] \in Nat /\ dispatched[r] <= now
      BY <1>2, <1>3, <2>2
    <3>2. dispatched[r] <= a1 + i
      BY <1>2, <1>6, <3>1
    <3> QED
      BY <1>2, <2>2, <3>2
  <2>3. CASE r > m /\ r < next
    <3>1. r \in 1 .. next - 1 /\ r \in m + 1 .. next - 1
      BY <1>2, <2>3
    <3>2. arrival[r] <= a1 + i
      BY <1>2, <1>3, <1>6, <2>1, <3>1
    <3>3. ~(r <= m)
      BY <1>2, <2>3
    <3> QED
      BY <3>1, <3>2, <3>3
  <2>4. CASE r >= next
    <3>1. r \in next .. N /\ r \notin m + 1 .. next - 1
      BY <1>2, <2>4
    <3>2. ~(arrival[r] <= a1 + i)
      BY <1>6, <1>61, <2>1, <3>1
    <3> QED
      BY <3>1, <3>2
  <2> QED
    BY <1>2, <2>2, <2>3, <2>4
<1>8. WaitingOf(arrival, dispatched, m, i) = m + 1 .. next - 1
  <2>1. \A r \in m + 1 .. next - 1 : r \in 1 .. N
    BY <1>2, <1>3
  <2> QED
    BY <1>7, <2>1 DEF WaitingOf, a1
<1>9. Cardinality(m + 1 .. next - 1) = Len(waiting)
  <2>1. m + 1 \in Int /\ next - 1 \in Int /\ m + 1 <= next - 1 + 1
    BY <1>2, <1>3
  <2>2. Cardinality(m + 1 .. next - 1) = (next - 1) - (m + 1) + 1
    BY <2>1, Interval
  <2> QED
    BY <1>2, <1>3, <2>2
<1> QED
  BY <1>8, <1>9 DEF Depths, DepthsOf, m

\* While time passes nothing is dispatched, and nothing arrives before its end.
LEMMA DepthStays ==
    ASSUME HistoryInv, Advance, now >= arrival[1], NEW i \in Nat,
           now - arrival[1] <= i, arrival[1] + i < now'
    PROVE  Depths[i] = depth
<1>1. TraceTypes /\ InOrder /\ UpToDate /\ stage = "top"
  BY DEF HistoryInv, TraceInv, Advance
<1>2. depth = Len(waiting)
  BY <1>1 DEF UpToDate
<1>3. \A r \in next .. N : arrival[r] > arrival[1] + i
  <2>1. now' \in Nat /\ \A r \in next .. N : arrival[r] >= now'
    BY AdvanceTime
  <2>2. /\ arrival[1] \in Nat /\ next \in Nat \ {0} /\ N \in Nat
        /\ arrival \in [1 .. N -> Nat]
    BY <1>1, Numbers
  <2>3. ASSUME NEW r \in next .. N PROVE arrival[r] > arrival[1] + i
    <3>1. arrival[r] \in Nat /\ arrival[r] >= now'
      BY <2>1, <2>2
    <3> QED
      BY <2>1, <2>2, <3>1
  <2> QED
    BY <2>3
<1> QED
  BY <1>1, <1>2, <1>3, DepthHere

LEMMA AdvanceInTicks ==
    ASSUME TickInv, Advance
    PROVE  TickInv'
<1> DEFINE span == now' - now
           n == now - arrival[1]
<1>1. HistoryInv /\ HistoryInv' /\ now >= arrival[1] /\ stage = "top" /\ stage' = "freed"
  BY AdvanceInHistory DEF TickInv, Advance
<1>2. /\ now' \in Nat /\ now' >= now
      /\ now' = now => stats' = stats
      /\ now' # now => now' - now \in Nat \ {0}
      /\ stats' = AddInterval(stats, now' - now, depth, level)
      /\ level \in 0 .. 3 /\ stats \in Statistics /\ depth \in 0 .. N
  BY <1>1, AdvanceTime
<1>3. now \in Nat /\ arrival[1] \in Nat
  <2>1. TraceTypes
    BY <1>1 DEF HistoryInv, TraceInv
  <2> QED
    BY <2>1, Numbers
<1>4. UNCHANGED <<arrival, dispatched, decisions>>
  BY DEF Advance
<1>5. Depths' = Depths /\ now' >= arrival[1]
  BY <1>1, <1>2, <1>3, <1>4 DEF Depths, DepthsOf, WaitingOf
<1>6. /\ stats.depthTime = SoFar.time /\ stats.current = SoFar.current
      /\ stats.episodes = SoFar.episodes
  BY <1>1 DEF TickInv
<1>7. CASE now' = now
  <2>1. stats' = stats /\ SoFar' = SoFar
    BY <1>2, <1>4, <1>5, <1>7 DEF SoFar
  <2> QED
    BY <1>1, <1>4, <1>5, <1>6, <2>1 DEF TickInv
<1>8. CASE now' # now
  <2>1. span \in Nat \ {0} /\ stats' = AddInterval(stats, span, depth, level)
    BY <1>2, <1>8
  <2>2. n \in Nat /\ now' - arrival[1] = n + span
    <3>1. \A x, y, z \in Nat : y >= x => y - x \in Nat /\ z - x = (y - x) + (z - y)
      OBVIOUS
    <3> QED
      BY <1>1, <1>2, <1>3, <3>1
  <2>3. ASSUME NEW i \in Nat, n <= i, i < n + span PROVE Depths[i] = depth
    <3>1. now - arrival[1] <= i /\ arrival[1] + i < now'
      <4>1. \A x, y, z \in Nat : i < (y - x) + (z - y) => x + i < z
        OBVIOUS
      <4> QED
        BY <1>2, <1>3, <2>3, <4>1
    <3> QED
      BY <1>1, <3>1, DepthStays
  <2> HIDE DEF span, n
  <2>4. Ticks(Depths)[n + span] = Run(Ticks(Depths)[n], span, depth)
    <3>1. Depths \in [Nat -> 0 .. N]
      BY DepthsTyped DEF Depths
    <3> QED
      BY <1>2, <2>1, <2>2, <2>3, <3>1, TicksConstant
  <2>5. SoFar' = Run(SoFar, span, depth)
    BY <1>4, <1>5, <2>2, <2>4 DEF SoFar, n
  <2>6. IntervalAdded(stats', stats, span, depth, level)
    BY <1>2, <2>1, AddIntervalFields
  <2>7. stats'.depthTime = SoFar'.time
    BY <1>6, <2>5, <2>6 DEF IntervalAdded, Run
  <2>8. stats'.current = SoFar'.current
    BY <1>6, <2>5, <2>6 DEF IntervalAdded, Run
  <2>9. stats'.episodes = SoFar'.episodes
    BY <1>6, <2>5, <2>6 DEF IntervalAdded, Run
  <2> QED
    BY <1>1, <1>4, <1>5, <2>7, <2>8, <2>9 DEF TickInv
<1> QED
  BY <1>7, <1>8

\* A dispatch does not change the depths of the past.
LEMMA DispatchKeepsPast ==
    ASSUME TickInv, Dispatch, NEW i \in Nat, i < now - arrival[1]
    PROVE  Depths[i] = Depths'[i]
<1> DEFINE m == Len(decisions)
           n == now - arrival[1]
<1>1. HistoryInv /\ HistoryInv' /\ TraceTypes /\ now >= arrival[1] /\ stage \in {"freed", "arrived"}
  BY DispatchInHistory DEF TickInv, HistoryInv, TraceInv, Dispatch
<1>2. Len(decisions') = m + 1 /\ m \in Nat
  BY <1>1, LogGrows
<1>3. /\ UNCHANGED <<now, stats, arrival, stage>> /\ dispatched' = Append(dispatched, now)
      /\ dispatched \in Seq(Nat) /\ Len(dispatched) = m
  BY <1>1 DEF Dispatch, HistoryInv, InOrder
<1>4. dispatched'[m + 1] = now /\ \A r \in 1 .. m : dispatched'[r] = dispatched[r]
  BY <1>2, <1>3
<1>5. now \in Nat /\ arrival[1] \in Nat /\ n \in Nat
  <2>1. now \in Nat /\ arrival[1] \in Nat
    BY <1>1, Numbers
  <2> QED
    BY <1>1, <2>1
<1> HIDE DEF m, n
<1>6. i < n
  BY DEF n
<1>7. ~(now <= arrival[1] + i)
  BY <1>5, <1>6 DEF n
<1>8. ASSUME NEW r \in 1 .. N
      PROVE  (r <= m + 1 /\ dispatched'[r] <= arrival[1] + i)
             <=> (r <= m /\ dispatched[r] <= arrival[1] + i)
  <2>1. CASE r <= m
    <3>1. r \in 1 .. m /\ r <= m + 1
      BY <1>2, <2>1
    <3> QED
      BY <1>4, <2>1, <3>1
  <2>2. CASE r = m + 1
    <3>1. ~(r <= m)
      BY <1>2, <2>2
    <3> QED
      BY <1>4, <1>7, <2>2, <3>1
  <2>3. CASE r > m + 1
    <3>1. ~(r <= m) /\ ~(r <= m + 1)
      BY <1>2, <2>3
    <3> QED
      BY <3>1
  <2> QED
    BY <1>2, <2>1, <2>2, <2>3
<1>9. WaitingOf(arrival, dispatched, m, i) = WaitingOf(arrival, dispatched', m + 1, i)
  BY <1>8 DEF WaitingOf
<1> QED
  BY <1>2, <1>3, <1>9 DEF Depths, DepthsOf, m

LEMMA DispatchInTicks ==
    ASSUME TickInv, Dispatch
    PROVE  TickInv'
<1> DEFINE m == Len(decisions)
           n == now - arrival[1]
<1>1. HistoryInv /\ HistoryInv' /\ TraceTypes /\ now >= arrival[1] /\ stage \in {"freed", "arrived"}
  BY DispatchInHistory DEF TickInv, HistoryInv, TraceInv, Dispatch
<1>2. Len(decisions') = m + 1 /\ m \in Nat
  BY <1>1, LogGrows
<1>3. /\ UNCHANGED <<now, stats, arrival, stage>> /\ dispatched' = Append(dispatched, now)
      /\ dispatched \in Seq(Nat) /\ Len(dispatched) = m
  BY <1>1 DEF Dispatch, HistoryInv, InOrder
<1>5. now \in Nat /\ arrival[1] \in Nat /\ n \in Nat
  <2>1. now \in Nat /\ arrival[1] \in Nat
    BY <1>1, Numbers
  <2> QED
    BY <1>1, <2>1
<1> HIDE DEF m, n
<1>6. ASSUME NEW i \in Nat, i < n PROVE Depths[i] = Depths'[i]
  BY <1>6, DispatchKeepsPast DEF n
<1>7. Depths \in [Nat -> 0 .. N] /\ Depths' \in [Nat -> 0 .. N]
  BY DepthsTyped DEF Depths
<1>8. Ticks(Depths)[n] = Ticks(Depths')[n]
  BY <1>5, <1>6, <1>7, TicksAgree
<1>9. SoFar' = SoFar
  BY <1>3, <1>8 DEF SoFar, n
<1> QED
  BY <1>1, <1>3, <1>9 DEF TickInv

LEMMA RestInTicks ==
    ASSUME TickInv, Settle \/ Finish \/ UNCHANGED vars
    PROVE  TickInv'
<1>1. HistoryInv /\ HistoryInv' /\ stats \in Statistics
  BY SettleInHistory, RestInHistory DEF TickInv, HistoryInv, InOrder
<1>2. UNCHANGED <<now, arrival, dispatched, decisions>>
  BY DEF Settle, Finish, vars
<1>3. SoFar' = SoFar
  BY <1>2 DEF SoFar, Depths, DepthsOf, WaitingOf
<1>4. CASE Settle
  <2>1. /\ stats' = [stats EXCEPT !.peak = IF depth' > @ THEN depth' ELSE @]
        /\ stage # "done" /\ stage' # "done"
    BY <1>4 DEF Settle
  <2>2. /\ stats'.depthTime = stats.depthTime /\ stats'.current = stats.current
        /\ stats'.episodes = stats.episodes
    BY <1>1, <2>1 DEF Statistics
  <2> QED
    BY <1>1, <1>2, <1>3, <2>1, <2>2 DEF TickInv
<1>5. CASE Finish
  <2>1. /\ stats'.depthTime = stats.depthTime
        /\ stats'.episodes = [k \in Thresholds |->
                                IF stats.current[k] > 0
                                THEN Append(stats.episodes[k], stats.current[k])
                                ELSE stats.episodes[k]]
    BY <1>1, <1>5, FinishFields
  <2>2. stage = "top" /\ stage' = "done"
    BY <1>5 DEF Finish
  <2>3. stats.current = SoFar.current /\ stats.episodes = SoFar.episodes
    BY <2>2 DEF TickInv
  <2>4. stats'.episodes = Closed(SoFar)
    BY <2>1, <2>3 DEF Closed
  <2> QED
    BY <1>1, <1>2, <1>3, <2>1, <2>2, <2>4 DEF TickInv, Closed
<1>6. CASE UNCHANGED vars
  <2>1. UNCHANGED <<stats, stage>>
    BY <1>6 DEF vars
  <2> QED
    BY <1>1, <1>2, <1>3, <2>1 DEF TickInv, Closed
<1> QED
  BY <1>4, <1>5, <1>6

LEMMA TicksStart == Init => TickInv
<1> SUFFICES ASSUME Init PROVE TickInv
  OBVIOUS
<1>1. HistoryInv /\ now = arrival[1] /\ stage = "top" /\ stats = FreshStats
  BY HistoryStarts DEF Init
<1>2. now \in Nat
  BY <1>1 DEF HistoryInv, TraceInv, TraceTypes
<1>3. SoFar = NothingYet
  <2>1. Depths \in [Nat -> 0 .. N] /\ now - arrival[1] = 0
    BY <1>1, <1>2, DepthsTyped DEF Depths
  <2>2. Ticks(Depths)[0] = NothingYet
    BY <2>1, TicksRuns DEF Runs
  <2> QED
    BY <2>1, <2>2 DEF SoFar
<1> QED
  BY <1>1, <1>2, <1>3 DEF TickInv, NothingYet, FreshStats

LEMMA TicksKept == TickInv /\ [TraceNext]_vars => TickInv'
BY AdvanceInTicks, DispatchInTicks, RestInTicks DEF TraceNext

-----------------------------------------------------------------------------
(* The events in their order.                                              *)

Below(E, t) == {u \in E : u < t}

LEMMA RankGrows ==
    ASSUME NEW E \in SUBSET Nat, IsFiniteSet(E), NEW t \in E, NEW s \in E, t < s
    PROVE  Cardinality(Below(E, t)) < Cardinality(Below(E, s))
<1>1. IsFiniteSet(Below(E, t)) /\ IsFiniteSet(Below(E, s))
  BY FS_Subset DEF Below
<1>2. t \notin Below(E, t)
  BY DEF Below
<1>3. Below(E, t) \cup {t} \subseteq Below(E, s)
  <2>1. t \in Nat /\ s \in Nat /\ \A u \in E : u \in Nat
    OBVIOUS
  <2>2. \A u \in E : u < t => u < s
    BY <2>1
  <2> QED
    BY <2>2 DEF Below
<1> DEFINE B == Below(E, t)
           C == Below(E, s)
<1> HIDE DEF B, C
<1>4. Cardinality(B \cup {t}) = Cardinality(B) + 1
  BY <1>1, <1>2, FS_AddElement DEF B
<1>5. Cardinality(B \cup {t}) <= Cardinality(C)
  BY <1>1, <1>3, FS_Subset DEF B, C
<1>6. Cardinality(B) \in Nat /\ Cardinality(C) \in Nat
  BY <1>1, FS_CardinalityType DEF B, C
<1> QED
  BY <1>4, <1>5, <1>6 DEF B, C

LEMMA RankBelow ==
    ASSUME NEW E \in SUBSET Nat, IsFiniteSet(E), NEW t \in E
    PROVE  /\ Cardinality(Below(E, t)) \in Nat /\ Cardinality(E) \in Nat
           /\ Cardinality(Below(E, t)) + 1 <= Cardinality(E)
<1>1. IsFiniteSet(Below(E, t))
  BY FS_Subset DEF Below
<1>2. t \notin Below(E, t) /\ Below(E, t) \cup {t} \subseteq E
  BY DEF Below
<1> DEFINE B == Below(E, t)
<1> HIDE DEF B
<1>3. Cardinality(B \cup {t}) = Cardinality(B) + 1
  BY <1>1, <1>2, FS_AddElement DEF B
<1>4. Cardinality(B \cup {t}) <= Cardinality(E)
  BY <1>2, FS_Subset DEF B
<1>5. Cardinality(B) \in Nat /\ Cardinality(E) \in Nat
  BY <1>1, FS_CardinalityType DEF B
<1> QED
  BY <1>3, <1>4, <1>5 DEF B

\* Every place in the order is taken.
LEMMA RankTaken ==
    ASSUME NEW E \in SUBSET Nat, IsFiniteSet(E), NEW n \in Nat, n < Cardinality(E)
    PROVE  \E t \in E : Cardinality(Below(E, t)) = n
<1> DEFINE S == {i \in Nat : i < Cardinality(E) => \E t \in E : Cardinality(Below(E, t)) = i}
<1>0. Cardinality(E) \in Nat
  BY FS_CardinalityType
<1>1. 0 \in S
  <2>1. ASSUME 0 < Cardinality(E) PROVE \E t \in E : Cardinality(Below(E, t)) = 0
    <3>1. E # {}
      BY <2>1, FS_EmptySet
    <3>2. Min(E) \in E /\ \A u \in E : Min(E) <= u
      BY <3>1, LeastOfNaturals
    <3>3. Below(E, Min(E)) = {}
      <4> DEFINE least == Min(E)
      <4>1. least \in Nat /\ \A u \in E : u \in Nat /\ least <= u
        BY <3>2
      <4> HIDE DEF least
      <4>2. \A u \in E : ~(u < least)
        BY <4>1
      <4> QED
        BY <4>2 DEF Below, least
    <3>4. Cardinality(Below(E, Min(E))) = 0
      BY <3>3, FS_EmptySet
    <3> QED
      BY <3>2, <3>4
  <2> QED
    BY <2>1
<1>2. ASSUME NEW i \in Nat, i \in S PROVE i + 1 \in S
  <2>1. ASSUME i + 1 < Cardinality(E) PROVE \E t \in E : Cardinality(Below(E, t)) = i + 1
    <3>1. i < Cardinality(E)
      BY <1>0, <2>1
    <3>2. PICK t \in E : Cardinality(Below(E, t)) = i
      BY <1>2, <3>1
    <3> DEFINE later == {u \in E : u > t}
               s == Min(later)
    <3>3. IsFiniteSet(Below(E, t)) /\ t \notin Below(E, t) /\ t \in Nat
      BY FS_Subset DEF Below
    <3>4. Cardinality(Below(E, t) \cup {t}) = i + 1
      BY <3>2, <3>3, FS_AddElement
    <3>5. later # {}
      <4>1. ASSUME later = {} PROVE FALSE
        <5>1. \A u \in E : u < t \/ u = t
          BY <4>1
        <5>2. E = Below(E, t) \cup {t}
          BY <5>1 DEF Below
        <5> QED
          BY <1>0, <2>1, <3>4, <5>2
      <4> QED
        BY <4>1
    <3>6. s \in later /\ \A u \in later : s <= u
      <4>1. later \in SUBSET Nat
        OBVIOUS
      <4> HIDE DEF later
      <4> QED
        BY <3>5, <4>1, LeastOfNaturals
    <3> HIDE DEF s
    <3>7. s \in E /\ s > t /\ s \in Nat /\ \A u \in E : u > t => s <= u
      BY <3>6
    <3>8. Below(E, s) = Below(E, t) \cup {t}
      <4>1. ASSUME NEW u \in E PROVE u < s <=> u < t \/ u = t
        BY <3>3, <3>7
      <4> QED
        BY <4>1 DEF Below
    <3> QED
      BY <3>4, <3>7, <3>8
  <2>2. i + 1 \in Nat
    OBVIOUS
  <2> QED
    BY <2>1, <2>2
<1>3. Nat \subseteq S
  <2> HIDE DEF S
  <2> QED
    BY <1>1, <1>2, NaturalsInductive
<1> QED
  BY <1>3

\* The clock and the times of the requests in the end.
LEMMA TimesInTheEnd ==
    ASSUME HistoryInv, stage = "done"
    PROVE  /\ N \in Nat \ {0} /\ now \in Nat /\ Len(decisions) = N
           /\ \A r \in 1 .. N : /\ arrival[r] \in Nat /\ dispatched[r] \in Nat
                               /\ arrival[1] <= arrival[r] /\ arrival[r] <= dispatched[r]
                               /\ dispatched[r] <= now
           /\ dispatched[N] = now
           /\ arrival[1] \in EventTimes /\ now \in EventTimes
           /\ EventTimes \in SUBSET Nat /\ IsFiniteSet(EventTimes)
           /\ \A t \in EventTimes : arrival[1] <= t /\ t <= now
           /\ \A r \in 1 .. N : arrival[r] \in EventTimes /\ dispatched[r] \in EventTimes
<1>1. /\ TraceTypes /\ InOrder /\ N \in Nat \ {0} /\ now \in Nat
      /\ Len(decisions) = N /\ dispatched[N] = now
  BY AtTheEnd, TraceAssumption DEF HistoryInv, TraceInv, TraceTypes
<1>2. arrival \in [1 .. N -> Nat] /\ \A i, j \in 1 .. N : i <= j => arrival[i] <= arrival[j]
  BY <1>1, TraceAssumption DEF TraceTypes
<1>3. /\ dispatched \in Seq(Nat) /\ Len(dispatched) = N
      /\ \A r \in 1 .. N : arrival[r] <= dispatched[r] /\ dispatched[r] <= now
  BY <1>1 DEF InOrder
<1>4. ASSUME NEW r \in 1 .. N
      PROVE  /\ arrival[r] \in Nat /\ dispatched[r] \in Nat
             /\ arrival[1] <= arrival[r] /\ arrival[r] <= dispatched[r]
             /\ dispatched[r] <= now
  <2>1. 1 \in 1 .. N /\ 1 <= r
    BY <1>1
  <2> QED
    BY <1>2, <1>3, <2>1
<1>5. 1 \in 1 .. N /\ N \in 1 .. N /\ Requests = 1 .. N
  BY <1>1 DEF Requests
<1>6. /\ arrival[1] \in EventTimes /\ now \in EventTimes /\ EventTimes \in SUBSET Nat
      /\ \A r \in 1 .. N : arrival[r] \in EventTimes /\ dispatched[r] \in EventTimes
  BY <1>1, <1>4, <1>5 DEF EventTimes
<1>7. ASSUME NEW t \in EventTimes PROVE arrival[1] <= t /\ t <= now
  <2>1. PICK r \in 1 .. N : t = arrival[r] \/ t = dispatched[r]
    BY <1>5 DEF EventTimes
  <2>2. /\ arrival[r] \in Nat /\ dispatched[r] \in Nat /\ arrival[1] \in Nat
        /\ arrival[1] <= arrival[r] /\ arrival[r] <= dispatched[r] /\ dispatched[r] <= now
    BY <1>4, <1>5
  <2> QED
    BY <1>1, <2>1, <2>2
<1>8. IsFiniteSet(EventTimes)
  <2>1. now \in Int /\ 0 \in Int /\ 0 <= now + 1
    BY <1>1
  <2>2. IsFiniteSet(0 .. now)
    BY <2>1, Interval
  <2>3. EventTimes \subseteq 0 .. now
    BY <1>1, <1>6, <1>7
  <2> QED
    BY <2>2, <2>3, FS_Subset
<1> QED
  BY <1>1, <1>4, <1>6, <1>7, <1>8

\* The events in their order, from the first arrival to the last dispatch.
LEMMA EventOrder ==
    ASSUME HistoryInv, stage = "done"
    PROVE  /\ LastEvent \in Nat \ {0}
           /\ \A i \in 1 .. LastEvent : Time(i) \in EventTimes /\ Time(i) \in Nat
           /\ Time(1) = arrival[1] /\ Time(LastEvent) = now
           /\ \A i \in 1 .. LastEvent - 1 :
                 /\ Time(i) < Time(i + 1)
                 /\ \A t \in EventTimes : t <= Time(i) \/ t >= Time(i + 1)
<1> DEFINE E == EventTimes
           L == LastEvent
           rank(t) == Cardinality(Below(E, t))
<1>1. /\ E \in SUBSET Nat /\ IsFiniteSet(E) /\ arrival[1] \in E /\ now \in E
      /\ \A t \in E : arrival[1] <= t /\ t <= now
  BY TimesInTheEnd
<1>2. L = Cardinality(E) /\ L \in Nat /\ L >= 1
  <2>1. Cardinality(E) \in Nat /\ rank(now) \in Nat /\ rank(now) + 1 <= Cardinality(E)
    BY <1>1, RankBelow
  <2> QED
    BY <2>1 DEF LastEvent
<1>3. ASSUME NEW i \in 1 .. L PROVE Time(i) \in E /\ Time(i) \in Nat /\ rank(Time(i)) = i - 1
  <2>1. i - 1 \in Nat /\ i - 1 < Cardinality(E)
    BY <1>2
  <2>2. \E t \in E : rank(t) = i - 1
    BY <1>1, <2>1, RankTaken
  <2>3. Time(i) \in E /\ rank(Time(i)) = i - 1
    BY <2>2, Zenon DEF Time, Below
  <2> QED
    BY <1>1, <2>3
<1>4. ASSUME NEW t \in E, NEW s \in E, t < s PROVE rank(t) < rank(s)
  BY <1>1, <1>4, RankGrows
<1>5. ASSUME NEW t \in E PROVE rank(t) \in Nat /\ rank(t) + 1 <= L /\ t \in Nat
  BY <1>1, <1>2, RankBelow
<1> HIDE DEF E, L, rank
<1>6. ASSUME NEW t \in E, NEW s \in E, rank(t) <= rank(s) PROVE t <= s
  <2>1. ~(s < t)
    BY <1>4, <1>5, <1>6
  <2> QED
    BY <1>5, <2>1
<1>7. Time(1) = arrival[1]
  <2>1. 1 \in 1 .. L
    BY <1>2
  <2>2. Time(1) \in E /\ rank(Time(1)) = 0
    BY <1>3, <2>1
  <2>3. /\ arrival[1] \in E /\ rank(arrival[1]) \in Nat /\ arrival[1] \in Nat
        /\ Time(1) \in Nat /\ arrival[1] <= Time(1)
    BY <1>1, <1>5, <2>2
  <2>4. rank(Time(1)) <= rank(arrival[1])
    BY <2>2, <2>3
  <2>5. Time(1) <= arrival[1]
    BY <1>6, <2>2, <2>3, <2>4
  <2> QED
    BY <2>3, <2>5
<1>8. Time(L) = now
  <2>1. L \in 1 .. L
    BY <1>2
  <2>2. Time(L) \in E /\ rank(Time(L)) = L - 1
    BY <1>3, <2>1
  <2>3. rank(now) <= rank(Time(L))
    BY <1>1, <1>2, <1>5, <2>2
  <2>4. now <= Time(L)
    BY <1>1, <1>6, <2>2, <2>3
  <2>5. now \in Nat /\ Time(L) \in Nat /\ Time(L) <= now
    BY <1>1, <1>5, <2>2
  <2> QED
    BY <2>4, <2>5
<1>9. ASSUME NEW i \in 1 .. L - 1
      PROVE  /\ Time(i) < Time(i + 1)
             /\ \A t \in E : t <= Time(i) \/ t >= Time(i + 1)
  <2>1. i \in 1 .. L /\ i + 1 \in 1 .. L
    BY <1>2
  <2>2. /\ Time(i) \in E /\ Time(i) \in Nat /\ rank(Time(i)) = i - 1
        /\ Time(i + 1) \in E /\ Time(i + 1) \in Nat /\ rank(Time(i + 1)) = i
    BY <1>3, <2>1
  <2>3. Time(i) < Time(i + 1)
    <3>1. ~(rank(Time(i + 1)) <= rank(Time(i)))
      BY <2>2
    <3>2. Time(i) <= Time(i + 1) /\ Time(i) # Time(i + 1)
      BY <1>6, <2>2
    <3> QED
      BY <2>2, <3>2
  <2>4. ASSUME NEW t \in E PROVE t <= Time(i) \/ t >= Time(i + 1)
    <3>1. rank(t) \in Nat /\ t \in Nat
      BY <1>5
    <3>2. CASE rank(t) <= i - 1
      BY <1>6, <2>2, <3>2
    <3>3. CASE rank(t) >= i
      <4>1. Time(i + 1) <= t
        BY <1>6, <2>2, <3>1, <3>3
      <4> QED
        BY <2>2, <3>1, <4>1
    <3> QED
      BY <3>1, <3>2, <3>3
  <2> QED
    BY <2>3, <2>4
<1> QED
  BY <1>2, <1>3, <1>7, <1>8, <1>9 DEF E, L

-----------------------------------------------------------------------------
(* The depth at the events.                                                *)

Arrived(t) == {r \in Requests : arrival[r] <= t}
Served(t) == {r \in Requests : dispatched[r] <= t}

LEMMA Disjoint ==
    ASSUME NEW S, NEW T, IsFiniteSet(S), IsFiniteSet(T), S \cap T = {}
    PROVE  Cardinality(S \cup T) = Cardinality(S) + Cardinality(T)
<1>1. Cardinality(S \cup T) = Cardinality(S) + Cardinality(T) - Cardinality(S \cap T)
  BY FS_Union
<1>2. Cardinality(S \cap T) = 0 /\ Cardinality(S) \in Nat /\ Cardinality(T) \in Nat
  BY FS_EmptySet, FS_CardinalityType
<1> QED
  BY <1>1, <1>2

LEMMA RequestsFinite ==
    ASSUME NEW S, S \subseteq Requests
    PROVE  IsFiniteSet(S) /\ Cardinality(S) \in Nat
<1>1. N \in Int /\ 1 \in Int /\ 1 <= N + 1
  BY TraceAssumption
<1>2. IsFiniteSet(Requests)
  BY <1>1, Interval DEF Requests
<1>3. IsFiniteSet(S)
  BY <1>2, FS_Subset
<1> QED
  BY <1>3, FS_CardinalityType

LEMMA ChangeInt ==
    ASSUME NEW t
    PROVE  Change(t) \in Int
<1>1. /\ Cardinality({r \in Requests : arrival[r] = t}) \in Nat
      /\ Cardinality({r \in Requests : dispatched[r] = t}) \in Nat
  BY RequestsFinite
<1> QED
  BY <1>1 DEF Change

\* Who waits has arrived and has not been served.
LEMMA DepthCounts ==
    ASSUME HistoryInv, stage = "done", NEW t \in Nat, arrival[1] <= t
    PROVE  /\ Depths[t - arrival[1]] = Cardinality(Arrived(t)) - Cardinality(Served(t))
           /\ t - arrival[1] \in Nat /\ Depths[t - arrival[1]] \in 0 .. N
<1>1. /\ N \in Nat \ {0} /\ Len(decisions) = N
      /\ \A r \in 1 .. N : /\ arrival[r] \in Nat /\ dispatched[r] \in Nat
                          /\ arrival[r] <= dispatched[r]
  BY TimesInTheEnd
<1>2. 1 \in 1 .. N /\ arrival[1] \in Nat
  BY <1>1
<1> DEFINE n == t - arrival[1]
           W == WaitingOf(arrival, dispatched, Len(decisions), n)
<1>3. n \in Nat /\ arrival[1] + n = t
  BY <1>2
<1> HIDE DEF n
<1>4. W = Arrived(t) \ Served(t)
  <2>1. \A r \in 1 .. N : r <= N
    BY <1>1
  <2> QED
    BY <1>1, <1>3, <2>1 DEF WaitingOf, Arrived, Served, Requests
<1>5. Served(t) \subseteq Arrived(t)
  <2>1. ASSUME NEW r \in 1 .. N, dispatched[r] <= t PROVE arrival[r] <= t
    BY <1>1, <2>1
  <2> QED
    BY <2>1 DEF Served, Arrived, Requests
<1> HIDE DEF W
<1>6. /\ IsFiniteSet(W) /\ IsFiniteSet(Served(t)) /\ W \cap Served(t) = {}
      /\ Arrived(t) = W \cup Served(t)
      /\ Cardinality(W) \in Nat /\ Cardinality(Served(t)) \in Nat
  <2>1. W \subseteq Requests /\ Served(t) \subseteq Requests
    BY <1>4 DEF Arrived, Served
  <2> QED
    BY <1>4, <1>5, <2>1, RequestsFinite
<1>7. Cardinality(Arrived(t)) = Cardinality(W) + Cardinality(Served(t))
  BY <1>6, Disjoint
<1>8. Depths[n] = Cardinality(W)
  BY <1>3 DEF Depths, DepthsOf, W
<1>9. Depths[n] \in 0 .. N
  BY <1>3, DepthsTyped DEF Depths
<1> QED
  BY <1>3, <1>6, <1>7, <1>8, <1>9 DEF n

\* From one time to a later one without events between, the depth changes by
\* what happens then.
LEMMA DepthChanges ==
    ASSUME HistoryInv, stage = "done", NEW t \in Nat, NEW u \in Nat, t < u,
           \A v \in EventTimes : v <= t \/ v >= u
    PROVE  Cardinality(Arrived(u)) - Cardinality(Served(u))
              = Cardinality(Arrived(t)) - Cardinality(Served(t)) + Change(u)
<1>1. \A r \in Requests : /\ arrival[r] \in Nat /\ dispatched[r] \in Nat
                          /\ arrival[r] \in EventTimes /\ dispatched[r] \in EventTimes
  BY TimesInTheEnd DEF Requests
<1> DEFINE coming == {r \in Requests : arrival[r] = u}
           going == {r \in Requests : dispatched[r] = u}
<1>2. Arrived(u) = Arrived(t) \cup coming /\ Arrived(t) \cap coming = {}
  <2>1. ASSUME NEW r \in Requests
        PROVE  /\ arrival[r] <= u <=> (arrival[r] <= t \/ arrival[r] = u)
               /\ ~(arrival[r] <= t /\ arrival[r] = u)
    <3>1. arrival[r] \in Nat /\ (arrival[r] <= t \/ arrival[r] >= u)
      BY <1>1
    <3> QED
      BY <3>1
  <2> QED
    BY <2>1 DEF Arrived
<1>3. Served(u) = Served(t) \cup going /\ Served(t) \cap going = {}
  <2>1. ASSUME NEW r \in Requests
        PROVE  /\ dispatched[r] <= u <=> (dispatched[r] <= t \/ dispatched[r] = u)
               /\ ~(dispatched[r] <= t /\ dispatched[r] = u)
    <3>1. dispatched[r] \in Nat /\ (dispatched[r] <= t \/ dispatched[r] >= u)
      BY <1>1
    <3> QED
      BY <3>1
  <2> QED
    BY <2>1 DEF Served
<1>4. Change(u) = Cardinality(coming) - Cardinality(going)
  BY DEF Change
<1>5. /\ Arrived(t) \subseteq Requests /\ Served(t) \subseteq Requests
      /\ coming \subseteq Requests /\ going \subseteq Requests
  BY DEF Arrived, Served
<1> HIDE DEF coming, going
<1>6. /\ IsFiniteSet(Arrived(t)) /\ Cardinality(Arrived(t)) \in Nat
      /\ IsFiniteSet(Served(t)) /\ Cardinality(Served(t)) \in Nat
      /\ IsFiniteSet(coming) /\ Cardinality(coming) \in Nat
      /\ IsFiniteSet(going) /\ Cardinality(going) \in Nat
  BY <1>5, RequestsFinite
<1>7. /\ Cardinality(Arrived(u)) = Cardinality(Arrived(t)) + Cardinality(coming)
      /\ Cardinality(Served(u)) = Cardinality(Served(t)) + Cardinality(going)
  BY <1>2, <1>3, <1>6, Disjoint
<1> QED
  BY <1>4, <1>6, <1>7

\* The depth at the events, and between them.
LEMMA DepthAtEvents ==
    ASSUME HistoryInv, stage = "done"
    PROVE  /\ Depths[0] = Change(Time(1)) /\ Depths[now - arrival[1]] = 0
           /\ \A i \in 1 .. LastEvent - 1 :
                 /\ Depths[Time(i + 1) - arrival[1]]
                       = Depths[Time(i) - arrival[1]] + Change(Time(i + 1))
                 /\ \A v \in Nat : Time(i) <= v /\ v < Time(i + 1) =>
                       Depths[v - arrival[1]] = Depths[Time(i) - arrival[1]]
<1>1. /\ LastEvent \in Nat \ {0}
      /\ \A i \in 1 .. LastEvent : Time(i) \in EventTimes /\ Time(i) \in Nat
      /\ Time(1) = arrival[1]
      /\ \A i \in 1 .. LastEvent - 1 :
            /\ Time(i) < Time(i + 1)
            /\ \A t \in EventTimes : t <= Time(i) \/ t >= Time(i + 1)
  BY EventOrder
<1>2. /\ now \in Nat /\ arrival[1] \in Nat
      /\ \A t \in EventTimes : arrival[1] <= t /\ t <= now
      /\ \A r \in Requests : /\ arrival[r] \in Nat /\ dispatched[r] \in Nat
                            /\ arrival[r] \in EventTimes /\ dispatched[r] \in EventTimes
      /\ arrival[1] <= now
  <2>1. N \in Nat \ {0} /\ 1 \in 1 .. N /\ now \in EventTimes
    BY TimesInTheEnd
  <2> QED
    BY <2>1, TimesInTheEnd DEF Requests
<1>3. Depths[0] = Change(Time(1))
  <2> DEFINE b == arrival[1]
  <2>1. b - b = 0 /\ b \in Nat /\ b <= b
    BY <1>2
  <2>2. Depths[b - b] = Cardinality(Arrived(b)) - Cardinality(Served(b))
    BY <2>1, DepthCounts
  <2>3. /\ Arrived(b) = {r \in Requests : arrival[r] = b}
        /\ Served(b) = {r \in Requests : dispatched[r] = b}
    <3>1. ASSUME NEW r \in Requests
          PROVE  (arrival[r] <= b <=> arrival[r] = b) /\ (dispatched[r] <= b <=> dispatched[r] = b)
      <4>1. /\ arrival[r] \in Nat /\ b <= arrival[r]
            /\ dispatched[r] \in Nat /\ b <= dispatched[r]
        BY <1>2
      <4> QED
        BY <2>1, <4>1
    <3> QED
      BY <3>1 DEF Arrived, Served
  <2> QED
    BY <1>1, <2>1, <2>2, <2>3 DEF Change
<1>4. Depths[now - arrival[1]] = 0
  <2>1. Depths[now - arrival[1]] = Cardinality(Arrived(now)) - Cardinality(Served(now))
    BY <1>2, DepthCounts
  <2>2. Arrived(now) = Requests /\ Served(now) = Requests
    BY <1>2 DEF Arrived, Served
  <2>3. Cardinality(Requests) \in Nat
    BY RequestsFinite
  <2> QED
    BY <2>1, <2>2, <2>3
<1>5. ASSUME NEW i \in 1 .. LastEvent - 1
      PROVE  /\ Depths[Time(i + 1) - arrival[1]]
                   = Depths[Time(i) - arrival[1]] + Change(Time(i + 1))
             /\ \A v \in Nat : Time(i) <= v /\ v < Time(i + 1) =>
                   Depths[v - arrival[1]] = Depths[Time(i) - arrival[1]]
  <2> DEFINE t == Time(i)
             u == Time(i + 1)
  <2>0. i \in 1 .. LastEvent /\ i + 1 \in 1 .. LastEvent
    BY <1>1
  <2>1. /\ t \in Nat /\ u \in Nat /\ t < u /\ arrival[1] <= t /\ arrival[1] <= u
        /\ \A v \in EventTimes : v <= t \/ v >= u
    <3>1. t \in Nat /\ u \in Nat /\ t \in EventTimes /\ u \in EventTimes
      BY <1>1, <2>0
    <3> QED
      BY <1>1, <1>2, <3>1
  <2> HIDE DEF t, u
  <2>2. /\ Depths[t - arrival[1]] = Cardinality(Arrived(t)) - Cardinality(Served(t))
        /\ Depths[u - arrival[1]] = Cardinality(Arrived(u)) - Cardinality(Served(u))
    BY <2>1, DepthCounts
  <2>3. Depths[u - arrival[1]] = Depths[t - arrival[1]] + Change(u)
    BY <2>1, <2>2, DepthChanges
  <2>4. ASSUME NEW v \in Nat, t <= v, v < u
        PROVE  Depths[v - arrival[1]] = Depths[t - arrival[1]]
    <3>1. Arrived(v) = Arrived(t) /\ Served(v) = Served(t)
      <4>1. ASSUME NEW r \in Requests
            PROVE  /\ arrival[r] <= v <=> arrival[r] <= t
                   /\ dispatched[r] <= v <=> dispatched[r] <= t
        <5>1. /\ arrival[r] \in Nat /\ (arrival[r] <= t \/ arrival[r] >= u)
              /\ dispatched[r] \in Nat /\ (dispatched[r] <= t \/ dispatched[r] >= u)
          BY <1>2, <2>1
        <5> QED
          BY <2>1, <2>4, <5>1
      <4> QED
        BY <4>1 DEF Arrived, Served
    <3>2. arrival[1] <= v
      BY <1>2, <2>1, <2>4
    <3>3. Depths[v - arrival[1]] = Cardinality(Arrived(v)) - Cardinality(Served(v))
      BY <3>2, DepthCounts
    <3> QED
      BY <2>2, <3>1, <3>3
  <2> QED
    BY <2>3, <2>4 DEF t, u
<1> QED
  BY <1>3, <1>4, <1>5

-----------------------------------------------------------------------------
(* The replay of the events.                                               *)

\* The values that the loop of the replay goes through.
ReplayBegins == [depth |-> 0, peak |-> 0, time |-> [d \in 0 .. N |-> 0], sound |-> TRUE,
                 start |-> [k \in Thresholds |-> None],
                 episodes |-> [k \in Thresholds |-> <<>>]]

ReplayTurn(s, i) ==
    LET d == s.depth + Change(Time(i))
        since == IF i = 1 THEN Time(1) ELSE Time(i - 1)
        opens == {k \in Thresholds : i > 1 /\ s.depth >= k /\ s.start[k] = None}
        ends1 == {k \in Thresholds : i > 1 /\ s.depth < k /\ s.start[k] # None}
    IN [depth |-> d, peak |-> IF d > s.peak THEN d ELSE s.peak,
        time |-> [s.time EXCEPT ![s.depth] = @ + Time(i) - since],
        sound |-> s.sound /\ d >= 0,
        start |-> [k \in Thresholds |-> IF k \in opens THEN since
                     ELSE IF k \in ends1 THEN None ELSE s.start[k]],
        episodes |-> [k \in Thresholds |-> IF k \in ends1
                        THEN Append(s.episodes[k], since - s.start[k])
                        ELSE s.episodes[k]]]

ReplayLoop == CHOOSE f : f = [i \in 0 .. LastEvent |-> IF i = 0 THEN ReplayBegins
                                                      ELSE ReplayTurn(f[i - 1], i)]

Replayed == [depth : Int, peak : Int, time : [0 .. N -> Int], sound : BOOLEAN,
             start : [Thresholds -> Int], episodes : [Thresholds -> Seq(Int)]]

LEMMA ReplayUnfolds == Replay = ReplayLoop[LastEvent]
BY DEF Replay, ReplayLoop, ReplayBegins, ReplayTurn

LEMMA ReplayTurnTyped ==
    ASSUME HistoryInv, stage = "done", NEW s \in Replayed, NEW i \in 1 .. LastEvent
    PROVE  ReplayTurn(s, i) \in Replayed
<1> DEFINE d == s.depth + Change(Time(i))
           since == IF i = 1 THEN Time(1) ELSE Time(i - 1)
           opens == {k \in Thresholds : i > 1 /\ s.depth >= k /\ s.start[k] = None}
           ends1 == {k \in Thresholds : i > 1 /\ s.depth < k /\ s.start[k] # None}
           peak == IF d > s.peak THEN d ELSE s.peak
           time == [s.time EXCEPT ![s.depth] = @ + Time(i) - since]
           sound == s.sound /\ d >= 0
           start == [k \in Thresholds |-> IF k \in opens THEN since
                       ELSE IF k \in ends1 THEN None ELSE s.start[k]]
           episodes == [k \in Thresholds |-> IF k \in ends1
                          THEN Append(s.episodes[k], since - s.start[k])
                          ELSE s.episodes[k]]
<1>1. /\ s.depth \in Int /\ s.peak \in Int /\ s.time \in [0 .. N -> Int] /\ s.sound \in BOOLEAN
      /\ s.start \in [Thresholds -> Int] /\ s.episodes \in [Thresholds -> Seq(Int)]
  BY DEF Replayed
<1>2. Time(i) \in Int /\ since \in Int
  <2>1. LastEvent \in Nat \ {0} /\ \A j \in 1 .. LastEvent : Time(j) \in Nat
    BY EventOrder
  <2>2. 1 \in 1 .. LastEvent /\ (i # 1 => i - 1 \in 1 .. LastEvent)
    BY <2>1
  <2> QED
    BY <2>1, <2>2
<1>3. d \in Int
  BY <1>1, ChangeInt
<1> HIDE DEF d, since
<1>4. peak \in Int /\ sound \in BOOLEAN
  BY <1>1, <1>3
<1>5. time \in [0 .. N -> Int]
  <2>1. ASSUME NEW x \in 0 .. N PROVE s.time[x] + Time(i) - since \in Int
    <3>1. s.time[x] \in Int
      BY <1>1
    <3> QED
      BY <1>2, <3>1
  <2> QED
    BY <1>1, <2>1
<1>6. start \in [Thresholds -> Int]
  <2>1. None \in Int
    BY DEF None
  <2> QED
    BY <1>1, <1>2, <2>1
<1>7. episodes \in [Thresholds -> Seq(Int)]
  <2>1. ASSUME NEW k \in Thresholds PROVE Append(s.episodes[k], since - s.start[k]) \in Seq(Int)
    <3>1. s.episodes[k] \in Seq(Int) /\ since - s.start[k] \in Int
      BY <1>1, <1>2
    <3> QED
      BY <3>1
  <2> QED
    BY <1>1, <2>1
<1> HIDE DEF peak, time, sound, start, episodes
<1>8. [depth |-> d, peak |-> peak, time |-> time, sound |-> sound, start |-> start,
       episodes |-> episodes] \in Replayed
  BY <1>3, <1>4, <1>5, <1>6, <1>7 DEF Replayed
<1>9. ReplayTurn(s, i) = [depth |-> d, peak |-> peak, time |-> time, sound |-> sound,
                          start |-> start, episodes |-> episodes]
  BY DEF ReplayTurn, d, since, opens, ends1, peak, time, sound, start, episodes
<1> QED
  BY <1>8, <1>9

\* The loop of the replay is well defined.
LEMMA ReplayLoops ==
    ASSUME HistoryInv, stage = "done"
    PROVE  /\ ReplayLoop[0] = ReplayBegins
           /\ \A i \in 1 .. LastEvent : /\ ReplayLoop[i] = ReplayTurn(ReplayLoop[i - 1], i)
                                       /\ ReplayLoop[i] \in Replayed
<1> DEFINE L == LastEvent
           h == [n \in Nat |-> [s \in Replayed |-> IF n + 1 <= L THEN ReplayTurn(s, n + 1) ELSE s]]
           Loop(f) == f = [i \in 0 .. L |-> IF i = 0 THEN ReplayBegins
                                            ELSE ReplayTurn(f[i - 1], i)]
<1>1. L \in Nat \ {0}
  BY EventOrder
<1>2. StepsOf(h, Replayed)
  <2>1. ASSUME NEW n \in Nat, NEW s \in Replayed
        PROVE  (IF n + 1 <= L THEN ReplayTurn(s, n + 1) ELSE s) \in Replayed
    <3>1. ASSUME n + 1 <= L PROVE ReplayTurn(s, n + 1) \in Replayed
      <4>1. n + 1 \in 1 .. LastEvent
        BY <1>1, <3>1
      <4> QED
        BY <4>1, ReplayTurnTyped
    <3> QED
      BY <3>1
  <2> QED
    BY <2>1 DEF StepsOf
<1>3. ReplayBegins \in Replayed
  <2>1. <<>> \in Seq(Int) /\ None \in Int
    BY DEF None
  <2>2. /\ [d \in 0 .. N |-> 0] \in [0 .. N -> Int]
        /\ [k \in Thresholds |-> None] \in [Thresholds -> Int]
        /\ [k \in Thresholds |-> <<>>] \in [Thresholds -> Seq(Int)]
    BY <2>1
  <2> QED
    BY <2>2 DEF ReplayBegins, Replayed
<1>4. PICK g : Iterates(g, Replayed, ReplayBegins, h)
  <2> HIDE DEF h
  <2> QED
    BY <1>2, <1>3, Recursion
<1>5. /\ g[0] = ReplayBegins /\ \A n \in Nat : g[n] \in Replayed
      /\ \A n \in Nat : g[n + 1] = h[n][g[n]]
  BY <1>4 DEF Iterates
<1>6. ASSUME NEW i \in 1 .. L PROVE g[i] = ReplayTurn(g[i - 1], i)
  <2> DEFINE n == i - 1
  <2>1. n \in Nat /\ n + 1 = i /\ n + 1 <= L
    BY <1>1
  <2> HIDE DEF n, L
  <2>2. g[i] = h[n][g[n]] /\ g[n] \in Replayed
    BY <1>5, <2>1
  <2>3. h[n][g[n]] = ReplayTurn(g[n], n + 1)
    BY <2>1, <2>2
  <2> QED
    BY <2>1, <2>2, <2>3 DEF n
<1> HIDE DEF h
<1> DEFINE f == [i \in 0 .. L |-> g[i]]
<1>7. Loop(f)
  <2>1. ASSUME NEW i \in 0 .. L
        PROVE  f[i] = IF i = 0 THEN ReplayBegins ELSE ReplayTurn(f[i - 1], i)
    <3>1. CASE i = 0
      BY <1>1, <1>5, <3>1
    <3>2. CASE i # 0
      <4>1. i \in 1 .. L /\ i - 1 \in 0 .. L
        BY <1>1, <3>2
      <4>2. f[i] = g[i] /\ f[i - 1] = g[i - 1]
        BY <4>1
      <4> QED
        BY <1>6, <3>2, <4>1, <4>2
    <3> QED
      BY <3>1, <3>2
  <2> QED
    BY <2>1
<1>8. Loop(ReplayLoop)
  <2>1. \E e : Loop(e)
    BY <1>7
  <2> QED
    BY <2>1, Zenon DEF ReplayLoop
<1>9. ReplayLoop[0] = ReplayBegins /\ \A i \in 1 .. L : ReplayLoop[i] = ReplayTurn(ReplayLoop[i - 1], i)
  <2> DEFINE e == ReplayLoop
  <2>1. e = [i \in 0 .. L |-> IF i = 0 THEN ReplayBegins ELSE ReplayTurn(e[i - 1], i)]
    BY <1>8
  <2> HIDE DEF e
  <2>2. 0 \in 0 .. L /\ \A i \in 1 .. L : i \in 0 .. L /\ ~(i = 0)
    <3>1. L \in Nat
      BY <1>1
    <3> HIDE DEF L
    <3> QED
      BY <3>1
  <2> HIDE DEF L
  <2>3. e[0] = ReplayBegins
    BY <2>1, <2>2
  <2>4. ASSUME NEW i \in 1 .. L PROVE e[i] = ReplayTurn(e[i - 1], i)
    BY <2>1, <2>2
  <2> QED
    BY <2>3, <2>4 DEF e
<1>10. \A i \in 1 .. L : ReplayLoop[i] \in Replayed
  <2> DEFINE A == {n \in Nat : n <= L => ReplayLoop[n] \in Replayed}
  <2>1. 0 \in A
    BY <1>3, <1>9
  <2>2. ASSUME NEW n \in Nat, n \in A PROVE n + 1 \in A
    <3>1. n + 1 \in Nat
      OBVIOUS
    <3>2. ASSUME n + 1 <= L PROVE ReplayLoop[n + 1] \in Replayed
      <4>1. ReplayLoop[n] \in Replayed /\ n + 1 \in 1 .. LastEvent /\ (n + 1) - 1 = n
        BY <1>1, <2>2, <3>2
      <4>2. ReplayLoop[n + 1] = ReplayTurn(ReplayLoop[n], n + 1)
        BY <1>9, <4>1
      <4> QED
        BY <4>1, <4>2, ReplayTurnTyped
    <3> QED
      BY <3>1, <3>2
  <2>3. Nat \subseteq A
    <3> HIDE DEF A
    <3> QED
      BY <2>1, <2>2, NaturalsInductive
  <2> QED
    BY <1>1, <2>3
<1> QED
  BY <1>9, <1>10

\* What a turn of the loop does, from one event at t0 to the next at t1.
Turned(r, s, t0, t1) ==
    /\ r.depth = s.depth + Change(t1)
    /\ r.peak = IF r.depth > s.peak THEN r.depth ELSE s.peak
    /\ r.time = [s.time EXCEPT ![s.depth] = s.time[s.depth] + t1 - t0]
    /\ r.sound = (s.sound /\ r.depth >= 0)
    /\ r.start = [k \in Thresholds |->
                     IF s.depth >= k /\ s.start[k] = None THEN t0
                     ELSE IF s.depth < k /\ s.start[k] # None THEN None ELSE s.start[k]]
    /\ r.episodes = [k \in Thresholds |->
                        IF s.depth < k /\ s.start[k] # None
                        THEN Append(s.episodes[k], t0 - s.start[k]) ELSE s.episodes[k]]

LEMMA TurnFields ==
    ASSUME NEW s, NEW i \in Nat, i > 1
    PROVE  Turned(ReplayTurn(s, i), s, Time(i - 1), Time(i))
<1> DEFINE t0 == Time(i - 1)
           t1 == Time(i)
           d == s.depth + Change(t1)
           start == [k \in Thresholds |->
                       IF s.depth >= k /\ s.start[k] = None THEN t0
                       ELSE IF s.depth < k /\ s.start[k] # None THEN None ELSE s.start[k]]
           episodes == [k \in Thresholds |->
                          IF s.depth < k /\ s.start[k] # None
                          THEN Append(s.episodes[k], t0 - s.start[k]) ELSE s.episodes[k]]
           opens == {k \in Thresholds : i > 1 /\ s.depth >= k /\ s.start[k] = None}
           ends1 == {k \in Thresholds : i > 1 /\ s.depth < k /\ s.start[k] # None}
           since == IF i = 1 THEN Time(1) ELSE Time(i - 1)
<1>1. since = t0
  BY SMT
<1>2. [k \in Thresholds |-> IF k \in opens THEN since
                            ELSE IF k \in ends1 THEN None ELSE s.start[k]] = start
  BY <1>1
<1>3. [k \in Thresholds |-> IF k \in ends1 THEN Append(s.episodes[k], since - s.start[k])
                            ELSE s.episodes[k]] = episodes
  BY <1>1
<1>4. ReplayTurn(s, i)
         = [depth |-> d, peak |-> IF d > s.peak THEN d ELSE s.peak,
            time |-> [s.time EXCEPT ![s.depth] = s.time[s.depth] + t1 - since],
            sound |-> s.sound /\ d >= 0,
            start |-> [k \in Thresholds |-> IF k \in opens THEN since
                            ELSE IF k \in ends1 THEN None ELSE s.start[k]],
            episodes |-> [k \in Thresholds |-> IF k \in ends1
                            THEN Append(s.episodes[k], since - s.start[k])
                            ELSE s.episodes[k]]]
  BY DEF ReplayTurn
<1> HIDE DEF since, start, episodes, opens, ends1, d, t0, t1
<1>5. ReplayTurn(s, i)
         = [depth |-> d, peak |-> IF d > s.peak THEN d ELSE s.peak,
            time |-> [s.time EXCEPT ![s.depth] = s.time[s.depth] + t1 - t0],
            sound |-> s.sound /\ d >= 0, start |-> start, episodes |-> episodes]
  BY <1>1, <1>2, <1>3, <1>4
<1> QED
  BY <1>5 DEF Turned, start, episodes, d, t0, t1

\* After an event, the replay has found the history until then.
Follows(i) ==
    LET r == ReplayLoop[i]
        n == Time(i) - arrival[1]
        t == Ticks(Depths)[n]
    IN /\ r.depth = Depths[n] /\ r.sound = TRUE
       /\ r.time = t.time /\ r.episodes = t.episodes
       /\ \A k \in Thresholds :
             /\ t.current[k] <= n
             /\ t.current[k] > 0 => r.start[k] = Time(i) - t.current[k]
             /\ t.current[k] = 0 => r.start[k] = None

\* The first turn finds nothing that waited before.
LEMMA FirstTurn ==
    ASSUME HistoryInv, stage = "done"
    PROVE  LET r == ReplayLoop[1]
               b == arrival[1]
           IN /\ r.depth = 0 + Change(b) /\ r.sound = (TRUE /\ 0 + Change(b) >= 0)
              /\ r.time = [d \in 0 .. N |-> 0] /\ r.start = [k \in Thresholds |-> None]
              /\ r.episodes = [k \in Thresholds |-> <<>>]
<1> DEFINE b == arrival[1]
           s == ReplayBegins
           r == ReplayLoop[1]
<1>1. LastEvent \in Nat \ {0} /\ Time(1) = b /\ b \in Nat
  <2>1. 1 \in 1 .. N
    BY TimesInTheEnd
  <2> QED
    BY <2>1, EventOrder, TimesInTheEnd
<1>2. r = ReplayTurn(s, 1)
  <2>1. 1 \in 1 .. LastEvent /\ 1 - 1 = 0
    BY <1>1
  <2> QED
    BY <2>1, ReplayLoops
<1>3. /\ r.depth = 0 + Change(b) /\ r.sound = (TRUE /\ 0 + Change(b) >= 0)
      /\ r.time = [s.time EXCEPT ![0] = s.time[0] + b - b]
      /\ r.start = [k \in Thresholds |-> None]
      /\ r.episodes = [k \in Thresholds |-> <<>>]
  <2> DEFINE opens == {k \in Thresholds : 1 > 1 /\ 0 >= k /\ s.start[k] = None}
             ends1 == {k \in Thresholds : 1 > 1 /\ 0 < k /\ s.start[k] # None}
             start == [k \in Thresholds |-> IF k \in opens THEN b
                                            ELSE IF k \in ends1 THEN None ELSE s.start[k]]
             episodes == [k \in Thresholds |-> IF k \in ends1
                                               THEN Append(s.episodes[k], b - s.start[k])
                                               ELSE s.episodes[k]]
  <2>1. s.depth = 0
    BY DEF ReplayBegins
  <2>2. s.sound = TRUE
    BY DEF ReplayBegins
  <2>3. /\ r.depth = 0 + Change(b) /\ r.sound = (TRUE /\ 0 + Change(b) >= 0)
        /\ r.time = [s.time EXCEPT ![0] = s.time[0] + b - b]
        /\ r.start = start /\ r.episodes = episodes
    <3> HIDE DEF s, b, r
    <3> QED
      BY <1>1, <1>2, <2>1, <2>2 DEF ReplayTurn
  <2>4. opens = {} /\ ends1 = {}
    OBVIOUS
  <2>5. start = [k \in Thresholds |-> None] /\ episodes = [k \in Thresholds |-> <<>>]
    BY <2>4 DEF ReplayBegins
  <2> QED
    BY <2>3, <2>5
<1>4. r.time = [d \in 0 .. N |-> 0]
  <2>1. s.time = [d \in 0 .. N |-> 0] /\ 0 \in 0 .. N /\ 0 + b - b = 0
    BY <1>1, TraceAssumption DEF ReplayBegins
  <2> HIDE DEF s, r, b
  <2>2. [s.time EXCEPT ![0] = s.time[0] + b - b] = s.time
    BY <2>1
  <2> QED
    BY <1>3, <2>1, <2>2
<1> QED
  BY <1>3, <1>4

LEMMA FirstFollows ==
    ASSUME HistoryInv, stage = "done"
    PROVE  Follows(1)
<1> DEFINE b == arrival[1]
           r == ReplayLoop[1]
<1>1. Time(1) = b /\ b \in Nat /\ Time(1) - b = 0
  <2>1. Time(1) = b /\ 1 \in 1 .. N
    BY EventOrder, TimesInTheEnd
  <2>2. b \in Nat
    BY <2>1, TimesInTheEnd
  <2> QED
    BY <2>1, <2>2
<1>2. Depths[0] = Change(b) /\ Depths[0] \in 0 .. N /\ Ticks(Depths)[0] = NothingYet
  <2>1. Depths \in [Nat -> 0 .. N]
    BY DepthsTyped DEF Depths
  <2> QED
    BY <1>1, <2>1, DepthAtEvents, TicksRuns DEF Runs
<1>3. /\ r.depth = 0 + Change(b) /\ r.sound = (TRUE /\ 0 + Change(b) >= 0)
      /\ r.time = [d \in 0 .. N |-> 0] /\ r.start = [k \in Thresholds |-> None]
      /\ r.episodes = [k \in Thresholds |-> <<>>]
  BY FirstTurn
<1> HIDE DEF r, b
<1>4. r.depth = Depths[0] /\ r.sound = TRUE
  <2>1. r.depth = Depths[0] /\ 0 + Change(b) >= 0
    BY <1>2, <1>3
  <2>2. r.sound = TRUE
    BY <1>3, <2>1, Zenon
  <2> QED
    BY <2>1, <2>2
<1>5. r.time = NothingYet.time /\ r.episodes = NothingYet.episodes
  BY <1>3 DEF NothingYet
<1>6. \A k \in Thresholds : NothingYet.current[k] = 0 /\ r.start[k] = None
  BY <1>3 DEF NothingYet
<1> QED
  BY <1>1, <1>2, <1>4, <1>5, <1>6 DEF Follows, r, b

LEMMA NextFollows ==
    ASSUME HistoryInv, stage = "done", NEW i \in 1 .. LastEvent - 1, Follows(i)
    PROVE  Follows(i + 1)
<1> DEFINE b == arrival[1]
           t0 == Time(i)
           t1 == Time(i + 1)
           span == t1 - t0
           n == t0 - b
           s == ReplayLoop[i]
           r == ReplayLoop[i + 1]
           d == Depths[n]
           t == Ticks(Depths)[n]
           u == Ticks(Depths)[t1 - b]
<1>1. /\ i \in 1 .. LastEvent /\ i + 1 \in 1 .. LastEvent /\ i + 1 \in Nat /\ i + 1 > 1
      /\ (i + 1) - 1 = i
  BY EventOrder
<1>2. /\ b \in Nat /\ t0 \in Nat /\ t1 \in Nat /\ b <= t0 /\ t0 < t1
  <2>1. b \in EventTimes /\ EventTimes \in SUBSET Nat /\ \A v \in EventTimes : b <= v
    BY TimesInTheEnd
  <2>2. t0 \in EventTimes /\ t1 \in EventTimes /\ t0 < t1
    BY <1>1, EventOrder
  <2> HIDE DEF t0, t1, b
  <2> QED
    BY <2>1, <2>2
<1>3. Turned(r, s, t0, t1) /\ s \in Replayed
  <2>1. r = ReplayTurn(s, i + 1) /\ s \in Replayed
    BY <1>1, ReplayLoops
  <2>2. Turned(ReplayTurn(s, i + 1), s, Time((i + 1) - 1), Time(i + 1))
    BY <1>1, TurnFields
  <2> QED
    BY <1>1, <2>1, <2>2
<1>4. /\ Depths[t1 - b] = d + Change(t1)
      /\ \A v \in Nat : t0 <= v /\ v < t1 => Depths[v - b] = d
  BY DepthAtEvents
<1>5. Depths \in [Nat -> 0 .. N]
  BY DepthsTyped DEF Depths
<1>6. /\ s.depth = d /\ s.sound = TRUE /\ s.time = t.time /\ s.episodes = t.episodes
      /\ \A k \in Thresholds :
            /\ t.current[k] <= n
            /\ t.current[k] > 0 => s.start[k] = t0 - t.current[k]
            /\ t.current[k] = 0 => s.start[k] = None
  BY DEF Follows
<1> HIDE DEF b, t0, t1
<1>7. /\ n \in Nat /\ span \in Nat \ {0} /\ t1 - b = n + span /\ t1 - b \in Nat
      /\ n <= t1 - b /\ n + b = t0
  BY <1>2
<1>8. d \in 0 .. N /\ Depths[t1 - b] \in 0 .. N
  BY <1>5, <1>7
<1>9. \A j \in Nat : n <= j /\ j < n + span => Depths[j] = d
  <2>1. ASSUME NEW j \in Nat, n <= j, j < n + span PROVE Depths[j] = d
    <3>1. j + b \in Nat /\ t0 <= j + b /\ j + b < t1 /\ (j + b) - b = j
      BY <1>2, <2>1
    <3> HIDE DEF d
    <3> QED
      BY <1>4, <3>1
  <2> QED
    BY <2>1
<1> HIDE DEF n, span, s, r, d
<1>10. u = Run(t, span, d)
  <2>1. n \in Nat /\ span \in Nat \ {0} /\ d \in 0 .. N
    BY <1>7, <1>8
  <2>2. Ticks(Depths)[n + span] = Run(Ticks(Depths)[n], span, d)
    BY <1>5, <1>9, <2>1, TicksConstant
  <2> QED
    BY <1>7, <2>2
<1>11. t \in Measured
  BY <1>5, <1>7, TicksRuns DEF Runs
<1> HIDE DEF t, u
<1>12. \A k \in Thresholds : t.current[k] \in Nat /\ k \in Nat /\ k >= 1
  BY <1>11, MeasuredFields DEF Thresholds
<1>13. r.depth = Depths[t1 - b] /\ r.sound = TRUE
  <2>1. r.depth = d + Change(t1)
    BY <1>3, <1>6 DEF Turned
  <2>2. r.depth = Depths[t1 - b] /\ r.depth >= 0
    BY <1>4, <1>8, <2>1
  <2>3. r.sound = (s.sound /\ r.depth >= 0)
    BY <1>3, Zenon DEF Turned
  <2>4. r.sound = TRUE
    BY <1>6, <2>2, <2>3, Zenon
  <2> QED
    BY <2>2, <2>4
<1>14. r.time = u.time
  <2>1. t.time \in [0 .. N -> Nat]
    BY <1>11, MeasuredFields
  <2>2. r.time = [t.time EXCEPT ![d] = t.time[d] + t1 - t0]
    BY <1>3, <1>6 DEF Turned
  <2>3. t.time[d] + t1 - t0 = t.time[d] + span
    <3>1. t.time[d] \in Nat
      BY <1>8, <2>1
    <3> QED
      BY <1>2, <3>1 DEF span
  <2>4. u.time = [t.time EXCEPT ![d] = t.time[d] + span]
    BY <1>10 DEF Run
  <2> QED
    BY <2>2, <2>3, <2>4
<1>15. ASSUME NEW k \in Thresholds
       PROVE  /\ u.current[k] <= t1 - b
              /\ u.current[k] > 0 => r.start[k] = t1 - u.current[k]
              /\ u.current[k] = 0 => r.start[k] = None
              /\ r.episodes[k] = u.episodes[k]
  <2>1. r.start[k] = IF d >= k /\ s.start[k] = None THEN t0
                     ELSE IF d < k /\ s.start[k] # None THEN None ELSE s.start[k]
    BY <1>3, <1>6 DEF Turned
  <2>2. r.episodes[k] = IF d < k /\ s.start[k] # None
                        THEN Append(t.episodes[k], t0 - s.start[k]) ELSE t.episodes[k]
    BY <1>3, <1>6 DEF Turned
  <2>3. u.current[k] = IF d >= k THEN t.current[k] + span ELSE 0
    BY <1>10 DEF Run
  <2>4. u.episodes[k] = IF d < k /\ t.current[k] > 0
                        THEN Append(t.episodes[k], t.current[k]) ELSE t.episodes[k]
    BY <1>10 DEF Run
  <2>5. /\ t.current[k] \in Nat /\ k \in Nat /\ d \in Nat /\ t.current[k] <= n
        /\ t.current[k] > 0 => s.start[k] = t0 - t.current[k]
        /\ t.current[k] = 0 => s.start[k] = None
    BY <1>6, <1>8, <1>12
  <2>6. t.current[k] > 0 => s.start[k] # None /\ t0 - s.start[k] = t.current[k]
    <3>1. ASSUME t.current[k] > 0 PROVE s.start[k] # None /\ t0 - s.start[k] = t.current[k]
      <4>1. s.start[k] = t0 - t.current[k]
        BY <2>5, <3>1
      <4>2. t.current[k] <= n /\ n + b = t0
        BY <1>7, <2>5
      <4>3. t0 - t.current[k] \in Nat /\ t0 - (t0 - t.current[k]) = t.current[k]
        BY <1>2, <1>7, <2>5, <4>2
      <4> QED
        BY <4>1, <4>3 DEF None
    <3> QED
      BY <3>1
  <2>7. r.episodes[k] = u.episodes[k]
    <3>1. CASE t.current[k] > 0
      BY <2>2, <2>4, <2>6, <3>1
    <3>2. CASE t.current[k] = 0
      BY <2>2, <2>4, <2>5, <3>2
    <3> QED
      BY <2>5, <3>1, <3>2
  <2>8. CASE d < k
    <3>1. ~(d >= k) /\ u.current[k] = 0
      BY <2>3, <2>5, <2>8
    <3>2. r.start[k] = None
      BY <2>1, <2>8, <3>1
    <3> QED
      BY <1>7, <2>7, <3>1, <3>2
  <2>9. CASE d >= k
    <3>1. ~(d < k) /\ u.current[k] = t.current[k] + span
      BY <2>3, <2>5, <2>9
    <3>2. u.current[k] > 0 /\ u.current[k] <= t1 - b
      BY <1>7, <2>5, <3>1
    <3>3. r.start[k] = t1 - u.current[k]
      <4>1. CASE t.current[k] = 0
        <5>1. r.start[k] = t0
          BY <2>1, <2>5, <2>9, <4>1
        <5> QED
          BY <1>2, <3>1, <4>1, <5>1 DEF span
      <4>2. CASE t.current[k] > 0
        <5>1. r.start[k] = t0 - t.current[k]
          BY <2>1, <2>5, <2>6, <3>1, <4>2
        <5> QED
          BY <1>2, <2>5, <3>1, <5>1 DEF span
      <4> QED
        BY <2>5, <4>1, <4>2
    <3> QED
      BY <2>7, <3>2, <3>3
  <2> QED
    BY <2>5, <2>8, <2>9
<1>16. r.episodes = u.episodes
  <2>1. /\ r.episodes = [k \in Thresholds |-> r.episodes[k]]
        /\ u.episodes = [k \in Thresholds |-> u.episodes[k]]
    BY <1>3, <1>10 DEF Turned, Run
  <2> QED
    BY <1>15, <2>1
<1>17. \A k \in Thresholds : /\ u.current[k] <= t1 - b
                             /\ u.current[k] > 0 => r.start[k] = t1 - u.current[k]
                             /\ u.current[k] = 0 => r.start[k] = None
  BY <1>15
<1> QED
  BY <1>13, <1>14, <1>16, <1>17, Zenon DEF Follows, r, u, t1, b

LEMMA AllFollow ==
    ASSUME HistoryInv, stage = "done"
    PROVE  \A i \in 1 .. LastEvent : Follows(i)
<1> DEFINE A == {n \in Nat : n + 1 <= LastEvent => Follows(n + 1)}
<1>1. LastEvent \in Nat \ {0}
  BY EventOrder
<1>2. 0 \in A
  <2>1. 0 + 1 = 1
    OBVIOUS
  <2> QED
    BY <2>1, FirstFollows
<1>3. ASSUME NEW n \in Nat, n \in A PROVE n + 1 \in A
  <2>1. n + 1 \in Nat
    OBVIOUS
  <2>2. ASSUME (n + 1) + 1 <= LastEvent PROVE Follows((n + 1) + 1)
    <3>1. n + 1 \in 1 .. LastEvent - 1 /\ Follows(n + 1)
      BY <1>1, <1>3, <2>2
    <3> QED
      BY <3>1, NextFollows
  <2> QED
    BY <2>1, <2>2
<1>4. Nat \subseteq A
  <2> HIDE DEF A
  <2> QED
    BY <1>2, <1>3, NaturalsInductive
<1>5. ASSUME NEW i \in 1 .. LastEvent PROVE Follows(i)
  <2>1. i - 1 \in Nat /\ (i - 1) + 1 = i /\ i - 1 \in A
    BY <1>1, <1>4
  <2> QED
    BY <1>1, <2>1
<1> QED
  BY <1>5

-----------------------------------------------------------------------------
(* The replay of one threshold at a time.                                  *)

OneBegins == [depth |-> 0, start |-> None, episodes |-> <<>>]

OneTurn(s, k, i) ==
    LET d == s.depth + Change(Time(i))
    IN IF i > 1 /\ s.depth >= k /\ s.start = None
       THEN [s EXCEPT !.depth = d, !.start = Time(i - 1)]
       ELSE IF i > 1 /\ s.depth < k /\ s.start # None
       THEN [depth |-> d, start |-> None,
             episodes |-> Append(s.episodes, Time(i - 1) - s.start)]
       ELSE [s EXCEPT !.depth = d]

OneLoop(k) == CHOOSE f : f = [i \in 0 .. LastEvent |-> IF i = 0 THEN OneBegins
                                                      ELSE OneTurn(f[i - 1], k, i)]

OneEpisodes(g) == IF g.start = None THEN g.episodes
                  ELSE Append(g.episodes, Time(LastEvent) - g.start)

\* The same, taken from the replay of all thresholds.
OneOf(k, i) == [depth |-> ReplayLoop[i].depth, start |-> ReplayLoop[i].start[k],
                episodes |-> ReplayLoop[i].episodes[k]]

LEMMA ReconstructedUnfolds ==
    ASSUME NEW k
    PROVE  Reconstructed(k) = OneEpisodes(OneLoop(k)[LastEvent])
BY DEF Reconstructed, OneEpisodes, OneLoop, OneBegins, OneTurn

LEMMA OneTurns ==
    ASSUME HistoryInv, stage = "done", NEW k \in Thresholds
    PROVE  /\ OneOf(k, 0) = OneBegins
           /\ \A i \in 1 .. LastEvent : OneOf(k, i) = OneTurn(OneOf(k, i - 1), k, i)
<1>0. LastEvent \in Nat \ {0} /\ Time(1) = arrival[1] /\ k \in Nat
  BY EventOrder DEF Thresholds
<1>1. OneOf(k, 0) = OneBegins
  <2>1. ReplayLoop[0] = ReplayBegins
    BY ReplayLoops
  <2> QED
    BY <2>1 DEF OneOf, OneBegins, ReplayBegins
<1>2. OneOf(k, 1) = OneTurn(OneOf(k, 1 - 1), k, 1)
  <2> DEFINE r == ReplayLoop[1]
             d == 0 + Change(Time(1))
  <2>1. r.depth = d /\ r.start[k] = None /\ r.episodes[k] = <<>>
    BY <1>0, FirstTurn
  <2>2. 1 - 1 = 0 /\ ~(1 > 1)
    OBVIOUS
  <2>3. OneTurn(OneBegins, k, 1) = [OneBegins EXCEPT !.depth = OneBegins.depth + Change(Time(1))]
    BY <2>2 DEF OneTurn
  <2>4. OneTurn(OneBegins, k, 1) = [depth |-> d, start |-> None, episodes |-> <<>>]
    BY <2>3 DEF OneBegins
  <2> HIDE DEF r, d
  <2> QED
    BY <1>1, <2>1, <2>2, <2>4 DEF OneOf, r
<1>3. ASSUME NEW i \in 1 .. LastEvent, i # 1
      PROVE  OneOf(k, i) = OneTurn(OneOf(k, i - 1), k, i)
  <2> DEFINE r == ReplayLoop[i]
             s == ReplayLoop[i - 1]
             o == OneOf(k, i - 1)
             d == s.depth + Change(Time(i))
  <2>1. i \in Nat /\ i > 1 /\ i - 1 \in 1 .. LastEvent
    BY <1>0, <1>3
  <2>2. Turned(r, s, Time(i - 1), Time(i)) /\ s.depth \in Int
    <3>1. r = ReplayTurn(s, i) /\ s \in Replayed
      BY <2>1, ReplayLoops
    <3> QED
      BY <2>1, <3>1, TurnFields DEF Replayed
  <2>3. /\ r.depth = d
        /\ r.start[k] = IF s.depth >= k /\ s.start[k] = None THEN Time(i - 1)
                        ELSE IF s.depth < k /\ s.start[k] # None THEN None ELSE s.start[k]
        /\ r.episodes[k] = IF s.depth < k /\ s.start[k] # None
                           THEN Append(s.episodes[k], Time(i - 1) - s.start[k])
                           ELSE s.episodes[k]
    BY <2>2 DEF Turned
  <2>4. o = [depth |-> s.depth, start |-> s.start[k], episodes |-> s.episodes[k]]
    BY DEF OneOf
  <2>5. o.depth = s.depth /\ o.start = s.start[k] /\ o.episodes = s.episodes[k]
    BY <2>4
  <2> HIDE DEF r, s, o
  <2>6. CASE s.depth >= k /\ s.start[k] = None
    <3>1. ~(s.depth < k)
      BY <1>0, <2>2, <2>6
    <3>2. OneTurn(o, k, i) = [o EXCEPT !.depth = d, !.start = Time(i - 1)]
      BY <2>1, <2>5, <2>6 DEF OneTurn
    <3> DEFINE p == [o EXCEPT !.depth = d]
               z == Time(i - 1)
    <3>3. p = [depth |-> d, start |-> s.start[k], episodes |-> s.episodes[k]]
      BY <2>4
    <3>4. [[o EXCEPT !.depth = d] EXCEPT !.start = z] = [o EXCEPT !.depth = d, !.start = z]
      OBVIOUS
    <3> HIDE DEF p, z, d
    <3>5. [p EXCEPT !.start = z] = [depth |-> d, start |-> z, episodes |-> s.episodes[k]]
      BY <3>3
    <3>6. OneTurn(o, k, i) = [depth |-> d, start |-> z, episodes |-> s.episodes[k]]
      BY <3>2, <3>4, <3>5 DEF p, z, d
    <3> QED
      BY <2>3, <2>6, <3>1, <3>6 DEF OneOf, r, o, d, z
  <2>7. CASE s.depth < k /\ s.start[k] # None
    <3>1. ~(s.depth >= k)
      BY <1>0, <2>2, <2>7
    <3>2. OneTurn(o, k, i) = [depth |-> d, start |-> None,
                              episodes |-> Append(s.episodes[k], Time(i - 1) - s.start[k])]
      BY <2>1, <2>5, <2>7, <3>1 DEF OneTurn
    <3> QED
      BY <2>3, <2>7, <3>1, <3>2 DEF OneOf, r, o
  <2>8. CASE ~(s.depth >= k /\ s.start[k] = None) /\ ~(s.depth < k /\ s.start[k] # None)
    <3>1. OneTurn(o, k, i) = [o EXCEPT !.depth = d]
      BY <2>5, <2>8 DEF OneTurn
    <3>2. [o EXCEPT !.depth = d] = [depth |-> d, start |-> s.start[k], episodes |-> s.episodes[k]]
      BY <2>4
    <3> QED
      BY <2>3, <2>8, <3>1, <3>2 DEF OneOf, r, o
  <2> QED
    BY <2>6, <2>7, <2>8
<1> QED
  BY <1>1, <1>2, <1>3

\* Both replays go through the same values.
LEMMA OneFollows ==
    ASSUME HistoryInv, stage = "done", NEW k \in Thresholds
    PROVE  OneLoop(k)[LastEvent] = OneOf(k, LastEvent)
<1> DEFINE L == LastEvent
           Loop(f) == f = [i \in 0 .. L |-> IF i = 0 THEN OneBegins ELSE OneTurn(f[i - 1], k, i)]
           f == [i \in 0 .. L |-> OneOf(k, i)]
           e == OneLoop(k)
<1>1. L \in Nat \ {0}
  BY EventOrder
<1>2. OneOf(k, 0) = OneBegins /\ \A i \in 1 .. L : OneOf(k, i) = OneTurn(OneOf(k, i - 1), k, i)
  BY OneTurns
<1> HIDE DEF L
<1>3. \A i \in 0 .. L : i # 0 => i \in 1 .. L /\ i - 1 \in 0 .. L
  BY <1>1
<1>4. Loop(f)
  <2>1. ASSUME NEW i \in 0 .. L
        PROVE  f[i] = IF i = 0 THEN OneBegins ELSE OneTurn(f[i - 1], k, i)
    <3>1. CASE i = 0
      BY <1>2, <3>1
    <3>2. CASE i # 0
      <4>1. f[i] = OneOf(k, i) /\ f[i - 1] = OneOf(k, i - 1) /\ i \in 1 .. L
        BY <1>3, <3>2
      <4> QED
        BY <1>2, <3>2, <4>1
    <3> QED
      BY <3>1, <3>2
  <2> QED
    BY <2>1
<1>5. Loop(e)
  <2>1. \E g : Loop(g)
    BY <1>4
  <2> QED
    BY <2>1, Zenon DEF OneLoop, L
<1>6. ASSUME NEW i \in 0 .. L
      PROVE  e[i] = IF i = 0 THEN OneBegins ELSE OneTurn(e[i - 1], k, i)
  <2> HIDE DEF e
  <2> QED
    BY <1>5
<1> DEFINE A == {n \in Nat : n <= L => e[n] = OneOf(k, n)}
<1> HIDE DEF e, f
<1>7. 0 \in A
  <2>1. 0 \in 0 .. L
    BY <1>1
  <2> QED
    BY <1>2, <1>6, <2>1
<1>8. ASSUME NEW n \in Nat, n \in A PROVE n + 1 \in A
  <2>1. n + 1 \in Nat
    OBVIOUS
  <2>2. ASSUME n + 1 <= L PROVE e[n + 1] = OneOf(k, n + 1)
    <3>1. n + 1 \in 1 .. L /\ n + 1 \in 0 .. L /\ ~(n + 1 = 0) /\ (n + 1) - 1 = n /\ n <= L
      BY <1>1, <2>2
    <3>2. e[n] = OneOf(k, n)
      BY <1>8, <3>1
    <3>3. e[n + 1] = OneTurn(e[n], k, n + 1)
      BY <1>6, <3>1
    <3>4. OneOf(k, n + 1) = OneTurn(OneOf(k, n), k, n + 1)
      BY <1>2, <3>1
    <3> QED
      BY <3>2, <3>3, <3>4
  <2> QED
    BY <2>1, <2>2
<1>9. Nat \subseteq A
  <2> HIDE DEF A
  <2> QED
    BY <1>7, <1>8, NaturalsInductive
<1>10. e[L] = OneOf(k, L)
  BY <1>1, <1>9
<1> QED
  BY <1>10 DEF e, L

-----------------------------------------------------------------------------
(* The probe and those who read the times afterwards agree.                *)

LEMMA ReplayInTheEnd ==
    ASSUME TickInv, stage = "done"
    PROVE  /\ Replay.sound = TRUE /\ Replay.depth = 0
           /\ stats.depthTime = Replay.time
           /\ \A k \in Thresholds : /\ stats.episodes[k] = ReplayEpisodes(Replay, k)
                                   /\ stats.episodes[k] = Reconstructed(k)
<1> DEFINE L == LastEvent
           n == now - arrival[1]
           t == Ticks(Depths)[n]
<1>1. HistoryInv /\ stats.depthTime = t.time /\ stats.episodes = Closed(t)
  BY DEF TickInv, SoFar
<1>2. L \in 1 .. L /\ Time(L) = now
  <2>1. L \in Nat \ {0} /\ Time(L) = now
    BY <1>1, EventOrder
  <2> QED
    BY <2>1
<1>3. Replay = ReplayLoop[L]
  BY ReplayUnfolds
<1>4. Follows(L)
  BY <1>1, <1>2, AllFollow
<1>5. /\ Replay.depth = Depths[n] /\ Replay.sound = TRUE
      /\ Replay.time = t.time /\ Replay.episodes = t.episodes
      /\ \A k \in Thresholds :
            /\ t.current[k] <= n
            /\ t.current[k] > 0 => Replay.start[k] = now - t.current[k]
            /\ t.current[k] = 0 => Replay.start[k] = None
  BY <1>2, <1>3, <1>4 DEF Follows
<1>6. Depths[n] = 0
  BY <1>1, DepthAtEvents
<1>7. now \in Nat /\ arrival[1] \in Nat /\ now >= arrival[1] /\ n \in Nat
  <2>1. now \in Nat /\ arrival[1] \in Nat /\ now >= arrival[1]
    BY Numbers DEF TickInv, HistoryInv, TraceInv
  <2> QED
    BY <2>1
<1>8. \A k \in Thresholds : t.current[k] \in Nat
  <2>1. Depths \in [Nat -> 0 .. N]
    BY DepthsTyped DEF Depths
  <2>2. t \in Measured
    BY <1>7, <2>1, TicksRuns DEF Runs
  <2> HIDE DEF t
  <2> QED
    BY <2>2, MeasuredFields
<1> HIDE DEF t
<1>9. ASSUME NEW k \in Thresholds
      PROVE  stats.episodes[k] = ReplayEpisodes(Replay, k)
  <2>1. stats.episodes[k] = IF t.current[k] > 0 THEN Append(t.episodes[k], t.current[k])
                            ELSE t.episodes[k]
    BY <1>1 DEF Closed
  <2>2. CASE t.current[k] = 0
    <3>1. Replay.start[k] = None
      BY <1>5, <2>2
    <3> QED
      BY <1>5, <2>1, <2>2, <3>1 DEF ReplayEpisodes
  <2>3. CASE t.current[k] > 0
    <3>1. Replay.start[k] = now - t.current[k] /\ t.current[k] <= n /\ t.current[k] \in Nat
      BY <1>5, <1>8, <2>3
    <3>2. now - t.current[k] \in Nat /\ now - (now - t.current[k]) = t.current[k]
      BY <1>7, <3>1
    <3>3. Replay.start[k] # None /\ now - Replay.start[k] = t.current[k]
      BY <3>1, <3>2 DEF None
    <3>4. ReplayEpisodes(Replay, k) = Append(Replay.episodes[k], Time(L) - Replay.start[k])
      BY <3>3 DEF ReplayEpisodes
    <3> QED
      BY <1>2, <1>5, <2>1, <2>3, <3>3, <3>4
  <2> QED
    BY <1>8, <2>2, <2>3
<1>10. ASSUME NEW k \in Thresholds
       PROVE  Reconstructed(k) = ReplayEpisodes(Replay, k)
  <2>1. Reconstructed(k) = OneEpisodes(OneOf(k, L))
    BY <1>1, OneFollows, ReconstructedUnfolds
  <2>2. OneOf(k, L) = [depth |-> Replay.depth, start |-> Replay.start[k],
                       episodes |-> Replay.episodes[k]]
    BY <1>3 DEF OneOf
  <2> QED
    BY <2>1, <2>2 DEF OneEpisodes, ReplayEpisodes
<1> QED
  BY <1>1, <1>5, <1>6, <1>9, <1>10

\* The three programs that cut the history into episodes agree, for each of the
\* thresholds, and none of them raises.
THEOREM ReplaysAgree == TraceSpec => []EpisodesAgree
<1>1. Init => TickInv
  BY TicksStart
<1>2. TickInv /\ [TraceNext]_vars => TickInv'
  BY TicksKept
<1>3. TickInv => EpisodesAgree
  <2> SUFFICES ASSUME TickInv, stage = "done"
               PROVE  /\ now = LastDispatch /\ Replay.sound /\ Replay.depth = 0
                      /\ \A k \in Thresholds : /\ stats.episodes[k] = ReplayEpisodes(Replay, k)
                                              /\ stats.episodes[k] = Reconstructed(k)
    BY DEF EpisodesAgree
  <2>1. now = LastDispatch
    BY AtTheEnd DEF TickInv
  <2> QED
    BY <2>1, ReplayInTheEnd
<1> QED
  BY <1>1, <1>2, <1>3, PTL DEF TraceSpec

\* The integral of the depth, as the probe and the replay compute it, is the sum
\* of the waits that the metrics report.
THEOREM IntegralIsTheWaits == TraceSpec => []LittlesLaw
<1>1. Init => TickInv /\ IntegralInv
  BY TicksStart, IntegralStarts
<1>2. TickInv /\ IntegralInv /\ [TraceNext]_vars => TickInv' /\ IntegralInv'
  BY TicksKept, IntegralKept
<1>3. TickInv /\ IntegralInv => LittlesLaw
  BY ReplayInTheEnd, IntegralAtTheEnd DEF LittlesLaw
<1> QED
  BY <1>1, <1>2, <1>3, PTL DEF TraceSpec

-----------------------------------------------------------------------------
(* The largest depth.                                                      *)

\* P is the largest of the depths D during the units of time in S.
Largest(P, D, S) == /\ \A n \in S : D[n] <= P
                    /\ P = 0 \/ \E n \in S : D[n] = P

\* The units of time whose depth has been noted: at the top of the loop, the one
\* that begins is among them.
Noted == {n \in Nat : /\ n <= now - arrival[1]
                      /\ stage \in {"freed", "arrived"} => n # now - arrival[1]}

PeakInv ==
    /\ TickInv
    /\ next = 1 => stats.peak = 0
    /\ next > 1 => Largest(stats.peak, Depths, Noted)
    /\ next > 1 /\ stage = "freed" => Len(waiting) <= stats.peak

LEMMA PeakStarts == Init => PeakInv
<1> SUFFICES ASSUME Init PROVE PeakInv
  OBVIOUS
<1>1. next = 1 /\ stats.peak = 0
  BY DEF Init, FreshStats
<1> QED
  BY <1>1, TicksStart DEF PeakInv

\* While time passes the depth has been noted.
LEMMA AdvanceInPeak ==
    ASSUME PeakInv, Advance
    PROVE  PeakInv'
<1> DEFINE b == arrival[1]
           n == now - b
<1>1. /\ TickInv /\ TickInv' /\ HistoryInv /\ now >= arrival[1] /\ TraceTypes /\ EventsAhead
      /\ InOrder /\ UpToDate /\ BeginAndEnd /\ stage = "top" /\ stage' = "freed" /\ Unfinished
  BY AdvanceInTicks DEF PeakInv, TickInv, HistoryInv, TraceInv, Advance
<1>2. /\ now' \in Nat /\ now' >= now
      /\ decisions = <<>> => now' = now
      /\ now' = now => stats' = stats
      /\ now' # now => now' - now \in Nat \ {0}
      /\ stats' = AddInterval(stats, now' - now, depth, level)
      /\ level \in 0 .. 3 /\ stats \in Statistics /\ depth \in 0 .. N
  BY <1>1, AdvanceTime
<1>3. /\ now \in Nat /\ b \in Nat /\ next \in Nat \ {0} /\ n \in Nat
      /\ Len(decisions) \in Nat /\ Len(waiting) \in Nat
  <2>1. /\ now \in Nat /\ b \in Nat /\ next \in Nat \ {0}
        /\ Len(decisions) \in Nat /\ Len(waiting) \in Nat
    BY <1>1, Numbers
  <2> QED
    BY <1>1, <2>1
<1>4. UNCHANGED <<arrival, dispatched, decisions, next, waiting>> /\ now' = Min(NextEvents)
  BY DEF Advance
<1>5. Depths' = Depths
  BY <1>4 DEF Depths, DepthsOf, WaitingOf
<1>6. CASE next = 1
  <2>1. decisions = <<>>
    <3>1. Len(waiting) = next - 1 - Len(decisions)
      BY <1>1 DEF InOrder
    <3>2. Len(decisions) = 0 /\ decisions \in Seq(DecisionRecord)
      BY <1>1, <1>3, <1>6, <3>1 DEF TraceTypes
    <3> QED
      BY <3>2
  <2>2. stats' = stats /\ next' = 1
    BY <1>2, <1>4, <1>6, <2>1
  <2>3. stats.peak = 0
    BY <1>6 DEF PeakInv
  <2> QED
    BY <1>1, <2>2, <2>3 DEF PeakInv
<1>7. CASE next > 1
  <2>1. now' > now
    <3>1. \A r \in next .. N : arrival[r] > now
      BY <1>1, <1>7 DEF UpToDate
    <3>2. \A r \in InFlight : ends[r] > now
      BY DEF InFlight
    <3>3. now' \in NextEvents
      BY <1>1, <1>4, NextEventAhead
    <3> QED
      BY <3>1, <3>2, <3>3 DEF NextEvents
  <2> DEFINE span == now' - now
             P == stats.peak
  <2>2. span \in Nat \ {0} /\ IntervalAdded(stats', stats, span, depth, level)
    <3>1. \A x, y \in Nat : y > x => y - x \in Nat \ {0}
      OBVIOUS
    <3>2. span \in Nat \ {0}
      BY <1>2, <1>3, <2>1, <3>1
    <3> QED
      BY <1>2, <3>2, AddIntervalFields
  <2>3. depth = Len(waiting) /\ Largest(P, Depths, Noted)
    BY <1>1, <1>7 DEF UpToDate, PeakInv
  <2>4. ASSUME NEW i \in Nat, n <= i, b + i < now' PROVE Depths[i] = depth
    BY <1>1, <2>4, DepthStays
  <2>5. Noted = {i \in Nat : i <= n}
    BY <1>1 DEF Noted
  <2>6. Noted' = {i \in Nat : i <= now' - b /\ i # now' - b}
    BY <1>1, <1>4 DEF Noted
  <2>7. depth <= P /\ P \in Nat
    <3>1. n \in Noted
      BY <1>3, <2>5
    <3>2. n <= n /\ b + n < now'
      BY <1>2, <1>3, <2>1
    <3> HIDE DEF n, b
    <3>3. Depths[n] = depth
      BY <1>3, <2>4, <3>2
    <3> QED
      BY <1>2, <2>3, <3>1, <3>3 DEF Largest, Statistics
  <2>8. stats'.peak = P
    BY <1>2, <2>2, <2>7 DEF IntervalAdded
  <2>9. Largest(P, Depths, Noted')
    <3>1. ASSUME NEW i \in Noted' PROVE Depths[i] <= P
      <4>1. i \in Nat /\ i <= now' - b /\ i # now' - b
        BY <2>6
      <4>2. CASE i <= n
        BY <2>3, <2>5, <4>1, <4>2 DEF Largest
      <4>3. CASE ~(i <= n)
        <5>1. \A x, y \in Nat : i <= y - x /\ i # y - x => x + i < y
          BY <4>1
        <5>2. n <= i /\ b + i < now'
          <6>1. b + i < now'
            BY <1>2, <1>3, <4>1, <5>1
          <6>2. n <= i
            BY <1>3, <4>1, <4>3
          <6> QED
            BY <6>1, <6>2
        <5> QED
          BY <2>4, <2>7, <4>1, <5>2
      <4> QED
        BY <4>2, <4>3
    <3>2. ASSUME NEW i \in Noted PROVE i \in Noted'
      <4>1. \A x, y, z \in Nat : /\ x < z /\ y <= x - b => y <= z - b /\ y # z - b
        BY <1>3
      <4>2. i \in Nat /\ i <= now - b
        BY <2>5
      <4> QED
        BY <1>2, <1>3, <2>1, <2>6, <4>1, <4>2
    <3> QED
      BY <2>3, <3>1, <3>2 DEF Largest
  <2> QED
    BY <1>1, <1>4, <1>5, <1>7, <2>3, <2>7, <2>8, <2>9 DEF PeakInv
<1> QED
  BY <1>3, <1>6, <1>7

\* What is dispatched now has waited before.
LEMMA DispatchInPeak ==
    ASSUME PeakInv, Dispatch
    PROVE  PeakInv'
<1> DEFINE n == now - arrival[1]
<1>1. /\ TickInv /\ TickInv' /\ HistoryInv /\ HistoryInv' /\ TraceTypes /\ InOrder /\ InOrder'
      /\ now >= arrival[1] /\ stage \in {"freed", "arrived"}
  BY DispatchInTicks DEF PeakInv, TickInv, HistoryInv, TraceInv, Dispatch
<1>2. UNCHANGED <<now, arrival, next, stage, stats>> /\ waiting' = Tail(waiting) /\ waiting # <<>>
  BY DEF Dispatch
<1>3. /\ now \in Nat /\ arrival[1] \in Nat /\ next \in Nat \ {0} /\ n \in Nat
      /\ Len(decisions) \in Nat /\ waiting \in Seq(Nat) /\ Len(waiting) \in Nat
  <2>1. /\ now \in Nat /\ arrival[1] \in Nat /\ next \in Nat \ {0}
        /\ Len(decisions) \in Nat /\ waiting \in Seq(Nat) /\ Len(waiting) \in Nat
    BY <1>1, Numbers
  <2> QED
    BY <1>1, <2>1
<1>4. Len(waiting') <= Len(waiting) /\ Len(waiting) > 0
  BY <1>2, <1>3
<1>5. next > 1
  <2>1. Len(waiting) = next - 1 - Len(decisions)
    BY <1>1 DEF InOrder
  <2> QED
    BY <1>3, <1>4, <2>1
<1>6. Noted' = Noted /\ \A i \in Noted : i \in Nat /\ i <= n /\ i # n
  BY <1>1, <1>2 DEF Noted
<1>7. \A i \in Noted : Depths'[i] = Depths[i]
  <2>1. \A i \in Nat : i < n => Depths[i] = Depths'[i]
    BY <1>1, DispatchKeepsPast
  <2> HIDE DEF n
  <2> QED
    BY <1>3, <1>6, <2>1
<1>8. stats.peak \in Nat
  BY <1>1 DEF InOrder, Statistics
<1>9. Largest(stats.peak, Depths', Noted')
  <2>1. Largest(stats.peak, Depths, Noted)
    BY <1>5 DEF PeakInv
  <2> QED
    BY <1>6, <1>7, <2>1 DEF Largest
<1>10. stage' = "freed" => Len(waiting') <= stats'.peak
  <2>1. stage = "freed" => Len(waiting) <= stats.peak
    BY <1>5 DEF PeakInv
  <2>2. Len(waiting') \in Nat
    BY <1>2, <1>3
  <2> QED
    BY <1>2, <1>3, <1>4, <1>8, <2>1, <2>2
<1> QED
  BY <1>1, <1>2, <1>3, <1>5, <1>9, <1>10 DEF PeakInv

\* What waits when no more can be dispatched is the depth of the unit that begins.
LEMMA SettleInPeak ==
    ASSUME PeakInv, Settle
    PROVE  PeakInv'
<1> DEFINE n == now - arrival[1]
           P == stats.peak
           w == Len(waiting)
<1>1. /\ TickInv /\ TickInv' /\ HistoryInv /\ HistoryInv' /\ TraceTypes /\ InOrder
      /\ UpToDate /\ BeginAndEnd /\ now >= arrival[1] /\ stage \in {"freed", "arrived"}
  BY RestInTicks DEF PeakInv, TickInv, HistoryInv, TraceInv, Settle
<1>2. /\ UNCHANGED <<now, arrival, dispatched, decisions>>
      /\ stats' = [stats EXCEPT !.peak = IF w > @ THEN w ELSE @]
      /\ stage = "freed" => stage' = "arrived"
      /\ stage = "arrived" => stage' = "top" /\ UNCHANGED <<waiting, next>>
  BY DEF Settle
<1>3. /\ now \in Nat /\ arrival[1] \in Nat /\ next \in Nat \ {0} /\ n \in Nat
      /\ Len(decisions) \in Nat /\ w \in Nat
  <2>1. /\ now \in Nat /\ arrival[1] \in Nat /\ next \in Nat \ {0}
        /\ Len(decisions) \in Nat /\ w \in Nat
    BY <1>1, Numbers
  <2> QED
    BY <1>1, <2>1
<1>4. P \in Nat /\ stats'.peak = IF w > P THEN w ELSE P
  <2>1. stats \in Statistics
    BY <1>1 DEF InOrder
  <2> QED
    BY <1>2, <2>1 DEF Statistics
<1>5. Depths' = Depths /\ w = next - 1 - Len(decisions)
  BY <1>1, <1>2 DEF Depths, DepthsOf, WaitingOf, InOrder
<1> HIDE DEF P
<1>6. CASE stage = "freed" /\ next = 1
  <2>1. w = 0 /\ Len(decisions) = 0 /\ decisions = <<>>
    <3>1. w = 0 /\ Len(decisions) = 0
      BY <1>3, <1>5, <1>6
    <3>2. decisions \in Seq(DecisionRecord)
      BY <1>1 DEF TraceTypes
    <3> QED
      BY <3>1, <3>2
  <2>2. now = arrival[1]
    BY <1>1, <2>1 DEF BeginAndEnd
  <2>3. P = 0
    BY <1>6 DEF PeakInv, P
  <2>4. stats'.peak = 0
    BY <1>4, <2>1, <2>3
  <2>5. stage' = "arrived"
    BY <1>2, <1>6
  <2>6. Noted' = {}
    <3>1. \A i \in Nat : ~(i <= 0 /\ i # 0)
      OBVIOUS
    <3>2. now' - arrival'[1] = 0
      BY <1>2, <1>3, <2>2
    <3> QED
      BY <2>5, <3>1, <3>2 DEF Noted
  <2>7. Largest(0, Depths', Noted')
    BY <2>6 DEF Largest
  <2> QED
    BY <1>1, <2>4, <2>5, <2>7 DEF PeakInv
<1>7. CASE stage = "freed" /\ next > 1
  <2>1. w <= P /\ Largest(P, Depths, Noted)
    BY <1>7 DEF PeakInv, P
  <2>2. stats'.peak = P /\ stage' = "arrived"
    BY <1>2, <1>3, <1>4, <1>7, <2>1
  <2>3. Noted' = Noted
    BY <1>2, <1>7, <2>2, Zenon DEF Noted
  <2>4. next' > 1
    <3>1. decisions # <<>> \/ next' > 1
      <4>1. BeginAndEnd'
        BY <1>1, Zenon DEF HistoryInv
      <4>2. decisions' = <<>> => \/ stage' \in {"top", "freed"}
                                \/ next' > 1
        BY <4>1, Zenon DEF BeginAndEnd
      <4> QED
        BY <1>2, <2>2, <4>2
    <3>2. ASSUME decisions # <<>> PROVE next' > 1
      <4>1. /\ TraceTypes' /\ InOrder' /\ decisions \in Seq(DecisionRecord)
        BY <1>1 DEF HistoryInv, TraceInv, TraceTypes
      <4>2. Len(decisions) > 0
        BY <1>3, <3>2, <4>1
      <4>3. /\ next' \in Nat /\ Len(waiting') \in Nat
            /\ Len(waiting') = next' - 1 - Len(decisions')
        BY <4>1 DEF InOrder, TraceTypes
      <4> QED
        BY <1>2, <1>3, <4>2, <4>3
    <3> QED
      BY <3>1, <3>2
  <2> QED
    BY <1>1, <1>5, <2>1, <2>2, <2>3, <2>4 DEF PeakInv
<1>8. CASE stage = "arrived"
  <2>1. next > 1
    <3>1. decisions = <<>> => next > 1
      BY <1>1, <1>8 DEF BeginAndEnd
    <3>2. decisions # <<>> => Len(decisions) > 0
      <4>1. decisions \in Seq(DecisionRecord)
        BY <1>1 DEF TraceTypes
      <4> QED
        BY <1>3, <4>1
    <3> QED
      BY <1>3, <1>5, <3>1, <3>2
  <2>2. Largest(P, Depths, Noted)
    BY <2>1 DEF PeakInv, P
  <2>3. Depths[n] = w
    <3>1. \A r \in next .. N : arrival[r] > now
      BY <1>1, <1>8 DEF UpToDate
    <3>2. arrival[1] + n = now /\ now - arrival[1] <= n
      BY <1>3
    <3>3. \A r \in next .. N : arrival[r] > arrival[1] + n
      BY <3>1, <3>2
    <3> HIDE DEF n, w
    <3> QED
      BY <1>1, <1>3, <3>2, <3>3, DepthHere DEF w
  <2>4. stage' = "top" /\ next' = next
    BY <1>2, <1>8
  <2>5. Noted' = Noted \cup {n} /\ n \in Nat
    <3>1. Noted = {i \in Nat : i <= n /\ i # n} /\ Noted' = {i \in Nat : i <= n}
      BY <1>2, <1>8, <2>4 DEF Noted
    <3>2. n <= n
      BY <1>3
    <3> HIDE DEF n
    <3> QED
      BY <1>3, <3>1, <3>2
  <2>6. Largest(stats'.peak, Depths, Noted')
    <3>1. ASSUME NEW i \in Noted' PROVE Depths[i] <= stats'.peak
      <4> HIDE DEF n, w
      <4>0. Depths[i] \in Nat
        <5>1. Depths \in [Nat -> 0 .. N] /\ N \in Nat /\ i \in Nat
          BY <1>1, Numbers, DepthsTyped DEF Depths, Noted
        <5> QED
          BY <5>1
      <4>1. CASE i \in Noted
        <5>1. Depths[i] <= P
          BY <2>2, <4>1 DEF Largest
        <5> QED
          BY <1>3, <1>4, <4>0, <5>1
      <4>2. CASE i = n
        BY <1>3, <1>4, <2>3, <4>2
      <4> QED
        BY <2>5, <4>1, <4>2
    <3>2. CASE w > P
      <4>1. stats'.peak = w
        BY <1>4, <3>2
      <4> HIDE DEF n, w
      <4> QED
        BY <2>3, <2>5, <3>1, <4>1 DEF Largest
    <3>3. CASE ~(w > P)
      <4>1. stats'.peak = P
        BY <1>4, <3>3
      <4> HIDE DEF n, w
      <4> QED
        BY <2>2, <2>5, <3>1, <4>1 DEF Largest
    <3> QED
      BY <3>2, <3>3
  <2>7. ~(next' = 1) /\ ~(stage' = "freed")
    BY <1>3, <2>1, <2>4
  <2> QED
    BY <1>1, <1>5, <2>6, <2>7 DEF PeakInv
<1> QED
  BY <1>1, <1>3, <1>6, <1>7, <1>8

LEMMA RestInPeak ==
    ASSUME PeakInv, Finish \/ UNCHANGED vars
    PROVE  PeakInv'
<1>1. TickInv /\ TickInv' /\ stats \in Statistics
  BY RestInTicks DEF PeakInv, TickInv, HistoryInv, InOrder
<1>2. UNCHANGED <<now, arrival, dispatched, decisions, next, waiting>>
  BY DEF Finish, vars
<1>3. Depths' = Depths
  BY <1>2 DEF Depths, DepthsOf, WaitingOf
<1>4. CASE Finish
  <2>1. stage = "top" /\ stage' = "done"
    BY <1>4 DEF Finish
  <2>2. stats'.peak = stats.peak
    BY <1>1, <1>4, FinishFields
  <2>3. Noted' = Noted
    BY <1>2, <2>1 DEF Noted
  <2> QED
    BY <1>1, <1>2, <1>3, <2>1, <2>2, <2>3 DEF PeakInv
<1>5. CASE UNCHANGED vars
  <2>1. UNCHANGED <<stats, stage>>
    BY <1>5 DEF vars
  <2>2. Noted' = Noted
    BY <1>2, <2>1 DEF Noted
  <2> QED
    BY <1>1, <1>2, <1>3, <2>1, <2>2 DEF PeakInv
<1> QED
  BY <1>4, <1>5

LEMMA PeakKept == PeakInv /\ [TraceNext]_vars => PeakInv'
BY AdvanceInPeak, DispatchInPeak, SettleInPeak, RestInPeak DEF TraceNext

-----------------------------------------------------------------------------
(* The largest depth in the end.                                           *)

\* Nothing waits after the last dispatch.
LEMMA AfterTheEnd ==
    ASSUME HistoryInv, stage = "done", NEW n \in Nat, now <= arrival[1] + n
    PROVE  Depths[n] = 0
<1> DEFINE b == arrival[1]
           u == b + n
<1>1. now \in Nat /\ b \in Nat /\ u \in Nat /\ b <= u /\ now <= u /\ u - b = n
  <2>1. now \in Nat /\ b \in EventTimes /\ EventTimes \in SUBSET Nat
    BY TimesInTheEnd
  <2>2. now \in Nat /\ b \in Nat /\ now <= b + n
    BY <2>1
  <2> HIDE DEF b
  <2> QED
    BY <2>2
<1> HIDE DEF u
<1>2. Depths[u - b] = Cardinality(Arrived(u)) - Cardinality(Served(u))
  BY <1>1, DepthCounts
<1>3. ASSUME NEW r \in Requests PROVE arrival[r] <= u /\ dispatched[r] <= u
  <2>1. /\ arrival[r] \in Nat /\ dispatched[r] \in Nat
        /\ arrival[r] <= dispatched[r] /\ dispatched[r] <= now
    BY TimesInTheEnd DEF Requests
  <2> QED
    BY <1>1, <2>1
<1>4. Arrived(u) = Requests /\ Served(u) = Requests
  BY <1>3 DEF Arrived, Served
<1>5. Cardinality(Requests) \in Nat
  BY RequestsFinite
<1> QED
  BY <1>1, <1>2, <1>4, <1>5

LEMMA ProbePeak ==
    ASSUME PeakInv, stage = "done"
    PROVE  stats.peak \in Nat /\ Largest(stats.peak, Depths, Nat)
<1> DEFINE P == stats.peak
           b == arrival[1]
<1>1. HistoryInv /\ InOrder /\ TraceTypes
  BY DEF PeakInv, TickInv, HistoryInv, TraceInv
<1>2. P \in Nat
  BY <1>1 DEF InOrder, Statistics
<1>3. next > 1
  <2>1. ~(next <= N) /\ next \in Nat /\ N \in Nat \ {0}
    BY <1>1, Numbers DEF HistoryInv, BeginAndEnd, Unfinished
  <2> QED
    BY <2>1
<1>4. Largest(P, Depths, Noted) /\ Noted = {n \in Nat : n <= now - b}
  BY <1>3 DEF PeakInv, Noted
<1>5. now \in Nat /\ b \in Nat /\ b <= now /\ N \in Nat
  <2>1. N \in Nat \ {0} /\ now \in Nat /\ b \in EventTimes /\ EventTimes \in SUBSET Nat
        /\ \A v \in EventTimes : v <= now
    BY <1>1, TimesInTheEnd
  <2> HIDE DEF b
  <2> QED
    BY <2>1
<1>6. ASSUME NEW n \in Nat PROVE Depths[n] <= P
  <2>1. CASE n <= now - b
    BY <1>4, <2>1 DEF Largest
  <2>2. CASE ~(n <= now - b)
    <3>1. now <= b + n
      BY <1>5, <2>2
    <3>2. Depths[n] = 0
      BY <1>1, <3>1, AfterTheEnd
    <3> QED
      BY <1>2, <3>2
  <2> QED
    BY <2>1, <2>2
<1> HIDE DEF P, b
<1>7. P = 0 \/ \E n \in Nat : Depths[n] = P
  BY <1>4 DEF Largest
<1> QED
  BY <1>2, <1>6, <1>7 DEF Largest, P

\* After an event, the peak of the replay is the largest depth until then.
PeakAt(i) ==
    LET P == ReplayLoop[i].peak
    IN /\ P \in Nat
       /\ \A v \in Nat : arrival[1] <= v /\ v <= Time(i) => Depths[v - arrival[1]] <= P
       /\ P = 0 \/ \E t \in EventTimes : Depths[t - arrival[1]] = P

LEMMA FirstPeak ==
    ASSUME HistoryInv, stage = "done"
    PROVE  PeakAt(1)
<1> DEFINE b == arrival[1]
           P == ReplayLoop[1].peak
           d == 0 + Change(Time(1))
<1>1. /\ LastEvent \in Nat \ {0} /\ Time(1) = b /\ b \in Nat /\ b \in EventTimes
      /\ Depths[0] = Change(b) /\ Depths[0] \in 0 .. N /\ N \in Nat
  <2>1. Depths \in [Nat -> 0 .. N]
    BY DepthsTyped DEF Depths
  <2>2. N \in Nat \ {0} /\ b \in EventTimes /\ EventTimes \in SUBSET Nat
    BY TimesInTheEnd
  <2>3. LastEvent \in Nat \ {0} /\ Time(1) = b /\ Depths[0] = Change(Time(1))
    BY EventOrder, DepthAtEvents
  <2> HIDE DEF b
  <2> QED
    BY <2>1, <2>2, <2>3
<1>2. ReplayLoop[1] = ReplayTurn(ReplayBegins, 1)
  <2>1. 1 \in 1 .. LastEvent /\ 1 - 1 = 0
    BY <1>1
  <2> QED
    BY <2>1, ReplayLoops
<1>3. P = IF d > 0 THEN d ELSE 0
  <2>1. ReplayBegins.depth = 0 /\ ReplayBegins.peak = 0
    BY DEF ReplayBegins
  <2> DEFINE s == ReplayBegins
  <2> HIDE DEF s
  <2>2. s.depth = 0 /\ s.peak = 0 /\ ReplayLoop[1] = ReplayTurn(s, 1)
    BY <1>2, <2>1 DEF s
  <2>3. ReplayTurn(s, 1).peak = IF s.depth + Change(Time(1)) > s.peak
                                THEN s.depth + Change(Time(1)) ELSE s.peak
    BY DEF ReplayTurn
  <2> QED
    BY <2>2, <2>3
<1>4. P = Depths[0] /\ P \in Nat /\ b - b = 0
  <2> HIDE DEF b, P
  <2>1. d = Depths[0] /\ d \in Nat
    BY <1>1
  <2> QED
    BY <1>1, <1>3, <2>1
<1> HIDE DEF b, P, d
<1>5. \A v \in Nat : b <= v /\ v <= b => Depths[v - b] <= P
  BY <1>1, <1>4
<1> QED
  BY <1>1, <1>4, <1>5 DEF PeakAt, b, P

LEMMA NextPeak ==
    ASSUME HistoryInv, stage = "done", NEW i \in 1 .. LastEvent - 1, PeakAt(i)
    PROVE  PeakAt(i + 1)
<1> DEFINE b == arrival[1]
           t0 == Time(i)
           t1 == Time(i + 1)
           s == ReplayLoop[i]
           r == ReplayLoop[i + 1]
<1>1. /\ i \in 1 .. LastEvent /\ i + 1 \in 1 .. LastEvent /\ i + 1 \in Nat /\ i + 1 > 1
      /\ (i + 1) - 1 = i
  BY EventOrder
<1>2. /\ b \in Nat /\ t0 \in Nat /\ t1 \in Nat /\ b <= t0 /\ t0 < t1 /\ t1 \in EventTimes
  <2>1. b \in EventTimes /\ EventTimes \in SUBSET Nat /\ \A v \in EventTimes : b <= v
    BY TimesInTheEnd
  <2>2. t0 \in EventTimes /\ t1 \in EventTimes /\ t0 < t1
    BY <1>1, EventOrder
  <2> HIDE DEF t0, t1, b
  <2> QED
    BY <2>1, <2>2
<1>3. r.peak = IF r.depth > s.peak THEN r.depth ELSE s.peak
  <2>1. r = ReplayTurn(s, i + 1)
    BY <1>1, ReplayLoops
  <2>2. Turned(ReplayTurn(s, i + 1), s, Time((i + 1) - 1), Time(i + 1))
    BY <1>1, TurnFields
  <2> QED
    BY <2>1, <2>2 DEF Turned
<1>4. \A v \in Nat : t0 <= v /\ v < t1 => Depths[v - b] = Depths[t0 - b]
  BY DepthAtEvents
<1>5. r.depth = Depths[t1 - b]
  BY <1>1, AllFollow DEF Follows
<1>6. /\ s.peak \in Nat
      /\ \A v \in Nat : b <= v /\ v <= t0 => Depths[v - b] <= s.peak
      /\ s.peak = 0 \/ \E t \in EventTimes : Depths[t - b] = s.peak
  BY DEF PeakAt
<1>7. Depths[t1 - b] \in Nat /\ N \in Nat
  <2>1. Depths \in [Nat -> 0 .. N] /\ N \in Nat
    BY DepthsTyped, TraceAssumption DEF Depths
  <2>2. t1 - b \in Nat
    BY <1>2
  <2> HIDE DEF t1, b
  <2> QED
    BY <2>1, <2>2
<1> HIDE DEF b, t0, t1, s, r
<1>8. r.peak \in Nat /\ s.peak <= r.peak /\ Depths[t1 - b] <= r.peak
  BY <1>3, <1>5, <1>6, <1>7
<1>9. ASSUME NEW v \in Nat, b <= v, v <= t1 PROVE Depths[v - b] <= r.peak
  <2>1. CASE v = t1
    BY <1>8, <2>1
  <2>2. CASE v # t1
    <3>1. Depths[v - b] <= s.peak
      <4>1. CASE v <= t0
        BY <1>6, <1>9, <4>1
      <4>2. CASE ~(v <= t0)
        <5>1. Depths[v - b] = Depths[t0 - b]
          BY <1>2, <1>4, <1>9, <2>2, <4>2
        <5>2. Depths[t0 - b] <= s.peak
          BY <1>2, <1>6
        <5> QED
          BY <5>1, <5>2
      <4> QED
        BY <4>1, <4>2
    <3>2. Depths[v - b] \in Nat
      <4>1. Depths \in [Nat -> 0 .. N] /\ v - b \in Nat
        BY <1>2, <1>9, DepthsTyped DEF Depths
      <4> QED
        BY <1>7, <4>1
    <3> QED
      BY <1>6, <1>8, <3>1, <3>2
  <2> QED
    BY <2>1, <2>2
<1>10. r.peak = 0 \/ \E t \in EventTimes : Depths[t - b] = r.peak
  BY <1>2, <1>3, <1>5, <1>6
<1> QED
  BY <1>8, <1>9, <1>10 DEF PeakAt, r, b, t1

LEMMA AllPeaks ==
    ASSUME HistoryInv, stage = "done"
    PROVE  \A i \in 1 .. LastEvent : PeakAt(i)
<1> DEFINE A == {n \in Nat : n + 1 <= LastEvent => PeakAt(n + 1)}
<1>1. LastEvent \in Nat \ {0}
  BY EventOrder
<1>2. 0 \in A
  <2>1. 0 + 1 = 1
    OBVIOUS
  <2> QED
    BY <2>1, FirstPeak
<1>3. ASSUME NEW n \in Nat, n \in A PROVE n + 1 \in A
  <2>1. n + 1 \in Nat
    OBVIOUS
  <2>2. ASSUME (n + 1) + 1 <= LastEvent PROVE PeakAt((n + 1) + 1)
    <3>1. n + 1 \in 1 .. LastEvent - 1 /\ PeakAt(n + 1)
      BY <1>1, <1>3, <2>2
    <3> QED
      BY <3>1, NextPeak
  <2> QED
    BY <2>1, <2>2
<1>4. Nat \subseteq A
  <2> HIDE DEF A
  <2> QED
    BY <1>2, <1>3, NaturalsInductive
<1>5. ASSUME NEW i \in 1 .. LastEvent PROVE PeakAt(i)
  <2>1. i - 1 \in Nat /\ (i - 1) + 1 = i /\ i - 1 \in A
    BY <1>1, <1>4
  <2> QED
    BY <1>1, <2>1
<1> QED
  BY <1>5

\* The replay has found a depth at an event that is the largest of them all.
LEMMA ReplayPeak ==
    ASSUME PeakInv, stage = "done"
    PROVE  /\ Replay.peak = stats.peak
           /\ stats.peak = 0 \/ \E t \in EventTimes : Depths[t - arrival[1]] = stats.peak
<1> DEFINE P == stats.peak
           Q == Replay.peak
           b == arrival[1]
<1>1. HistoryInv /\ P \in Nat /\ Largest(P, Depths, Nat)
  BY ProbePeak DEF PeakInv, TickInv
<1>2. LastEvent \in 1 .. LastEvent /\ Time(LastEvent) = now
  <2>1. LastEvent \in Nat \ {0} /\ Time(LastEvent) = now
    BY <1>1, EventOrder
  <2> QED
    BY <2>1
<1>3. /\ Q \in Nat /\ \A v \in Nat : b <= v /\ v <= now => Depths[v - b] <= Q
      /\ Q = 0 \/ \E t \in EventTimes : Depths[t - b] = Q
  BY <1>1, <1>2, AllPeaks, ReplayUnfolds DEF PeakAt
<1>4. /\ b \in Nat /\ now \in Nat /\ b <= now /\ N \in Nat
      /\ \A t \in EventTimes : t \in Nat /\ t - b \in Nat
  <2>1. N \in Nat \ {0} /\ now \in Nat /\ b \in EventTimes /\ EventTimes \in SUBSET Nat
        /\ \A v \in EventTimes : b <= v /\ v <= now
    BY <1>1, TimesInTheEnd
  <2> HIDE DEF b
  <2> QED
    BY <2>1
<1>5. /\ Depths \in [Nat -> 0 .. N] /\ Depths[now - b] = 0
  BY <1>1, DepthsTyped, DepthAtEvents DEF Depths
<1> HIDE DEF P, Q, b
<1>6. Q <= P
  BY <1>1, <1>3, <1>4 DEF Largest
<1>7. P <= Q
  <2>1. CASE P = 0
    BY <1>3, <2>1
  <2>2. ASSUME P # 0, NEW n \in Nat, Depths[n] = P PROVE P <= Q
    <3>1. CASE b + n <= now
      <4>1. b + n \in Nat /\ b <= b + n /\ (b + n) - b = n
        BY <1>4
      <4> QED
        BY <1>3, <2>2, <3>1, <4>1
    <3>2. CASE ~(b + n <= now)
      <4>1. Depths[n] = 0
        BY <1>1, <1>4, <3>2, AfterTheEnd DEF b
      <4> QED
        BY <2>2, <4>1
    <3> QED
      BY <3>1, <3>2
  <2> QED
    BY <1>1, <2>1, <2>2 DEF Largest
<1> QED
  BY <1>1, <1>3, <1>6, <1>7 DEF P, Q, b

-----------------------------------------------------------------------------
(* The largest depth in the report.                                        *)

Fact(r) == [seq |-> r, arrival |-> arrival[r], enqueue |-> arrival[r],
            dispatch |-> dispatched[r]]

\* There are as many facts as requests.
LEMMA FactsCount ==
    ASSUME NEW S, S \subseteq Requests
    PROVE  Cardinality({Fact(r) : r \in S}) = Cardinality(S)
<1> DEFINE T == {Fact(r) : r \in S}
           f == [r \in S |-> Fact(r)]
<1>1. \A r : Fact(r).seq = r
  BY DEF Fact
<1>2. \A r, q \in S : f[r] = f[q] => r = q
  BY <1>1
<1>3. f \in [S -> T] /\ \A x \in T : \E r \in S : f[r] = x
  OBVIOUS
<1> HIDE DEF f, T
<1>4. f \in Bijection(S, T)
  BY <1>2, <1>3 DEF Bijection, Injection, Surjection, IsInjective
<1>5. IsFiniteSet(S)
  BY RequestsFinite
<1>6. Cardinality(T) = Cardinality(S)
  BY <1>4, <1>5, FS_Bijection DEF ExistsBijection
<1> QED
  BY <1>6 DEF T

\* The depths around an event, as the report counts them: the one before the
\* arrivals is not above the one after them.
LEMMA ReportedDepths ==
    ASSUME HistoryInv, stage = "done", NEW t \in EventTimes
    PROVE  /\ Depths[t - arrival[1]] \in M!DepthsAround(Facts, t)
           /\ \A d \in M!DepthsAround(Facts, t) : d \in Int /\ d <= Depths[t - arrival[1]]
<1> DEFINE b == arrival[1]
           before == {r \in Requests : arrival[r] < t}
<1>1. /\ t \in Nat /\ b <= t
      /\ \A r \in Requests : arrival[r] \in Nat
  BY TimesInTheEnd DEF Requests
<1>2. Depths[t - b] = Cardinality(Arrived(t)) - Cardinality(Served(t))
  BY <1>1, DepthCounts
<1>3. Facts = {Fact(r) : r \in Requests}
  BY DEF Facts, Fact
<1>4. \A r : Fact(r).enqueue = arrival[r] /\ Fact(r).dispatch = dispatched[r]
  BY DEF Fact
<1>5. /\ {x \in Facts : x.enqueue <= t} = {Fact(r) : r \in Arrived(t)}
      /\ {x \in Facts : x.enqueue < t} = {Fact(r) : r \in before}
      /\ {x \in Facts : x.dispatch <= t} = {Fact(r) : r \in Served(t)}
  BY <1>3, <1>4 DEF Arrived, Served
<1>6. before \subseteq Requests /\ Arrived(t) \subseteq Requests /\ Served(t) \subseteq Requests
  BY DEF Arrived, Served
<1>7. /\ M!Enqueued(Facts, t) = Cardinality(Arrived(t))
      /\ M!EnqueuedBefore(Facts, t) = Cardinality(before)
      /\ M!Left(Facts, t) = Cardinality(Served(t))
  <2>1. /\ M!Enqueued(Facts, t) = Cardinality({x \in Facts : x.enqueue <= t})
        /\ M!EnqueuedBefore(Facts, t) = Cardinality({x \in Facts : x.enqueue < t})
        /\ M!Left(Facts, t) = Cardinality({x \in Facts : x.dispatch <= t})
    BY DEF M!Enqueued, M!EnqueuedBefore, M!Left, M!Cardinality, Cardinality
  <2> HIDE DEF before
  <2> QED
    BY <1>5, <1>6, <2>1, FactsCount
<1>8. before \subseteq Arrived(t)
  <2>1. \A r \in Requests : arrival[r] < t => arrival[r] <= t
    BY <1>1
  <2> QED
    BY <2>1 DEF Arrived
<1> HIDE DEF before
<1>9. Cardinality(before) <= Cardinality(Arrived(t))
  BY <1>6, <1>8, RequestsFinite, FS_Subset
<1>10. /\ Cardinality(before) \in Nat /\ Cardinality(Arrived(t)) \in Nat
       /\ Cardinality(Served(t)) \in Nat
  BY <1>6, RequestsFinite
<1>11. M!DepthsAround(Facts, t) = {Cardinality(before) - Cardinality(Served(t)), Depths[t - b]}
  BY <1>2, <1>7 DEF M!DepthsAround
<1> HIDE DEF b
<1>12. Cardinality(before) - Cardinality(Served(t)) <= Depths[t - b]
  BY <1>2, <1>9, <1>10
<1> QED
  BY <1>2, <1>10, <1>11, <1>12 DEF b

LEMMA ReportPeak ==
    ASSUME PeakInv, stage = "done"
    PROVE  M!MaxQueueDepth(Facts) = stats.peak
<1> DEFINE P == stats.peak
           b == arrival[1]
           S == {0} \cup UNION {M!DepthsAround(Facts, t) : t \in EventTimes}
<1>1. HistoryInv /\ P \in Nat /\ Largest(P, Depths, Nat)
  BY ProbePeak DEF PeakInv, TickInv
<1>2. \A r \in Requests : arrival[r] \in Nat /\ dispatched[r] \in Nat
  BY <1>1, TimesInTheEnd DEF Requests
<1>3. Facts = {Fact(r) : r \in Requests}
  BY DEF Facts, Fact
<1>4. \A r : Fact(r).enqueue = arrival[r] /\ Fact(r).dispatch = dispatched[r]
  BY DEF Fact
<1>5. M!Sent(Facts) = Facts
  <2>1. \A r \in Requests : Fact(r).dispatch # M!None
    <3>1. \A n \in Nat : n # -1
      OBVIOUS
    <3> QED
      BY <1>2, <1>4, <3>1 DEF M!None
  <2> QED
    BY <1>3, <2>1 DEF M!Sent
<1>6. {x.enqueue : x \in Facts} \cup {x.dispatch : x \in Facts} = EventTimes
  BY <1>3, <1>4 DEF EventTimes
<1>7. M!MaxQueueDepth(Facts) = M!Max(S)
  BY <1>5, <1>6 DEF M!MaxQueueDepth
<1>8. \A t \in EventTimes : t - b \in Nat
  <2>1. b \in EventTimes /\ EventTimes \in SUBSET Nat /\ \A v \in EventTimes : b <= v
    BY <1>1, TimesInTheEnd
  <2> HIDE DEF b
  <2> QED
    BY <2>1
<1>9. ASSUME NEW d \in S PROVE d \in Int /\ d <= P
  <2>1. CASE d = 0
    BY <1>1, <2>1
  <2>2. ASSUME NEW t \in EventTimes, d \in M!DepthsAround(Facts, t)
        PROVE  d \in Int /\ d <= P
    <3>1. d \in Int /\ d <= Depths[t - b]
      BY <1>1, <2>2, ReportedDepths
    <3>2. Depths[t - b] <= P
      BY <1>1, <1>8 DEF Largest
    <3>3. Depths[t - b] \in Nat
      <4>1. Depths \in [Nat -> 0 .. N] /\ N \in Nat
        BY DepthsTyped, TraceAssumption DEF Depths
      <4> QED
        BY <1>8, <4>1
    <3> HIDE DEF P, b
    <3> QED
      BY <1>1, <3>1, <3>2, <3>3
  <2> QED
    BY <2>1, <2>2
<1>10. P \in S
  <2>1. P = 0 \/ \E t \in EventTimes : Depths[t - b] = P
    BY ReplayPeak
  <2>2. CASE \E t \in EventTimes : Depths[t - b] = P
    BY <1>1, <2>2, ReportedDepths
  <2> QED
    BY <2>1, <2>2
<1> HIDE DEF S, P
<1>11. M!Max(S) = P
  <2>1. P \in S /\ \A d \in S : P >= d
    BY <1>1, <1>9, <1>10
  <2>2. M!Max(S) \in S /\ \A d \in S : M!Max(S) >= d
    BY <2>1 DEF M!Max
  <2> QED
    BY <1>9, <2>1, <2>2
<1> QED
  BY <1>7, <1>11 DEF P

-----------------------------------------------------------------------------
(* What the largest depth decides.                                         *)

\* There was no contention just when no two requests waited at one time.
LEMMA Contention ==
    ASSUME PeakInv, stage = "done"
    PROVE  stats.peak < 2 <=> \A r, q \in Requests : Together(r, q) => r = q
<1> DEFINE P == stats.peak
           b == arrival[1]
           W(n) == WaitingOf(arrival, dispatched, Len(decisions), n)
<1>1. HistoryInv /\ P \in Nat /\ Largest(P, Depths, Nat)
  BY ProbePeak DEF PeakInv, TickInv
<1>2. /\ N \in Nat \ {0} /\ Len(decisions) = N /\ b \in Nat
      /\ \A r \in 1 .. N : arrival[r] \in Nat /\ dispatched[r] \in Nat /\ b <= arrival[r]
  <2>1. N \in Nat \ {0} /\ b \in EventTimes /\ EventTimes \in SUBSET Nat
    BY <1>1, TimesInTheEnd
  <2>2. b \in Nat
    BY <2>1
  <2> QED
    BY <1>1, <2>1, <2>2, TimesInTheEnd
<1>3. ASSUME NEW n \in Nat
      PROVE  /\ Depths[n] = Cardinality(W(n)) /\ IsFiniteSet(W(n)) /\ Cardinality(W(n)) \in Nat
             /\ \A r : r \in W(n) <=> r \in Requests /\ arrival[r] <= b + n
                                                    /\ ~(dispatched[r] <= b + n)
  <2>1. IsFiniteSet(W(n)) /\ Depths[n] = Cardinality(W(n))
    BY DepthsTyped DEF Depths, DepthsOf
  <2>2. \A r \in 1 .. N : r <= N
    BY <1>2
  <2> QED
    BY <1>2, <2>1, <2>2, FS_CardinalityType DEF WaitingOf, Requests
<1> HIDE DEF W, b
<1>4. ASSUME P < 2, NEW r \in Requests, NEW q \in Requests, Together(r, q), r # q
      PROVE  FALSE
  <2> DEFINE v == IF arrival[r] <= arrival[q] THEN arrival[q] ELSE arrival[r]
             n == v - b
  <2>1. /\ arrival[r] \in Nat /\ dispatched[r] \in Nat /\ b <= arrival[r]
        /\ arrival[q] \in Nat /\ dispatched[q] \in Nat /\ b <= arrival[q]
    BY <1>2 DEF Requests
  <2>2. /\ v \in Nat /\ b <= v /\ arrival[r] <= v /\ arrival[q] <= v
        /\ ~(dispatched[r] <= v) /\ ~(dispatched[q] <= v)
    BY <1>4, <2>1 DEF Together
  <2> HIDE DEF v
  <2>3. n \in Nat /\ b + n = v
    BY <1>2, <2>2
  <2> HIDE DEF n
  <2>4. r \in W(n) /\ q \in W(n) \ {r}
    BY <1>3, <1>4, <2>2, <2>3
  <2>5. /\ IsFiniteSet(W(n) \ {r}) /\ Cardinality(W(n) \ {r}) = Cardinality(W(n)) - 1
    BY <1>3, <2>3, <2>4, FS_RemoveElement
  <2>6. Cardinality(W(n) \ {r}) # 0 /\ Cardinality(W(n) \ {r}) \in Nat
    BY <2>4, <2>5, FS_EmptySet, FS_CardinalityType
  <2>7. Cardinality(W(n)) <= P /\ Cardinality(W(n)) \in Nat
    BY <1>1, <1>3, <2>3 DEF Largest
  <2> QED
    BY <1>1, <1>4, <2>5, <2>6, <2>7
<1>5. ASSUME ~(P < 2)
      PROVE  \E r, q \in Requests : Together(r, q) /\ r # q
  <2>1. PICK n \in Nat : Depths[n] = P
    BY <1>1, <1>5 DEF Largest
  <2>2. /\ Cardinality(W(n)) = P /\ IsFiniteSet(W(n))
    BY <1>3, <2>1
  <2>3. W(n) # {}
    BY <1>1, <1>5, <2>2, FS_EmptySet
  <2>4. PICK r : r \in W(n)
    BY <2>3
  <2>5. IsFiniteSet(W(n) \ {r}) /\ Cardinality(W(n) \ {r}) = Cardinality(W(n)) - 1
    BY <2>2, <2>4, FS_RemoveElement
  <2>6. W(n) \ {r} # {}
    BY <1>1, <1>5, <2>2, <2>5, FS_EmptySet
  <2>7. PICK q : q \in W(n) /\ q # r
    BY <2>6
  <2>8. /\ r \in Requests /\ arrival[r] <= b + n /\ ~(dispatched[r] <= b + n)
        /\ q \in Requests /\ arrival[q] <= b + n /\ ~(dispatched[q] <= b + n)
    BY <1>3, <2>4, <2>7
  <2>9. /\ arrival[r] \in Nat /\ dispatched[r] \in Nat
        /\ arrival[q] \in Nat /\ dispatched[q] \in Nat
    BY <1>2, <2>8 DEF Requests
  <2>10. Together(r, q)
    BY <1>2, <2>8, <2>9 DEF Together
  <2> QED
    BY <2>7, <2>8, <2>10
<1> QED
  BY <1>4, <1>5 DEF P

LEMMA Verdicts ==
    ASSUME PeakInv, stage = "done", NEW bound
    PROVE  M!Verdict(Facts, bound) = "no_contention" <=> stats.peak < 2
<1> DEFINE P == stats.peak
           long == M!LongestWait(Facts)
<1>1. P \in Nat /\ M!MaxQueueDepth(Facts) = P
  BY ProbePeak, ReportPeak
<1>2. M!Verdict(Facts, bound) = CASE P < 2 -> "no_contention"
                                  [] P >= 2 /\ long <= bound -> "within_bound"
                                  [] OTHER -> "bound_exceeded"
  BY <1>1 DEF M!Verdict
<1> HIDE DEF P, long
<1>3. CASE P < 2
  <2>1. ~(P >= 2)
    BY <1>1, <1>3
  <2> QED
    BY <1>2, <1>3, <2>1 DEF P
<1>4. CASE ~(P < 2)
  <2>1. P >= 2
    BY <1>1, <1>4
  <2>2. CASE long <= bound
    BY <1>2, <1>4, <2>1, <2>2 DEF P
  <2>3. CASE ~(long <= bound)
    BY <1>2, <1>4, <2>1, <2>3 DEF P
  <2> QED
    BY <2>2, <2>3
<1> QED
  BY <1>3, <1>4

\* For some time the depth was what it was during some unit of time.
LEMMA TimeAtDepth ==
    ASSUME NEW D \in [Nat -> 0 .. N], NEW n \in Nat, NEW d \in 0 .. N
    PROVE  Ticks(D)[n].time[d] > 0 <=> \E v \in Nat : v < n /\ D[v] = d
<1> DEFINE A == {m \in Nat : Ticks(D)[m].time[d] > 0 <=> \E v \in Nat : v < m /\ D[v] = d}
<1>1. /\ Ticks(D) \in [Nat -> Measured] /\ Ticks(D)[0] = NothingYet
      /\ \A m \in Nat : Ticks(D)[m + 1] = Run(Ticks(D)[m], 1, D[m])
  BY TicksRuns DEF Runs
<1>2. 0 \in A
  <2>1. NothingYet.time[d] = 0
    BY DEF NothingYet
  <2> QED
    BY <1>1, <2>1
<1>3. ASSUME NEW m \in Nat, m \in A PROVE m + 1 \in A
  <2> DEFINE s == Ticks(D)[m]
             u == Ticks(D)[m + 1]
  <2>1. s.time \in [0 .. N -> Nat] /\ D[m] \in 0 .. N
    BY <1>1, MeasuredFields
  <2>2. u = Run(s, 1, D[m])
    BY <1>1
  <2>3. s.time[d] > 0 <=> \E v \in Nat : v < m /\ D[v] = d
    BY <1>3
  <2> HIDE DEF s, u
  <2>4. u.time = [s.time EXCEPT ![D[m]] = s.time[D[m]] + 1]
    BY <2>2 DEF Run
  <2>5. CASE D[m] = d
    <3>1. u.time[d] = s.time[d] + 1 /\ s.time[d] \in Nat
      BY <2>1, <2>5, <2>4
    <3>2. u.time[d] > 0 /\ m < m + 1
      BY <3>1
    <3> QED
      BY <2>5, <3>2 DEF u
  <2>6. CASE D[m] # d
    <3>1. u.time[d] = s.time[d]
      BY <2>1, <2>6, <2>4
    <3>2. \A v \in Nat : v < m + 1 <=> v < m \/ v = m
      OBVIOUS
    <3> QED
      BY <2>3, <2>6, <3>1, <3>2 DEF u
  <2> QED
    BY <2>5, <2>6
<1>4. Nat \subseteq A
  <2> HIDE DEF A
  <2> QED
    BY <1>2, <1>3, NaturalsInductive
<1> QED
  BY <1>4

LEMMA EligibleLevels ==
    ASSUME PeakInv, stage = "done"
    PROVE  Eligible(Replay) = {k \in Thresholds : k <= stats.peak}
<1> DEFINE P == stats.peak
           n == now - arrival[1]
           time == Ticks(Depths)[n].time
<1>1. /\ HistoryInv /\ P \in Nat /\ Largest(P, Depths, Nat)
      /\ Replay.time = time
  <2>1. stats.depthTime = time /\ TickInv
    BY DEF PeakInv, TickInv, SoFar
  <2> QED
    BY <2>1, ProbePeak, ReplayInTheEnd DEF TickInv
<1>2. /\ n \in Nat /\ now \in Nat /\ arrival[1] \in Nat /\ N \in Nat /\ arrival[1] + n = now
  <2>1. N \in Nat \ {0} /\ now \in Nat /\ arrival[1] \in EventTimes /\ EventTimes \in SUBSET Nat
        /\ \A v \in EventTimes : v <= now
    BY <1>1, TimesInTheEnd
  <2>2. N \in Nat /\ now \in Nat /\ arrival[1] \in Nat /\ arrival[1] <= now
    BY <2>1
  <2> QED
    BY <2>2
<1>3. Depths \in [Nat -> 0 .. N]
  BY DepthsTyped DEF Depths
<1>4. time \in [0 .. N -> Nat]
  <2>1. Ticks(Depths) \in [Nat -> Measured]
    BY <1>3, TicksRuns DEF Runs
  <2>2. Ticks(Depths)[n] \in Measured
    BY <1>2, <2>1
  <2> QED
    BY <2>2, MeasuredFields
<1>5. \A d \in 0 .. N : time[d] > 0 <=> \E v \in Nat : v < n /\ Depths[v] = d
  BY <1>2, <1>3, TimeAtDepth
<1> HIDE DEF n, time, P
<1>6. ASSUME NEW k \in Thresholds
      PROVE  Sum(time, k .. N) > 0 <=> k <= P
  <2>1. k \in Nat /\ k >= 1
    BY DEF Thresholds
  <2>2. IsFiniteSet(k .. N) /\ \A x \in k .. N : x \in 0 .. N /\ time[x] \in Nat
    <3>1. IsFiniteSet(0 .. N)
      <4>1. 0 \in Int /\ N \in Int /\ 0 <= N + 1
        BY <1>2
      <4> QED
        BY <4>1, Interval
    <3>2. k .. N \subseteq 0 .. N
      BY <1>2, <2>1
    <3> QED
      BY <1>4, <3>1, <3>2, FS_Subset
  <2>3. Sum(time, k .. N) > 0 <=> \E d \in k .. N : time[d] > 0
    BY <2>2, SumPositive
  <2>4. ASSUME NEW d \in k .. N, time[d] > 0 PROVE k <= P
    <3>1. PICK v \in Nat : Depths[v] = d
      BY <1>5, <2>2, <2>4
    <3>2. d <= P
      BY <1>1, <3>1 DEF Largest
    <3> QED
      BY <1>1, <1>2, <2>1, <3>2
  <2>5. ASSUME k <= P PROVE \E d \in k .. N : time[d] > 0
    <3>1. PICK v \in Nat : Depths[v] = P
      BY <1>1, <2>1, <2>5 DEF Largest
    <3>2. P \in 0 .. N /\ P \in k .. N /\ P # 0
      <4>1. P \in 0 .. N
        BY <1>3, <3>1
      <4> QED
        BY <1>2, <2>1, <2>5, <4>1
    <3>3. v < n
      <4>1. ASSUME ~(v < n) PROVE FALSE
        <5>1. now <= arrival[1] + v
          BY <1>2, <4>1
        <5>2. Depths[v] = 0
          BY <1>1, <5>1, AfterTheEnd
        <5> QED
          BY <3>1, <3>2, <5>2
      <4> QED
        BY <4>1
    <3>4. time[P] > 0
      BY <1>5, <3>1, <3>2, <3>3
    <3> QED
      BY <3>2, <3>4
  <2> QED
    BY <2>3, <2>4, <2>5
<1> QED
  BY <1>1, <1>6 DEF Eligible, P

\* The probe, the replay and the report find the same largest depth; the levels
\* up to it are those that the gate of the sweep counts, and it tells whether two
\* requests ever waited at one time.
THEOREM PeaksFound == TraceSpec => []PeaksAgree
<1>1. Init => PeakInv
  BY PeakStarts
<1>2. PeakInv /\ [TraceNext]_vars => PeakInv'
  BY PeakKept
<1>3. PeakInv => PeaksAgree
  <2> SUFFICES ASSUME PeakInv, stage = "done"
               PROVE  /\ {stats.peak, Replay.peak} = {M!MaxQueueDepth(Facts)}
                      /\ Eligible(Replay) = {k \in Thresholds : k <= stats.peak}
                      /\ \A bound \in {0, MaxTime} :
                            M!Verdict(Facts, bound) = "no_contention"
                            <=> \A r, q \in Requests : Together(r, q) => r = q
    BY DEF PeaksAgree
  <2>1. {stats.peak, Replay.peak} = {M!MaxQueueDepth(Facts)}
    BY ReplayPeak, ReportPeak
  <2>2. \A bound : M!Verdict(Facts, bound) = "no_contention"
                   <=> \A r, q \in Requests : Together(r, q) => r = q
    BY Verdicts, Contention
  <2> QED
    BY <2>1, <2>2, EligibleLevels
<1> QED
  BY <1>1, <1>2, <1>3, PTL DEF TraceSpec
=============================================================================
