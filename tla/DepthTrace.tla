------------------------------ MODULE DepthTrace ------------------------------
(***************************************************************************)
(* The programs that measure the waiting list, run on the same history.    *)
(* The history is that of the probe (scripts/probe_week7_lowload_depth.py, *)
(* _simulate_trace): requests that arrive, wait in order for one of a few  *)
(* slots, are shown with the depth behind them to the adaptive controller, *)
(* and are served. The probe integrates its statistics on the way. From    *)
(* the times of the requests and the log of decisions alone, the same is   *)
(* computed again by analysis/expl.py, by experiments/correctness.py, by   *)
(* the probe itself for stored results, and by analysis/metrics.py.        *)
(*                                                                         *)
(* The clock counts in integers; how long a request is served is any of    *)
(* Services, which stands for its length, its cap and the service rate.    *)
(***************************************************************************)
EXTENDS Integers, Sequences, FiniteSets, FiniteSetsExt

CONSTANTS
    N,              \* how many requests are simulated
    ArrivalTimes,   \* what their arrival times may be
    Services,       \* service times
    MaxInFlight,    \* MAX_IN_FLIGHT
    TightenAt, RelaxAt, TightenHold, RelaxHold,   \* the controller's
    Unit,           \* how many units of pressure a waiting request counts
    MaxTime         \* the simulated clock stays below

ASSUME TraceAssumption ==
    /\ N \in Nat \ {0} /\ Unit \in Nat \ {0} /\ MaxTime \in Nat /\ MaxInFlight \in Nat \ {0}
    /\ \A a \in ArrivalTimes : /\ a \in [1 .. N -> Nat]
                               /\ \A i, j \in 1 .. N : i <= j => a[i] <= a[j]
    /\ Services \subseteq Nat \ {0}
    /\ TightenHold \in Nat /\ RelaxHold \in Nat
    /\ TightenAt \in [1 .. 3 -> Nat] /\ RelaxAt \in [1 .. 3 -> Nat]
    /\ \A j, k \in 1 .. 3 : j < k => TightenAt[j] < TightenAt[k]

VARIABLES
    now,        \* clock.now_s
    arrival,    \* the arrival times
    next,       \* next_arrival, from 1
    waiting,    \* the requests that wait
    dispatched, \* the time of each dispatch so far, by request
    ends,       \* the completion time of each request dispatched so far
    stage,      \* "top" of the loop, after the completions, after the arrivals
    depth,      \* current_depth
    stats,      \* TraceStatistics
    decisions,  \* the controller's decisions
    level, qInst, qBar, last, tightening, relaxing, trigger   \* the controller

control == <<level, qInst, qBar, last, tightening, relaxing, trigger>>
vars == <<now, arrival, next, waiting, dispatched, ends, stage, depth, stats, decisions,
          control>>

Ctl == INSTANCE AdaptiveClip WITH Depths <- 0 .. Unit * N
M == INSTANCE Measures

Requests == 1 .. N
Thresholds == 1 .. 3     \* DEPTH_THRESHOLDS
None == -1

Sum(f, S) == MapThenSumSet(LAMBDA x : f[x], S)
AtLeast0(n) == IF n > 0 THEN n ELSE 0

-----------------------------------------------------------------------------
(* TraceStatistics.                                                        *)

FreshStats ==
    [depthTime |-> [d \in 0 .. N |-> 0], levelTime |-> [k \in 0 .. 3 |-> 0],
     peak |-> 0, current |-> [k \in Thresholds |-> 0],
     episodes |-> [k \in Thresholds |-> <<>>]]

\* _finish_depth_episode, for the thresholds in K.
FinishEpisodes(s, K) ==
    [s EXCEPT !.episodes = [k \in Thresholds |->
                              IF k \in K /\ s.current[k] > 0
                              THEN Append(@[k], s.current[k]) ELSE @[k]],
              !.current = [k \in Thresholds |-> IF k \in K THEN 0 ELSE @[k]]]

\* Mutant: an episode of every threshold lasts until nothing waits.
AddIntervalMerged(s, span, d, k) ==
    IF span = 0 THEN s
    ELSE FinishEpisodes([s EXCEPT !.depthTime[d] = @ + span, !.levelTime[k] = @ + span,
                                  !.peak = IF d > @ THEN d ELSE @,
                                  !.current = [j \in Thresholds |->
                                                 IF d >= j THEN @[j] + span ELSE @[j]]],
                        IF d = 0 THEN Thresholds ELSE {})

\* add_interval: for a span of time the depth was d and the level k.
AddInterval(s, span, d, k) ==
    IF span = 0 THEN s
    ELSE FinishEpisodes([s EXCEPT !.depthTime[d] = @ + span, !.levelTime[k] = @ + span,
                                  !.peak = IF d > @ THEN d ELSE @,
                                  !.current = [j \in Thresholds |->
                                                 IF d >= j THEN @[j] + span ELSE @[j]]],
                        {j \in Thresholds : d < j})

-----------------------------------------------------------------------------
(* _simulate_trace.                                                        *)

InFlight == {r \in DOMAIN ends : ends[r] > now}

Init ==
    /\ arrival \in ArrivalTimes
    /\ now = arrival[1] /\ next = 1 /\ waiting = <<>>
    /\ dispatched = <<>> /\ ends = <<>>
    /\ stage = "top" /\ depth = 0 /\ stats = FreshStats /\ decisions = <<>>
    /\ Ctl!ControlInit

\* The loop goes on while something has not been dispatched.
Unfinished == next <= N \/ waiting # <<>>

\* The next arrival or completion; completions come first.
NextEvents == {arrival[r] : r \in next .. N} \cup {ends[r] : r \in InFlight}

Advance ==
    /\ stage = "top" /\ Unfinished
    /\ now' = Min(NextEvents)
    /\ stats' = AddInterval(stats, now' - now, depth, level)
    /\ stage' = "freed"
    /\ UNCHANGED <<arrival, next, waiting, dispatched, ends, depth, decisions, control>>

\* One turn of dispatch_available: the first that waits is dispatched, and the
\* depth that will remain when all free slots are filled is shown.
Dispatch ==
    /\ stage \in {"freed", "arrived"} /\ waiting # <<>>
    /\ Cardinality(InFlight) < MaxInFlight
    /\ LET left == Len(waiting) - 1
           free == MaxInFlight - Cardinality(InFlight) - 1
       IN Ctl!Update(Unit * AtLeast0(left - free))
    /\ waiting' = Tail(waiting)
    /\ dispatched' = Append(dispatched, now)
    /\ \E s \in Services : ends' = Append(ends, now + s)
    /\ decisions' = Append(decisions, [time |-> now, q |-> qInst', bar |-> qBar',
                                       old |-> level, new |-> level'])
    /\ UNCHANGED <<now, arrival, next, stage, depth, stats>>

\* The arrivals of this moment.
Come == {r \in next .. N : arrival[r] <= now}

\* Nothing more can be dispatched: the depth is what waits now. After the
\* completions come the arrivals of this moment.
Settle ==
    /\ stage \in {"freed", "arrived"}
    /\ waiting = <<>> \/ Cardinality(InFlight) >= MaxInFlight
    /\ depth' = Len(waiting)
    /\ stats' = [stats EXCEPT !.peak = IF depth' > @ THEN depth' ELSE @]
    /\ IF stage = "freed"
       THEN LET n == Cardinality(Come)
            IN /\ waiting' = waiting \o [i \in 1 .. n |-> next + i - 1]
               /\ next' = next + n /\ stage' = "arrived"
       ELSE stage' = "top" /\ UNCHANGED <<waiting, next>>
    /\ UNCHANGED <<now, arrival, dispatched, ends, decisions, control>>

Finish ==
    /\ stage = "top" /\ ~Unfinished
    /\ stage' = "done" /\ stats' = FinishEpisodes(stats, Thresholds)
    /\ UNCHANGED <<now, arrival, next, waiting, dispatched, ends, depth, decisions, control>>

TraceNext == Advance \/ Dispatch \/ Settle \/ Finish
TraceSpec == Init /\ [][TraceNext]_vars

-----------------------------------------------------------------------------
(* The depth of the waiting list, from the times of the requests.          *)

\* The records, as far as the report of the correctness experiment reads them.
Facts == {[seq |-> r, arrival |-> arrival[r], enqueue |-> arrival[r],
           dispatch |-> dispatched[r]] : r \in Requests}

EventTimes == {arrival[r] : r \in Requests} \cup {dispatched[r] : r \in Requests}

\* The times of the events in order, and the net change of depth at each.
Time(i) == CHOOSE t \in EventTimes : Cardinality({u \in EventTimes : u < t}) = i - 1
Change(t) == Cardinality({r \in Requests : arrival[r] = t})
             - Cardinality({r \in Requests : dispatched[r] = t})
LastEvent == Cardinality(EventTimes)

\* replay_expkb_depth_eligibility: its variables after the i-th time, with one
\* open episode per threshold.
Replay ==
    LET f[i \in 0 .. LastEvent] ==
          IF i = 0
          THEN [depth |-> 0, peak |-> 0, time |-> [d \in 0 .. N |-> 0], sound |-> TRUE,
                start |-> [k \in Thresholds |-> None],
                episodes |-> [k \in Thresholds |-> <<>>]]
          ELSE LET s == f[i - 1]
                   d == s.depth + Change(Time(i))
                   since == IF i = 1 THEN Time(1) ELSE Time(i - 1)
                   opens == {k \in Thresholds : i > 1 /\ s.depth >= k /\ s.start[k] = None}
                   ends1 == {k \in Thresholds : i > 1 /\ s.depth < k /\ s.start[k] # None}
               IN [depth |-> d, peak |-> IF d > s.peak THEN d ELSE s.peak,
                   time |-> [s.time EXCEPT ![s.depth] = @ + Time(i) - since],
                   sound |-> s.sound /\ d >= 0,
                   start |-> [k \in Thresholds |-> IF k \in opens THEN since
                                ELSE IF k \in ends1 THEN None ELSE s.start[k]],
                   episodes |-> [k \in Thresholds |-> IF k \in ends1
                                   THEN Append(s.episodes[k], since - s.start[k])
                                   ELSE s.episodes[k]]]
    IN f[LastEvent]

ReplayEpisodes(replay, k) ==
    IF replay.start[k] = None THEN replay.episodes[k]
    ELSE Append(replay.episodes[k], Time(LastEvent) - replay.start[k])

\* The thresholds that the depth was at or above for some time: eligible_levels.
Eligible(replay) == {k \in Thresholds : Sum(replay.time, k .. N) > 0}

\* _reconstruct_expkb_no_clip: the same for one threshold at a time.
Reconstructed(k) ==
    LET f[i \in 0 .. LastEvent] ==
          IF i = 0 THEN [depth |-> 0, start |-> None, episodes |-> <<>>]
          ELSE LET s == f[i - 1]
                   d == s.depth + Change(Time(i))
               IN IF i > 1 /\ s.depth >= k /\ s.start = None
                  THEN [s EXCEPT !.depth = d, !.start = Time(i - 1)]
                  ELSE IF i > 1 /\ s.depth < k /\ s.start # None
                  THEN [depth |-> d, start |-> None,
                        episodes |-> Append(s.episodes, Time(i - 1) - s.start)]
                  ELSE [s EXCEPT !.depth = d]
        g == f[LastEvent]
    IN IF g.start = None THEN g.episodes
       ELSE Append(g.episodes, Time(LastEvent) - g.start)

\* Mutant: a request waits until it has been served.
WaitServed(r) == ends[r] - arrival[r]

\* calculate_metrics: the waits.
Wait(r) == dispatched[r] - arrival[r]

-----------------------------------------------------------------------------
(* What the log of decisions says of the controller.                       *)

LastDispatch == Max({dispatched[r] : r \in Requests})

\* Mutant: the stay that is under way at the end is left out.
ResidenceOfEnded(k) ==
    LET stays == {i \in 2 .. Len(decisions) : decisions[i - 1].new = k}
    IN Sum([i \in stays |-> decisions[i].time - decisions[i - 1].time],
           {i \in stays : \E j \in i .. Len(decisions) : decisions[j].new # k})

\* summarize_controller_health: the time on level k, from one decision to the
\* next, and in the end to the last dispatch.
Residence(k) ==
    LET until == [i \in 1 .. Len(decisions) |-> IF i = Len(decisions) THEN LastDispatch
                                                ELSE decisions[i + 1].time]
    IN Sum([i \in 1 .. Len(decisions) |-> until[i] - decisions[i].time],
           {i \in 1 .. Len(decisions) : decisions[i].new = k})

\* _transition_facts: the decisions that change the level, by their place.
Transitions == {i \in 1 .. Len(decisions) : decisions[i].new # decisions[i].old}

\* itertools.pairwise.
Successive == {x \in Transitions \X Transitions :
                  x[1] < x[2] /\ Transitions \cap (x[1] + 1 .. x[2] - 1) = {}}

\* Mutant: a transition is held by the hold of its own direction.
HoldOwn(e) == IF e.new > e.old THEN TightenHold ELSE RelaxHold

\* How long a transition is held: by the hold of the opposite one.
Hold(e) == IF e.new > e.old THEN RelaxHold ELSE TightenHold

\* check_thrash: the reversals that come too early.
EarlyReversals ==
    {x \in Successive :
        LET a == decisions[x[1]]
            b == decisions[x[2]]
        IN /\ (a.new > a.old) # (b.new > b.old)
           /\ b.time - a.time < Hold(a)}

Pressure(e) == IF e.q > e.bar THEN e.q ELSE e.bar

\* check_directionality: the decisions that loosen while the depth rises.
Anomalies ==
    {i \in 2 .. Len(decisions) :
        LET a == decisions[i - 1]
            b == decisions[i]
        IN b.q > a.q /\ (Pressure(b) < Pressure(a) \/ b.new < a.new)}

-----------------------------------------------------------------------------
\* Three programs that cut the history into episodes, over each threshold, find
\* the same episodes: the probe, which integrates them as it goes, including
\* times at which the depth falls and rises at once, and the two that replay
\* the times of the requests. No history makes any of them raise: the probe
\* ends with the last dispatch, and the replayed depth is never negative and
\* ends at zero.
EpisodesAgree ==
    stage = "done" =>
        LET replay == Replay
        IN /\ now = LastDispatch /\ replay.sound /\ replay.depth = 0
           /\ \A k \in Thresholds : /\ stats.episodes[k] = ReplayEpisodes(replay, k)
                                    /\ stats.episodes[k] = Reconstructed(k)

\* The integral of the depth, by the probe or the replay, is the sum of the
\* waits that the metrics report.
LittlesLaw ==
    stage = "done" =>
        /\ stats.depthTime = Replay.time
        /\ Sum([d \in 0 .. N |-> d * stats.depthTime[d]], 0 .. N)
           = Sum([r \in Requests |-> Wait(r)], Requests)

\* The two requests wait at one time.
Together(r, q) ==
    /\ arrival[r] < dispatched[r] /\ arrival[r] < dispatched[q]
    /\ arrival[q] < dispatched[q] /\ arrival[q] < dispatched[r]

\* The largest depth is the same to the probe, to the replay and to the report
\* of the correctness experiment, however many events share a time; the levels
\* that the gate of the sweep counts as eligible are those up to that depth;
\* and the report says that there was no contention just when no two requests
\* ever waited at one time.
PeaksAgree ==
    stage = "done" =>
        /\ {stats.peak, Replay.peak} = {M!MaxQueueDepth(Facts)}
        /\ Eligible(Replay) = {k \in Thresholds : k <= stats.peak}
        /\ \A bound \in {0, MaxTime} :
              M!Verdict(Facts, bound) = "no_contention"
              <=> \A r, q \in Requests : Together(r, q) => r = q

\* The log of decisions tells how long the controller was on each level.
ResidenceAgrees ==
    stage = "done" => \A k \in 0 .. 3 : Residence(k) = stats.levelTime[k]

\* The audit of the controller raises no false alarm: levels are not reversed
\* before the hold is over, whatever the queue shows the controller.
ThrashAuditPasses == EarlyReversals = {}

\* The other audit, and the design: while the depth rises, the pressure that is
\* logged does not fall, and no level is loosened.
DirectionKept == Anomalies = {}
=============================================================================
