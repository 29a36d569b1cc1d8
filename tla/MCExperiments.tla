---------------------------- MODULE MCExperiments ----------------------------
(***************************************************************************)
(* Experiments for TLC: configs/base.yaml in units of 256 tokens, with two *)
(* formal requests, and overrides that are harmless, that a base refuses,  *)
(* that only the whole configuration refuses, and that only the queue      *)
(* refuses.                                                                *)
(***************************************************************************)
EXTENDS Experiments

Profile == [minTokens |-> 1, maxTokens |-> 4, ttft |-> 1, endToEnd |-> 2]

Base == [policy |-> "fcfs", clipMaxTokens |-> 8, clip |-> FALSE,
    clipSource |-> "advertised", clipEstimator |-> FALSE, caps |-> <<6, 4, 2>>,
    tighten |-> <<4, 8, 12>>, relax |-> <<1, 3, 6>>, tightenHold |-> 4,
    relaxHold |-> 30, adaptive |-> FALSE, signal |-> "queue_depth_ewma",
    capacityRps |-> FALSE, costWeight |-> 1, slackWeight |-> 1, waitingWeight |-> 1,
    agingThreshold |-> 30, agingLevels |-> 1, margin |-> 3, floor |-> 1,
    ceiling |-> 15, lengthSource |-> "true", lengthEstimator |-> FALSE, rate |-> 1,
    total |-> 2, warmup |-> 1, repetitions |-> 2, interactive |-> Profile,
    batch |-> Profile, lengthModel |-> "realistic",
    mixture |-> {[shares |-> <<50, 35, 15>>, mus |-> <<62, 70, 78>>, clampMin |-> 1,
                  clampMax |-> 8, force |-> TRUE]},
    requestTimeout |-> 180, maxInFlight |-> 16, queueCapacity |-> 256,
    serverAddress |-> 8000, backendAddress |-> 8000, maxNumSeqs |-> 16,
    saveJsonl |-> TRUE, saveCsv |-> TRUE]

Harmless == {Nothing, [policy |-> "slo_aware"], [caps |-> <<5, 4, 3>>],
             [clip |-> TRUE, clipMaxTokens |-> 2]}
Adaptive == {[clip |-> TRUE, adaptive |-> TRUE],
             [clip |-> TRUE, adaptive |-> TRUE, caps |-> <<5, 3, 2>>]}
Refused == {[caps |-> <<2, 4, 6>>], [adaptive |-> TRUE], [maxInFlight |-> 17],
            [relax |-> <<1, 8, 9>>], [clip |-> TRUE, clipSource |-> "learned"],
            [costWeight |-> 0, slackWeight |-> 0, waitingWeight |-> 0],
            [maxNumSeqs |-> 99]}
Unbuildable == {[clip |-> TRUE, adaptive |-> TRUE, signal |-> "in_system"]}

Overrides == Harmless \cup Adaptive \cup Refused \cup Unbuildable

Label(words) == [words |-> words, plain |-> TRUE]
Point(o) == [label |-> Label(<<"point">>), set |-> o]

\* A sweep for the audit: two points of high load and one of low load. Their
\* labels may be good, one the end of another, not plain, or the same.
Labels ==
    {<<Label(<<"high", "a", "s1">>), Label(<<"high", "b", "s1">>), Label(<<"low", "a", "s1">>)>>,
     <<Label(<<"high", "a", "s1">>), Label(<<"high", "b", "s1">>),
       Label(<<"low", "high", "a", "s1">>)>>,
     <<Label(<<"high", "a", "s1">>), [words |-> <<"high", "a", "s1">>, plain |-> FALSE],
       Label(<<"low", "a", "s1">>)>>,
     <<Label(<<"high", "a", "s1">>), Label(<<"high", "a", "s1">>), Label(<<"low", "a", "s1">>)>>}

LabelledPoints(labels) ==
    {<<[label |-> labels[1], set |-> a @@ [rate |-> 2]],
       [label |-> labels[2], set |-> b @@ [rate |-> 2]], [label |-> labels[3], set |-> c]>> :
        a \in Adaptive, b \in Harmless \cup Adaptive, c \in Adaptive \cup {Nothing, [rate |-> 2]}}

\* Elsewhere two labels are the same.
MCSweepFiles ==
    [base : {Base}, overrides : {Nothing, [clip |-> TRUE, adaptive |-> TRUE]},
     points : {<<>>} \cup {<<Point(a)>> : a \in Overrides}
              \cup {<<Point(a), Point(b)>> : a, b \in Overrides}
              \cup {<<Point(a), Point(b), Point(c)>> :
                      a \in Harmless \cup Adaptive, b \in Adaptive, c \in Overrides}]
    \cup [base : {Base}, overrides : {Nothing, [saveJsonl |-> FALSE], [lengthModel |-> "uniform_cap"]},
          points : UNION {LabelledPoints(labels) : labels \in Labels}]
    \cup [base : {Override(Base, o) : o \in Refused}, overrides : {Nothing},
          points : {<<Point(Nothing)>>}]

MCConfigFiles == {Override(Base, o) : o \in Overrides}

MCPolicies == <<"fcfs", "static_priority", "slo_aware">>

\* A request that arrives and is enqueued at t, and is sent after `wait'. Its
\* answer would be short, if the workload did not force its length.
Fate(t, class, target, seen, level, status, wait, first, completion) ==
    [class |-> class, target |-> target, seen |-> seen, level |-> level,
     status |-> status, arrival |-> t, enqueue |-> t,
     dispatch |-> IF wait = None THEN None ELSE t + wait,
     first |-> IF first = None THEN None ELSE t + first,
     completion |-> t + completion, length |-> 1]

\* Outcomes of requests 0 (warmup), 1 and 2 of a repetition that begins at t.
Quiet(t) == <<Fate(t, "batch", 8, 8, 0, "SUCCESS", 0, 1, 2),
              Fate(t + 1, "interactive", 3, 3, 0, "SUCCESS", 0, 1, 2),
              Fate(t + 5, "batch", 8, 8, 0, "SUCCESS", 0, 1, 2)>>
Crowded(t) == <<Fate(t, "batch", 8, 8, 1, "SUCCESS", 0, 1, 9),
                Fate(t, "interactive", 8, 8, 2, "SUCCESS", 9, 10, 11),
                Fate(t + 1, "batch", 8, 5, 3, "SUCCESS", 10, 11, 12)>>
Troubled(t) == <<Fate(t, "batch", 8, 8, 1, "ERROR", 0, None, 1),
                 Fate(t, "interactive", 5, 8, 0, "TIMEOUT", None, None, 9),
                 Fate(t, "batch", 8, 8, 3, "CANCELLED", 1, 2, 3)>>
Refusing(t) == <<Fate(t, "batch", 8, 8, 3, "SUCCESS", 0, 1, 9),
                 Fate(t, "interactive", 5, 8, 0, "REJECTED", None, None, 0),
                 Fate(t, "interactive", 8, 8, 0, "REJECTED", None, None, 0)>>

\* A success without a token has no record.
Silent(t) == <<Fate(t, "batch", 8, 8, 0, "SUCCESS", 0, 1, 2),
               Fate(t, "interactive", 3, 3, 0, "SUCCESS", 2, None, 4),
               Fate(t, "batch", 8, 8, 0, "SUCCESS", 4, 5, 6)>>

Repetitions(first, second) ==
    [x \in {0, 1} \X (0 .. 2) |-> (IF x[1] = 0 THEN first ELSE second)[x[2] + 1]]

MCOutcomes == {Repetitions(Quiet(0), Crowded(20)), Repetitions(Troubled(0), Refusing(20)),
               Repetitions(Refusing(0), Refusing(20)), Repetitions(Quiet(0), Silent(20))}

MCExpectedRate == [low |-> 1, high |-> 2]
MCMatrix == [low |-> 1, high |-> 2]
=============================================================================
