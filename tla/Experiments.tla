----------------------------- MODULE Experiments -----------------------------
(***************************************************************************)
(* The two experiments that run many benchmarks one after the other: a     *)
(* sweep (experiments/sweep.py), whose points override fields of a base    *)
(* configuration, and the correctness experiment                           *)
(* (experiments/correctness.py), one benchmark per policy. Each benchmark  *)
(* has a backend of its own, and writes its records when it ends well; the *)
(* table of results is written when all of them have.                      *)
(*                                                                         *)
(* A benchmark (module Benchmark) is one step here: it ends well, with any *)
(* of a few outcomes for its requests, or raises, because of a failure or  *)
(* a cancellation, and writes nothing.                                     *)
(*                                                                         *)
(* The audit (analysis/expl.py) reads the results of a sweep again, finds  *)
(* the files of each point by its label, and refuses what does not agree.  *)
(***************************************************************************)
EXTENDS Measures, Sequences, SequencesExt

CONSTANTS
    SweepFiles,    \* sweep files: a base, overrides of it, and points
    ConfigFiles,   \* configuration files of the correctness experiment
    Policies,      \* its policies, in their order
    MinCap,        \* 512 tokens
    Tokens,        \* lengths of requests
    Outcomes,      \* what may become of the requests of a benchmark, by
                   \* repetition and sequence number
    Margin,        \* bound_margin_s
    Loads,         \* what the first word of a label can be: low, high
    Seeds,         \* what its last word can be
    ExpectedRate,  \* the request rate of a load
    Matrix         \* how many points of each load the audit expects

\* What the models of config.py and sweep.py make sure of when a file is read:
\* a base has all fields, and every field that is set has its type.
ASSUME FilesAssumption ==
    /\ \A f \in SweepFiles :
          /\ DOMAIN FieldTypes \subseteq DOMAIN f.base
          /\ Typed(f.base) /\ Typed(f.overrides)
          /\ f.points \in Seq(ToSet(f.points))
          /\ \A p \in ToSet(f.points) :
                Typed(p.set) /\ p.label.words \in Seq(ToSet(p.label.words))
    /\ \A c \in ConfigFiles : DOMAIN FieldTypes \subseteq DOMAIN c /\ Typed(c)

\* _DEFAULT_POLICIES: no policy comes twice.
ASSUME PoliciesAssumption == Policies \in Seq(ToSet(Policies)) /\ IsInjective(Policies)

ASSUME TokensAssumption == MinCap \in Nat \ {0} /\ Tokens \subseteq Int

\* The controller has four levels.
ASSUME OutcomesAssumption ==
    \A outcome \in Outcomes : \A x \in DOMAIN outcome :
        outcome[x].level \in 0 .. 3 /\ {outcome[x].target, outcome[x].seen} \subseteq Tokens

\* A point names the fields that it overrides. A policy of the correctness
\* experiment is a point that overrides the policy.
Overridable == {"policy", "rate", "maxInFlight", "agingThreshold", "costWeight",
    "slackWeight", "waitingWeight", "lengthSource", "lengthEstimator", "clip",
    "clipMaxTokens", "clipSource", "clipEstimator", "adaptive", "signal", "caps",
    "tighten", "relax", "tightenHold", "relaxHold", "capacityRps", "agingLevels",
    "margin", "floor", "ceiling"}

VARIABLES
    kind,        \* which experiment
    stage,       \* where it is
    base,        \* the base configuration
    points,      \* the points, each with a row once it has run
    config,      \* the configuration of the benchmark that runs
    telemetry,   \* the points whose requests the current backend has seen
    rows,        \* the rows of results, with what they were computed from
    files,       \* the records and decisions in the files of each stem
    table        \* the rows of the result file, if there is one

loaded == <<kind, base, points>>
vars == <<loaded, stage, config, telemetry, rows, files, table>>

Nothing == [x \in {} |-> 0]

ExperimentInit ==
    /\ kind \in {"sweep", "correctness"} /\ stage = "load"
    /\ base = Nothing /\ points = <<>> /\ config = Nothing
    /\ telemetry = {} /\ rows = <<>> /\ files = Nothing /\ table = <<>>

-----------------------------------------------------------------------------
\* The fields of `set' win over those of c.
Override(c, set) ==
    [x \in DOMAIN set \cup DOMAIN c |-> IF x \in DOMAIN set THEN set[x] ELSE c[x]]

\* SweepPoint: what is checked of a field by itself.
ValidPoint(p) ==
    /\ DOMAIN p.set \subseteq Overridable
    /\ \A x \in DOMAIN p.set \cap {"rate", "maxInFlight", "agingThreshold",
           "clipMaxTokens", "agingLevels", "margin", "floor", "ceiling"} :
           Positive(p.set[x])

Fails ==
    /\ stage' = "failed"
    /\ UNCHANGED <<loaded, config, telemetry, rows, files, table>>

Begins(b, ps) ==
    /\ stage' = "next" /\ base' = b /\ points' = ps
    /\ UNCHANGED <<kind, config, telemetry, rows, files, table>>

\* load_sweep_config: the base that is referred to is valid, and is again
\* when the overrides have been merged into it. Points are not yet applied.
LoadSweep ==
    /\ kind = "sweep" /\ stage = "load"
    /\ \E f \in SweepFiles :
          LET merged == Override(f.base, f.overrides)
              valid == /\ f.points # <<>>
                       /\ ValidConfig(f.base, MinCap) /\ ValidConfig(merged, MinCap)
                       /\ \A i \in 1 .. Len(f.points) : ValidPoint(f.points[i])
          IN IF valid THEN Begins(merged, f.points) ELSE Fails

PolicyPoints ==
    [i \in 1 .. Len(Policies) |-> [label |-> [words |-> <<Policies[i]>>, plain |-> TRUE],
                                  set |-> [policy |-> Policies[i]]]]

LoadConfig ==
    /\ kind = "correctness" /\ stage = "load"
    /\ \E c \in ConfigFiles :
          IF ValidConfig(c, MinCap) THEN Begins(c, PolicyPoints) ELSE Fails

\* Mutant: a point inherits what the point before it has overridden.
ConfigForPointLeaks(c, p) ==
    Override(IF config = Nothing THEN c ELSE config, p.set)

\* config_for_point and _with_policy.
ConfigForPoint(c, p) == Override(c, p.set)

\* Only the sweep validates what it has put together.
Accepted(c) == kind = "sweep" => ValidConfig(c, MinCap)

\* make_backend: a client and a backend of its own, with no telemetry.
FreshBackend == telemetry' = {}

Current == Len(rows) + 1

BeginPoint ==
    /\ stage = "next" /\ Len(rows) < Len(points)
    /\ LET c == ConfigForPoint(base, points[Current])
       IN IF Accepted(c)
          THEN /\ stage' = "running" /\ config' = c /\ FreshBackend
               /\ UNCHANGED <<loaded, rows, files, table>>
          ELSE Fails

\* Mutant: the label alone names the file.
StemByLabel(i) == <<0, points[i].label.words>>

\* The stem of the files of point i. For a sweep: the index of the point, which
\* makes it unique, and the label in lower case, with one dash between the words.
Stem(i) == <<IF kind = "sweep" THEN i ELSE 0, points[i].label.words>>

\* Mutant: the metrics are those of the warmup requests, too.
FormalAll(c, R) == R

\* Warmup requests come first.
Formal(c, R) == {r \in R : r.seq >= c.warmup}

\* The requests of a benchmark, by repetition and sequence number.
Requests(c) == (0 .. c.repetitions - 1) \X (0 .. c.warmup + c.total - 1)

\* The records of a benchmark, and the decisions for the requests it sent.
Records(c, outcome) == {Record(c, x[1], x[2], outcome[x]) : x \in DOMAIN outcome}
Decisions(c, outcome) ==
    {Decision(c, x[1], x[2], outcome[x]) :
        x \in {y \in DOMAIN outcome : c.adaptive /\ outcome[y].dispatch # None}}

\* write_request_records and the sidecar: what is in the files of point i.
Written(i, c, outcome) ==
    [point |-> i, records |-> Records(c, outcome), jsonl |-> c.saveJsonl,
     decisions |-> Decisions(c, outcome), adaptive |-> c.adaptive]

\* What an experiment says of a benchmark: _metric_row, analyze_policy.
Results(c, R) == IF kind = "sweep" THEN Metrics(R, c)
                 ELSE PolicyFacts(R, base.agingThreshold + Margin)

\* The benchmark ends well: it has a record of each request. Records and
\* decisions are written, and the results are computed.
BenchmarkEnds ==
    /\ stage = "running" /\ Buildable(config)
    /\ telemetry' = telemetry \cup {Current}
    /\ \E outcome \in Outcomes :
          LET R == Records(config, outcome)
          IN /\ DOMAIN outcome = Requests(config)
             /\ \A r \in R : Coherent(r)
             /\ files' = Override(files, [stem \in {Stem(Current)} |->
                                            Written(Current, config, outcome)])
             /\ rows' = Append(rows, [label |-> points[Current].label, config |-> config,
                                      saw |-> telemetry',
                                      results |-> Results(config, Formal(config, R))])
    /\ stage' = "next" /\ UNCHANGED <<loaded, config, table>>

\* It raises, or is cancelled; or the queue cannot be built.
BenchmarkRaises == stage = "running" /\ Fails

WriteTable ==
    /\ stage = "next" /\ Len(rows) = Len(points)
    /\ stage' = "done" /\ table' = rows
    /\ UNCHANGED <<loaded, config, telemetry, rows, files>>

-----------------------------------------------------------------------------
(* The audit of a sweep.                                                   *)

\* _point_identity: the load of a label, if it has that form.
Load(label) == IF /\ Len(label.words) >= 3 /\ label.words[1] \in Loads
                  /\ label.words[Len(label.words)] \in Seeds
               THEN label.words[1] ELSE "none"

\* _validate_matrix, and the rows of the table against it.
MatrixFits ==
    /\ \A i, j \in 1 .. Len(points) : points[i].label = points[j].label => i = j
    /\ \A i \in 1 .. Len(points) : Load(points[i].label) \in Loads
    /\ \A load \in Loads :
          Cardinality({i \in 1 .. Len(points) : Load(points[i].label) = load}) = Matrix[load]

\* _one_matching_file: the pattern has the label as it stands, not the words of
\* the stem, and what precedes it may be anything.
Matching(label) == {stem \in DOMAIN files : label.plain /\ IsSuffix(label.words, stem[2])}

PointReconciles(i) ==
    LET label == points[i].label
        c == ConfigForPoint(base, points[i])
        facts == {stem \in Matching(label) : files[stem].jsonl}
        sidecars == {stem \in Matching(label) : files[stem].adaptive}
        row == CHOOSE row \in ToSet(table) : row.label = label
    IN /\ c.rate = ExpectedRate[Load(label)]
       /\ \E f \in facts :
             /\ facts = {f} /\ Readable(files[f].records)
             /\ RecordsReconcile({r \in files[f].records : r.seq >= c.warmup}, c, row.results)
             /\ c.adaptive => \E d \in sidecars :
                   /\ sidecars = {d} /\ OneDecisionEach(files[d].decisions)
                   /\ DecisionsReconcile(files[f].records, files[d].decisions)

\* analyze_expl, up to its statistics.
Audit ==
    /\ kind = "sweep" /\ stage = "done"
    /\ stage' = IF MatrixFits /\ \A i \in 1 .. Len(points) : PointReconciles(i)
                THEN "audited" ELSE "refused"
    /\ UNCHANGED <<loaded, config, telemetry, rows, files, table>>

ExperimentNext ==
    \/ LoadSweep \/ LoadConfig \/ BeginPoint \/ BenchmarkEnds \/ BenchmarkRaises
    \/ WriteTable \/ Audit

ExperimentSpec == ExperimentInit /\ [][ExperimentNext]_vars

-----------------------------------------------------------------------------
\* In any benchmark that runs, whatever its point overrides, a tighter level
\* never gives a request a longer limit.
TighterNeverLonger ==
    stage = "running" => \A k \in 0 .. 2, target \in Tokens, seen \in Tokens :
        BackendLimit(config, k + 1, target, seen) <= BackendLimit(config, k, target, seen)

\* A row tells of its own point only: its configuration is the base with the
\* overrides of that point, and its backend has seen no other point, although
\* all points ask for requests of the same names. It tells of all formal
\* requests, whatever became of them, and of no other.
RowsOwnPoints ==
    \A i \in 1 .. Len(rows) :
        /\ rows[i].saw = {i}
        /\ rows[i].results.requests = base.total * base.repetitions
        /\ \A x \in DOMAIN base :
              rows[i].config[x] = IF x \in DOMAIN points[i].set THEN points[i].set[x]
                                  ELSE base[x]

\* Whatever becomes of the points after it, and whatever their labels, the
\* records of a point that ended well stay in a file of their own.
FilesKept == \A i \in 1 .. Len(rows) : \E s \in DOMAIN files : files[s].point = i

\* Whatever became of the requests, and whatever the points override, the audit
\* of a finished sweep refuses it only for what is in the sweep's own file: its
\* labels, rates, formats and workload.
AuditAccepts ==
    stage = "refused" =>
        ~ /\ MatrixFits /\ base.saveJsonl
             /\ base.lengthModel = "realistic"
          /\ \A i, j \in 1 .. Len(points) :
                /\ points[i].label.plain
                /\ IsSuffix(points[i].label.words, points[j].label.words) => i = j
                /\ ConfigForPoint(base, points[i]).rate
                   = ExpectedRate[Load(points[i].label)]

\* Rows whose configurations have the same hash were clipped alike, although
\* the hash may leave out fields.
SameHashSameLimits ==
    \A i, j \in 1 .. Len(rows) :
        Hashed(rows[i].config) = Hashed(rows[j].config)
        => \A k \in 0 .. 3, target \in Tokens, seen \in Tokens :
              BackendLimit(rows[i].config, k, target, seen)
              = BackendLimit(rows[j].config, k, target, seen)
=============================================================================
