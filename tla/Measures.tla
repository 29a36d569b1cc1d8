------------------------------- MODULE Measures -------------------------------
(***************************************************************************)
(* The facts that a benchmark keeps of its requests (metrics/records.py)   *)
(* and of the decisions of its queues, and what is computed from them: the *)
(* metrics (analysis/metrics.py), the verdict of the correctness           *)
(* experiment (experiments/correctness.py), and the agreement of the two   *)
(* kinds of facts (analysis/expl.py). Times are integers. What is a        *)
(* quotient of other metrics, or a time per token, is left out.            *)
(***************************************************************************)
EXTENDS ExperimentConfig, FiniteSets, FiniteSetsExt

None == -1

Statuses == {"SUCCESS", "ERROR", "TIMEOUT", "CANCELLED", "REJECTED"}

-----------------------------------------------------------------------------
(* Facts. A fate e tells what became of a request: its class, target,      *)
(* advertised length and times, its status, how long its answer would be,  *)
(* and the controller's level when it was sent.                            *)

\* The limit that went to the backend with a request, if it was sent.
Limit(c, e) ==
    IF c.adaptive /\ e.dispatch = None THEN e.target
    ELSE BackendLimit(c, e.level, e.target, e.seen)

\* The mixture asks for answers of exactly the limit, and only the realistic
\* workload does what the mixture says.
Forced(c) == \E mix \in c.mixture : mix.force
ForceExact(c) == c.lengthModel = "realistic" /\ Forced(c)

\* RequestRecord.from_envelope, for request `seq' of repetition `rep'.
Record(c, rep, seq, e) ==
    LET limit == Limit(c, e)
        tokens == IF e.first = None THEN 0
                  ELSE IF ForceExact(c) \/ limit < e.length THEN limit ELSE e.length
    IN [rep |-> rep, seq |-> seq, class |-> e.class, status |-> e.status,
        arrival |-> e.arrival, enqueue |-> e.enqueue, dispatch |-> e.dispatch,
        first |-> e.first, completion |-> e.completion,
        requested |-> e.target, limit |-> limit, tokens |-> tokens,
        finish |-> IF e.status # "SUCCESS" THEN "none"
                   ELSE IF tokens = limit THEN "length" ELSE "stop"]

\* RequestRecord.__post_init__: the events of a request are in their order.
Coherent(r) ==
    /\ 1 <= r.limit /\ r.limit <= r.requested
    /\ r.arrival <= r.enqueue
    /\ r.dispatch = None => r.enqueue <= r.completion /\ r.first = None
    /\ r.dispatch # None => r.enqueue <= r.dispatch /\ r.dispatch <= r.completion
    /\ r.first # None => /\ r.dispatch <= r.first /\ r.first <= r.completion
                         /\ r.tokens >= 1
    /\ r.status = "SUCCESS" => r.dispatch # None /\ r.first # None

\* read_request_records_jsonl: a line that is not a coherent record is refused.
Readable(R) == \A r \in R : Coherent(r)

\* AdaptiveCapDecisionRecord.from_admission, for a request that was sent.
Decision(c, rep, seq, e) ==
    [rep |-> rep, seq |-> seq, level |-> e.level, cap |-> SelectedCap(c, e.level)]

-----------------------------------------------------------------------------
(* calculate_metrics, over a set R of records.                             *)

Of(R, status) == {r \in R : r.status = status}
Sent(R) == {r \in R : r.dispatch # None}
ClipApplied(r) == r.limit < r.requested

MeetsSlo(r, c) ==
    LET profile == IF r.class = "interactive" THEN c.interactive ELSE c.batch
    IN /\ r.status = "SUCCESS" /\ r.first # None
       /\ r.first - r.arrival <= profile.ttft
       /\ r.completion - r.arrival <= profile.endToEnd

Attainment(R, c) ==
    [count |-> Cardinality(R), met |-> Cardinality({r \in R : MeetsSlo(r, c)})]

\* The least value that at least `percent' of the values do not exceed.
NearestRank(f, percent) ==
    LET rank(v) == Cardinality({x \in DOMAIN f : f[x] <= v})
    IN IF DOMAIN f = {} THEN None
       ELSE Min({f[x] : x \in {y \in DOMAIN f :
                                 100 * rank(f[y]) >= percent * Cardinality(DOMAIN f)}})

Percentiles(f) == [p \in {50, 95, 99} |-> NearestRank(f, p)]

QueueWait(r) == r.dispatch - r.arrival

Metrics(R, c) ==
    LET ok == Of(R, "SUCCESS")
        clipped == {r \in R : ClipApplied(r)}
    IN [requests |-> Cardinality(R),
        statuses |-> [s \in Statuses |-> Cardinality(Of(R, s))],
        tokens |-> MapThenSumSet(LAMBDA r : r.tokens, ok),
        window |-> IF R = {} THEN None
                   ELSE Max({r.completion : r \in R}) - Min({r.arrival : r \in R}),
        ttft |-> Percentiles([r \in ok |-> r.first - r.arrival]),
        endToEnd |-> Percentiles([r \in ok |-> r.completion - r.arrival]),
        waits |-> Percentiles([r \in ok |-> QueueWait(r)]),
        waited |-> MapThenSumSet(QueueWait, ok),
        longest |-> IF Sent(R) = {} THEN None ELSE Max({QueueWait(r) : r \in Sent(R)}),
        clipped |-> Cardinality(clipped),
        truncated |-> Cardinality({r \in clipped : r.finish = "length"}),
        reduction |-> MapThenSumSet(LAMBDA r : r.requested - r.limit, clipped),
        slo |-> Attainment(R, c),
        sloByClass |-> [k \in {r.class : r \in R} |->
                          Attainment({r \in R : r.class = k}, c)]]

-----------------------------------------------------------------------------
(* analyze_policy.                                                         *)

Enqueued(R, t) == Cardinality({r \in R : r.enqueue <= t})
EnqueuedBefore(R, t) == Cardinality({r \in R : r.enqueue < t})
Left(R, t) == Cardinality({r \in R : r.dispatch <= t})
LeftBefore(R, t) == Cardinality({r \in R : r.dispatch < t})

\* Mutant: among events of one time, the arrivals come first.
DepthsArrivalsFirst(R, t) ==
    {Enqueued(R, t) - LeftBefore(R, t), Enqueued(R, t) - Left(R, t)}

\* _max_queue_depth sorts events by time, and departures before arrivals: the
\* depths it passes are least and most after the departures, and the arrivals.
DepthsAround(R, t) == {EnqueuedBefore(R, t) - Left(R, t), Enqueued(R, t) - Left(R, t)}

\* The requests that were never sent do not count.
MaxQueueDepth(R) ==
    LET sent == Sent(R)
        times == {r.enqueue : r \in sent} \cup {r.dispatch : r \in sent}
    IN Max({0} \cup UNION {DepthsAround(sent, t) : t \in times})

LongestWait(R) == Max({0} \cup {QueueWait(r) : r \in Sent(R)})

\* _verdict: `bound' is the aging threshold and the margin. Every record has a
\* terminal status, so that none is unfinished.
Verdict(R, bound) ==
    CASE MaxQueueDepth(R) < 2 -> "no_contention"
      [] MaxQueueDepth(R) >= 2 /\ LongestWait(R) <= bound -> "within_bound"
      [] OTHER -> "bound_exceeded"

PolicyFacts(R, bound) ==
    [requests |-> Cardinality(R), sent |-> Cardinality(Sent(R)),
     rejected |-> Cardinality(Of(R, "REJECTED")),
     longest |-> LongestWait(R), depth |-> MaxQueueDepth(R),
     verdict |-> Verdict(R, bound),
     classes |-> [k \in {"interactive", "batch"} |->
                    LET of == {r \in Sent(R) : r.class = k}
                    IN [sent |-> Cardinality(of),
                        longest |-> NearestRank([r \in of |-> QueueWait(r)], 100),
                        p95 |-> NearestRank([r \in of |-> QueueWait(r)], 95)]]]

-----------------------------------------------------------------------------
(* analysis/expl.py.                                                       *)

Id(x) == <<x.seq, x.rep>>

\* reconcile_point: the formal records R are told apart, under a mixture that
\* forces it a success has as many tokens as its limit, and the metrics are
\* those m of the row of results.
RecordsReconcile(R, c, m) ==
    /\ \A r, q \in R : Id(r) = Id(q) => r = q
    /\ c.mixture # {}
    /\ Forced(c) => \A r \in Of(R, "SUCCESS") : r.tokens = r.limit /\ r.finish = "length"
    /\ Metrics(R, c) = m

\* read_decision_facts.
OneDecisionEach(D) ==
    /\ \A d \in D : d.level \in 0 .. 3
    /\ \A d, e \in D : Id(d) = Id(e) => d = e

\* reconcile_decisions: each request that was sent has one decision, and its
\* limit is the cap of that decision, if it has one, or what was requested.
DecisionsReconcile(R, D) ==
    /\ {Id(d) : d \in D} = {Id(r) : r \in Sent(R)}
    /\ \A d \in D, r \in Sent(R) : Id(d) = Id(r) =>
          \/ r.limit = r.requested
          \/ r.limit = d.cap /\ d.cap # NoCap /\ d.cap < r.requested
    /\ \A d \in D : d.level = 0 <=> d.cap = NoCap
=============================================================================
