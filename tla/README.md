# SLOServe: TLA+ models, model checks and proofs

SLOServe puts a router in front of a vLLM server. The router decides outside
the inference engine which request is sent next and how many are in flight. The
project models the parts of the program where concurrency decides whether it is
right, and the experiments around them, whose results are only worth what the
chain from a request to a row of a table keeps of it. It checks them with TLC on
small instances, and proves the main safety properties with TLAPS for every value of
the constants.

## 1. Inventory

| part (under `src/src/sloserve/`) | state it keeps | operations | hard behaviour | what makes it correct |
| --- | --- | --- | --- | --- |
| admission queue, `router/admission.py` | waiting list, entries with a state, task sets, `_started/_closing/_closed` | `start`, `submit`, `aclose`; watchdog, backend and runner task per request | interleaving of four kinds of tasks, cancellation at every await, deadlines, shutdown | each request answered once and truthfully; slots and capacity respected until the work has really stopped; no lost wake-up; everything ends |
| adaptive cap, `router/adaptive_clipping.py`, `router/clipping.py` | level L0-L3, last depth, moving average, hold clocks | `update` at each dispatch, `apply_adaptive_cap` | holds and hysteresis over sequences of updates, signals that are stale when used | a level is entered and left on a whole hold of its own evidence |
| policies, `router/policies/` | none | `order` | ties, aging tiers, starvation | a total order that depends only on what it is shown; aged requests win |
| HTTP backend, `workload/http_backend.py` | telemetry per request id | `send` | telemetry of an earlier repetition, failures without a text | what is recorded belongs to the request |
| benchmark, `experiments/benchmark.py` | records, decisions | `run_benchmark` | teardown after a failure or a cancellation, joining results of repetitions | nothing outlives a run; one record per request, none of another repetition |
| GPU sampler, `experiments/gpu.py` | samples, its task | enter, exit | a cancellation swallowed on exit | the task ends with the context |
| configuration, `config.py`, `metrics/config_hash.py` | none | validation, hash | constraints across fields; fields left out of the hash | a validated configuration is one the queue can be built with; equal hashes, equal behaviour |
| records, metrics, `metrics/`, `analysis/metrics.py` | files | build, write, read, summarise | empty sets, equal times | coherent timelines; writer and reader agree |
| sweep, correctness experiment, `experiments/sweep.py`, `experiments/correctness.py`, `cli.py` | rows, files | a benchmark per point or policy | points that influence each other, bad points found late, names of files | a row tells of its own point; what ended well stays |
| analysis, `analysis/expl.py`, `scripts/probe_week7_lowload_depth.py` | none | audit, replay, gates, simulation | equal times, holds that end exactly at a decision, labels | independent programs agree; no false alarm |
| dispatcher, workload generator, length predictor, plots, scripts | a semaphore; none | sampling, process launch | - | - |

The benchmark creates one queue per repetition, submits every request from a
task of its own (`_submit_at_arrival`) and closes the queue when all results
are in. The queue calls the policy to choose, the controller and the clipper to
cap, and the backend to serve. All of it runs on one asyncio event loop. A sweep and the
correctness experiment run one benchmark after the other, each on a backend of
its own. The analysis reads the files that they leave, without talking to them.

## 2. Modules

| module | what it is |
| --- | --- |
| `AdmissionQueue` | the queue's tasks, detailed: `router/admission.py` without the adaptive branch |
| `AdmissionContract` | what the queue promises, without tasks, cancellation or time |
| `QueueRefinesContract` | the refinement mapping from the first to the second |
| `AdaptiveClip` | the controller: `router/adaptive_clipping.py` |
| `AdaptiveClipHistory` | the controller with history variables, to say what a change of level rests on |
| `AdaptiveAdmission` | the queue driving the controller: the admission loop pick by pick, with its adaptive branch |
| `Policies` | the orders of the three policies: `router/policies/` |
| `PolicyQueue` | a waiting list and its slots over time, under one of the policies |
| `Benchmark` | a benchmark over `AdmissionContract`: repetitions, submissions, backend calls and their telemetry, teardown, the GPU sampler |
| `ExperimentConfig` | what a validated configuration promises, what its hash sees, and the clipper's functions |
| `Measures` | records and decisions, the metrics, the correctness verdict, and their reconciliation, as operators |
| `Experiments` | the sweep and the correctness experiment over `ExperimentConfig` and `Measures`, and the audit of a sweep |
| `DepthTrace` | the probe's simulation, with `AdaptiveClip` as its controller, and the programs that measure the same waiting list from records and decisions |
| `MCAdmissionQueue`, `MCAdaptiveClip`, `MCAdaptiveAdmission`, `MCPolicyQueue`, `MCBenchmark`, `MCExperiments`, `MCDepthTrace` | instances for TLC |
| `AdmissionQueueProofs`, `RefinementProofs`, `AdaptiveClipProofs`, `PolicyQueueProofs`, `BenchmarkProofs`, `ExperimentProofs`, `TraceProofs`, `ReplayProofs` | theorems and proofs |

### The admission queue

`AdmissionQueue` has one control-state variable per task: `caller[r]` is the
task inside `submit`, `timer[r]` runs `_watch_timeout`, `backend[r]` runs
`backend.send`, `runner[r]` runs `_run_backend`, and `closer[c]` is a task inside
`aclose`. The values name the await at which the task is suspended and
whether a cancellation is on its way to it. `waiting`, `st`, `enq`, `forced` and
`result` are `_waiting` and the fields of `_QueueEntry`; `mode` stands for the
three flags.

What a task does between two awaits is one action. That is sound because the
critical sections of the class contain no await: its `asyncio.Condition` is never
held across a suspension, so acquiring it never suspends either. Three facts about
asyncio matter, and the model keeps them apart:

- `Task.cancel()` only marks a task. `CancelledError` is thrown into it when the
  loop next runs it, so that other tasks may run in between ("cancel", "thrown").
- A task that is cancelled before its first step never executes its body
  ("doomed", "dead"): a backend that was never entered, or a runner that never
  completes its request.
- Cancelling a task that awaits another one, or a `gather`, passes the
  cancellation on ("relayed"). If the other task has ended, the awaiting task is
  cancelled itself. `asyncio.shield` stops it: a cancelled caller does not cancel
  the result it awaits.

The policy is the constant operator `Selectable`: what `order` may put first.
`MCAdmissionQueue` lets it be anything, so that what is checked, and what is
proved, holds for each policy of the program. What the backend does is its own
business: it may return, fail, raise `CancelledError` or never answer; after
a cancellation it ends, in any of the three ways. Ready tasks run in any order. This
contains the FIFO order of asyncio's loop and keeps the results independent
of it.

### The adaptive cap

`AdaptiveClip` has one action, `Update(q)`, whose four cases are the four
ways through `_update_level`: `Tighten`, `AwaitTightening`, `Keep`, `Relax`.
`HoldClocks(p)` is what the loop over the thresholds makes of `_tighten_since_s`.
Numbers are in units of which each threshold is a multiple, and the
moving average is rounded down to units; comparisons with thresholds do not
notice. The exponential weights are abstracted: in time the average moves
anywhere between where it was and the depth last shown, and while the clock stands still it
does not move. This contains every value of `tau`.

`AdaptiveClipHistory` adds `pressed` and `eased`: since when each update has
seen a pressure over a threshold, or under the relax threshold of the
present level. They are computed from the pressure only, never from the hold
clocks of the code, so that the properties compare two independent accounts.

`AdaptiveAdmission` joins the two. The code computes the depth in the middle of
the admission loop: after the request has left the list, before it counts as in
flight, and with further picks to come. So the two handlers that run the loop are split:
`SubmitEnters` and `RunnerEnters` bring a task to the loop, each turn is a step,
`PickLate` or `PickSent`, and `LeavesLoop` ends the loop and the handler. `PickSent` evaluates
`StableDepth` on what the list and the entries are at that point (`Listed`, `States`) and is an
`Update` of the controller. The task holds the lock and does not await, so no
other step is possible meanwhile (`LockFree`); the variables of `AdmissionQueue` keep the
values of before the handler, `picks` says what it has done so far, and they
change when it releases the lock. That this is the same queue is not assumed: the
loop re-reads list and slots for each turn, and `LoopIsAtomic` says that it
implements `AdmissionQueue`, where `AdmitLoop` describes the whole loop in one step.
`shown` is a history variable, the depths that the running loop has shown. All other steps are those of
`AdmissionQueue` (`PlainStep`) and leave the controller alone. The clock stands still within a handler.
The cap of a request is the level after its update; the
decision log is left out, but each decision's trigger is kept.

### The policies

`Policies` says which waiting request each policy puts first. A score is
compared after multiplying with the budgets, an adaptive threshold is kept in units of
`1 / Scale`, so that all is integer arithmetic and exact. The policy and whether its threshold
adapts are variables that are chosen at the start and stay, so that one run covers all of them. Budget and estimated service
are constants of a request's kind; a score then depends on the kind and on the age.
Rounding of floats is abstracted. A budget of zero, which the code replaces by a
tiny one, cannot come from a validated configuration and is left out.

`PolicyQueue` asks how long a request can wait. It is the queue reduced to what
a policy sees: requests are anonymous and never run out, a list of requests holds
kinds and ages in the order of arrival, and there is no clock, only ages that
grow. Three things are taken from the queue. A submit and a completion dispatch in
the same step, and a slot idles only while nothing waits (`WorkConserving`). A
request may leave at any time (deadline or cancellation). It keeps its slot for
`MaxService` at most, which the watchdog enforces with `request_timeout_s`. Submits come
through `_submit_at_arrival`, which may wake up late: a request joins at its place
by arrival, with an age of up to `MaxLateness`.

### The benchmark

`Benchmark` uses the queue through its contract, which `AdmissionQueue` implements:
the actions of `AdmissionContract` are conjoined with what the tasks
around it do. `main` is where `run_benchmark` is suspended: in the gather, in the
gather of its handler, in `aclose`, in the sampler's exit. `task[r]` is `_submit_at_arrival`,
`call[r]` is `backend.send`, `asked` are the submissions that a `CancelledError` is on
its way to. `telemetry[r]` says which repetition wrote the entry last and whether a token has
come; that is all `_join_repetition` can get wrong, since a clock reading of an earlier
repetition looks like any other. A failure of a backend call has a text or
none (`"mute"`), which decides whether its record can be built. The main task may be
cancelled once, at any await; `fate` is how the body is being left and
`stop` what has become of the cancellation. Time is left out, so a deadline may pass
at any moment.

### Experiments, configurations and measures

A configuration is one flat record. `ValidConfig` has every constraint of the
validators between fields, in units in which all values are whole; `Buildable` is what
only the constructor of the controller refuses. `Experiments` has a step per point:
the overriding of the base, the validation that a sweep makes of a point only when it comes to
it, and a benchmark, which ends well with one of the `Outcomes` for its requests
or raises. An outcome gives a request's class, times, status and level;
`Record` derives from it what is stored: limit, tokens and finish reason come from the
configuration through the clipper. Rows hold the metrics or the facts of
the correctness report, computed by `Measures` from the formal records; files hold all
records. The audit finds the files of a point by its label and checks what
`analyze_expl` checks before its statistics. Labels are sequences of words, plain
if the slug of the label is the label itself.

### Measuring the waiting list

`DepthTrace` runs the simulation of the probe: advance to the next event, integrate, free slots,
dispatch, take arrivals, dispatch again. What the probe integrates is
then compared with what is computed from the times of the requests by
`replay_expkb_depth_eligibility`, `_reconstruct_expkb_no_clip`, `_max_queue_depth` and
the metrics, and from the log of decisions by `summarize_controller_health`,
`check_thrash` and `check_directionality`. In the simulation a request is
enqueued at its arrival.

## 3. What the runs check

| run | instance | shows |
| --- | --- | --- |
| `aq_cancel` | 3 requests of which 2 enter the queue (`TwoEntries`), 1 cancellable caller, 1 slot, 1 closer that may be cancelled, deadline 1, clock to 1 | types, bookkeeping, slots, watchdogs, drained cancellations, joined acloses, truthful statuses, closed gate; the queue implements `AdmissionContract`, which has its limits |
| `aq_live` | 2 requests, one caller cancellable, a silent backend, one aclose | every accepted `submit` ends if time passes; an aclose that is not cancelled ends even if none does |
| `ac_holds` | depths 0, 1, 2, 3 in units of a half, tighten hold 1, relax hold 2, clock to 7 | the holds of the controller |
| `aa_projection` | 4 requests, 2 slots, capacity 2, one aclose that may be cancelled, deadline 1, clock to 2, with the controller; the backend answers or ends when cancelled (`PlainOutcomes`), and tasks with nothing left to decide go first (`SettledFirst`) | nobody waits beside a free slot, the loop pick by pick is the loop in one step, and the depth projected inside it is exact |
| `aa_stale_depth` | 3 requests, 1 slot, no aclose, otherwise the same | a disagreement with the design, see below |
| `pq_waits` | all three policies, fixed and adaptive threshold (two tiers; 5, or between 1 and 7 at 1.5 times the median wait), two kinds, 2 slots, capacity 4, service up to 2, lateness 1 | the ceiling bounds every guarded wait and is oldest first, and nobody overtakes a request like itself |
| `pq_doc_bound` | the same with one tier, a threshold of 7, 1 slot, capacity 3 | a disagreement with the notes, see below |
| `bench` | 2 repetitions of 3 requests of which 2 get the slot (`TwoCalls`), capacity 1, with and without a sampler, one cancellation of the run, submissions and backend calls that fail | the run never gets stuck, leaves nothing behind, writes all records or none, with telemetry of their own |
| `bench_failures` | 1 repetition of 2 requests | a disagreement with the notes, see below |
| `experiment` | sweeps of up to 3 points over a base in units of 256 tokens, with 14 overrides of points (harmless, adaptive, refused at once, refused late, not buildable) and 3 of the whole sweep, 2 of them without the files or the length model that the audit wants, 4 outcomes of 2 repetitions of a warmup and 2 formal requests, 4 sets of labels; the correctness experiment with 3 policies | points do not influence each other, files are kept, the audit agrees, hashes identify limits, caps are monotone |
| `trace` | 7 requests that arrive up to 2 apart, 2 slots, service 2, tighten hold 0, relax hold 2, depths in halves | five accounts of the waiting list agree; no false alarm of thrashing |
| `directionality` | 6 requests, 1 slot, service 1 | a disagreement with the design, see below |

**Bounds.** `MaxTime` stops the clock, and a request is only accepted while its
deadline fits before it, so that watchdogs are never cut off. Each caller submits
once and each aclose is called, and cancelled, at most once per task.
A request's fate depends on itself, on the request in the slot and
on who is admitted next, which two entries and one slot show. A third request finds
the queue full; `TwoEntries`, the constraint of `aq_cancel`, lets it enter only if another does not. In
`aa_projection` a runner finds a waiting list of two, of which one may be overdue and the other not, so that
the loop picks again; a submit finds two free slots, one or none, so that the
projection counts a slot that stays free, or none. `PlainOutcomes` and `SettledFirst` make that affordable. An error
or a stray `CancelledError` frees a slot like an answer does. A task with nothing left to
decide only ends, or begins to wait; who of these runs when matters for cancellations, which `aq_cancel`
has in every order. Neither constraint, like no other bound, plays a part in the proofs. That the
limits and the contract also hold for several cancelled callers, more slots, larger crowds and acloses
that race each other is proved. Deadlines differ because requests are accepted
at different ticks. For the controller, 7 ticks let the level rise to L3
and come down again through three relax holds. `MaxAge` is above every bound that is
checked and, times the margin, above `ceiling_cap_s`, so that a policy cannot tell a saturated age
from a greater one; the weights make a long request lose to every
short one until it is far older than the threshold, so that only the ceiling saves it. Requests, if their callers
may be cancelled alike, and closers are interchangeable, which the symmetry sets use; the liveness run uses none.
A benchmark needs a second repetition for telemetry that is out of date, and three
requests for one in the slot, one that waits and one that is rejected; `TwoCalls` keeps the third one out of the slot, as
`TwoEntries` does. In `experiment`
two points suffice for an influence of one on the next, three for an audit of two
loads, one of them with two points. In `trace` the depth reaches 5, above the thresholds 1, 2 and 3, with up
to seven events at one time; holds of 0 and 2 put reversals exactly on their holds.

**Deadlock** is not checked, because the program stops: all requests are answered,
the acloses have ended and the clock of the model has reached its bound, or the run or the experiment is
over. That nobody waits for ever is what `aq_live` says. For a benchmark `NeverStuck`
says it: until the end, somebody owes the run a step, the loop, a deadline or a cancelled backend
(`SomethingOwed` lists the guards of these steps), and where a guard holds, TLC finds the step enabled.
No step can be undone: each brings a task, a call or the main task nearer to its end (`RunsGoForward`), so every run ends.

**Fairness.** Weak fairness of each kind of task is what the event loop
gives: a ready task runs. A cancelled backend ends, since `send` is expected to
let `CancelledError` through or to finish its cleaning up. A backend that is not
cancelled owes nothing; callers owe nothing. `EveryCallerAnswered` assumes that time
passes (`WF_vars(Tick)`), for without it no watchdog fires; `CloseEnds` does not.

**Four disagreements.** `docs/DESIGN_expL_adaptive_cap.md:123` lets every
enqueue, dispatch, terminal, timeout, cancellation and close integrate the past depth and
write the new one. In the code the only call of `update` is at a dispatch
(`router/admission.py:248`). `aa_stale_depth` shows the shortest case: a second
request starts to wait and the controller still holds depth 0. What holds
instead is `ProjectionExact`: the depth shown at a dispatch is what waits when the lock is
released. Between two
dispatches the average is integrated over the depth of the last one.

`docs/LEARNING_NOTES.md:729` concludes from the top tier's order that a wait is at most
`aging_threshold_s` and the service time of the head of the queue, whatever
the arrivals. `pq_doc_bound` shows requests that age together: all but the first
wait for the service of those before them. What holds is `WaitBounded`, the protected age
plus the service of a full waiting list; line 857 of the same notes reports waits far beyond the
threshold under overload.

`docs/LEARNING_NOTES.md:255` wants failed requests recorded, not the survivors only.
The text of an exception becomes the `error_type` of a record (`experiments/benchmark.py:304`),
and a record refuses an empty one (`metrics/records.py:56`). Some exceptions have no
text: a read timeout of the HTTP client, for one. `bench_failures` shows that one such request fails the join, so
that the run raises and no request is recorded. `RecordsComplete` is what holds:
nothing incomplete is ever written.

`docs/DESIGN_expL_adaptive_cap.md:597` and `analysis/expl.py:450` take it for a fault if
pressure or level loosen in a decision at which the depth rises, and
`check_directionality` rejects the sweep. `directionality` shows a controller
that does what `AdaptiveClip` says, and for which `ac_holds` passes, and is rejected: the average still
falls, or the relax hold ends, in the decision at which the depth goes from one small value to a
larger one.

## 4. What is proved

The constants are arbitrary: any finite set of requests, number of slots,
capacity, deadline, policy, thresholds and holds within
`ConstantsAssumption`, `SelectableAssumption` and `ClipAssumption`. These are what
the configuration validates, and that a policy chooses among the waiting. The bounds of
the runs (`TwoEntries`, `TwoCalls`, symmetry) play no part. For experiments,
`FilesAssumption` says what the models of `config.py` and `sweep.py` make sure of before
a validator compares two fields: a file sets only fields of their types, and a base
sets all of them. `PoliciesAssumption` says that no policy of the correctness experiment
comes twice, `TokensAssumption` and `OutcomesAssumption` that lengths are integers and that there
are four levels. `TraceAssumption` has the arrivals of a simulation in order, as its schedule gives them.

- **The queue** (`AdmissionQueueProofs`). `SlotsBounded`, `BackendsBounded`,
  `WorkConserving` are not inductive alone: that the backend respects the
  limit rests on tasks agreeing with entries. `QueueInv` adds `TasksHoldSlot`
  (a backend or runner that is not over belongs to an entry in flight),
  `WaitingOnlyOpen`, `CallersMatch` and `ClosersMatch`. The loop is handled by
  `AdmitLemma` (it never overfills, and leaves nobody beside a free slot), all other
  actions by `DropStep` (entries leave the waiting list) or `QuietStep` (entries
  do not change). `QueueInvariant` joins them, one step per action, and
  `TypeCorrect`, `SlotsAreBounded`, `BackendsAreBounded`, `QueueIsBounded`,
  `IndexIsConsistent`, `WorkIsConserved` and `CancelledCallersDrain` follow.
- **The contract** (`RefinementProofs`). `QueueImplementsContract` maps every step of
  the queue to a step of `AdmissionContract` or a stutter. `AdmitSettles` shows that the
  admission loop does what `Settle` allows: the slots that are given back and the requests picked
  balance, because nobody waited beside a free slot before. That is why limits of the contract
  hold for any number of slots and closers.
- **Closing** (`AdmissionQueueProofs`, second part). `EntriesAreWatched` and `CloseJoinsAll` need three more
  invariants: a watchdog is armed until its entry is done or its backend has been told to stop
  (`TimersMatch`), what is in flight in a closing queue has been told (`ClosingStops`),
  and each aclose waits for a runner of each entry in flight (`ClosersWait`). With
  `ForcedMatch` (an entry is forced to `TIMEOUT` only once it is overdue, and nothing is forced
  before it has a slot) they give `StatusRespectsDeadline`: the final status is decided by the forced one, by
  the deadline and by the backend, in that order, whoever completes the request and however late.
- **Dispatches** (`RefinementProofs`). `DispatchStep` describes what a step may do to
  the set in flight. With `WorkConserving` before and `SlotsBounded` after it,
  a step starts at most one request (`DispatchesOneByOne`); with
  `WaitingOnlyOpen`, none once `aclose` began (`ClosedGateHolds`).
- **The controller** (`AdaptiveClipProofs`). `ControlInv` says that
  the code's clocks are the history: `relaxing = eased`, and `tightening[k]` is
  `pressed[k]` for the levels above the present one and cleared for
  the others. `TargetMeansAbove` is the one arithmetic fact: as the thresholds increase, `bisect_right`
  calls for a higher level just when the loop finds one. Under it `RuntimeError` is
  unreachable (`ControllerNeverRaises`), and the action properties
  are two conclusions of the step lemma (`LevelsAreEarned`, `LevelsAreLeftSlowly`).
- **Both together** (`RefinementProofs`, last section), for any number of slots. `LoopInv` says what holds in the middle of
  a loop: what the task did before it (`EntryHolds`), that each pick so far passed the test of the loop on the list and the slots
  as they were then (`PicksLegal`), and that each depth shown is the number of requests still listed (`DepthsRight`). A
  loop step keeps it (`PickStep`, `LateStep`, `SentStep`), since a request is sent only
  if its slot is the last free one or nobody is left to wait, which comes from `WorkConserving` of
  the state before the handler (`EnterStep`). When the lock is released, `PicksLegal` and the failed
  test are `AdmitLoop`, so that the handler is a step of `Next`: `QueueLoopIsAtomic`, a refinement. It makes
  every theorem about the queue one about the queue with the controller. `DepthsRight` at that
  moment is `DecisionsSeeTheQueue`. `QueueDrivesController` shows the depths to be within the controller's range.
- **The policies** (`PolicyQueueProofs`), for every workload, number of slots, capacity
  and setting within `PolicyAssumption` and `QueueAssumption`. `WaitBounded` is not inductive: it says
  nothing of how far up the list a request is. `WaitPaidFor` does: what the
  request in place `r` has waited beyond the protected age is at most the time that
  any slot has been busy, plus `MaxService` for each of the `Capacity - r` places it may
  have moved up. A completion sets the slot's time to zero and moves the request
  up by one, because whoever goes first is ahead of it (`AgedFirst`). A late
  submit never gets ahead of it. `SlotsBusy`, `QueueFits` and `OldestAhead` complete the
  invariant. `KindsAreFifo` rests on `OldestAhead`, `TierMonotone` and `ScoreMonotone`.
- **The benchmark** (`BenchmarkProofs`), for any number of requests, repetitions, slots and
  capacity. `NothingOutlivesRun` and `DrainedBeforeClose` speak of the end; `BenchInv` says what
  leads to it: where the main task is decides the gate, the sampler and the
  cancellation (`MainMatches`), a living backend call belongs to a request being served
  (`CallsMatch`), a submission that was cancelled once has ended only if its
  request has (`TasksMatch`), and each repetition that was left normally has all its records
  (`RecordsMatch`). `RecordsTellTheirOwnCall` needs `CallsReport` as well: a call that was
  entered has written the telemetry of its own repetition, a request has a call once it has a slot, and a
  success or an error is that of its call. The statuses for which `_join_repetition` reads telemetry are
  thus those whose telemetry is new.
  `SomethingIsOwed` is the part of `NeverStuck` without ENABLED. `OwedInv` says that an early submission finds the gate open
  and its request new, that one inside the queue has a request that was accepted, that no submission was cancelled while the gather
  goes on undisturbed, and that the slots hold; so whatever the main task waits for waits, or is served, and its deadline or
  its call moves. `RunsGoForward` counts what is left: no step takes a request, a submission or a call away from
  its end, and each brings one nearer, unless it brings the main task nearer. `CallsReport` is needed for a request that
  gets a slot, whose call must be its first. Together they bound the length of a run.
- **Experiments** (`ExperimentProofs`), for any files, points, policies, outcomes, labels and matrix.
  `ExperimentInv` follows an experiment point by point: what has been loaded is valid (`LoadMatches`), the benchmark
  that runs has the configuration of the next point (`RunMatches`), and row `i` and the file of point `i` come from one
  benchmark of the configuration of point `i` (`RowsMatch`). `EveryPointKeepsItsFile` rests on stems
  that differ by index, or by policy. `LevelsNeverInvert` needs the order of the caps that the validator imposes,
  for each combination of a fixed clip, an estimate and a level. `HashTellsLimits` needs that the fields which a
  dormant configuration leaves out of its hash are not read then. `RowsTellOfTheirPoints` adds that each formal request is counted once.
  `AuditAcceptsWhatTheSweepWrites` shows each check of `reconcile_point` and
  `reconcile_decisions` on what the program wrote. It has conditions where the audit depends on the sweep's file:
  JSONL files, labels that can be found, the rates of the loads, and the length model `realistic`. The audit expects
  answers of exactly the limit whenever the mixture asks for them, and the uniform workload ignores
  the mixture. Without that condition TLC finds a sweep that the audit refuses.
- **The audit of the controller** (`TraceProofs`), for any number of requests and slots, arrivals, service
  times, thresholds and holds. `TraceInv` says that the hold clocks which decide the next
  transition in the opposite direction started no earlier than the last transition in the log
  (`ClocksFollowLog`). A transition up stops the relax hold; one down happens only
  when no higher level is called for, so that no tighten hold runs. Hence
  `AuditTrustsTheController`: `check_thrash` raises no false alarm. That the clock of the simulation does not run backwards takes
  `EventsAhead` and the least-number principle (`LeastOfNaturals`).
- **The replays** (`ReplayProofs`, for the same constants). Four programs look at a waiting list afterwards, each with
  an algorithm of its own; the theorems compare them with what the probe integrated from event to event.
  - `HistoryInv` is what the times on file always satisfy: dispatches are in the order of the arrivals and none precedes its
    arrival, what has arrived has been taken in before the loop begins a new turn, and no time passes before the first
    dispatch nor after the last (`BeginAndEnd`). Without the last two a program that knows only arrivals and
    dispatches could not find the probe's window.
  - `ResidenceFromLog`: the sum over the stays in the log, up to now, is the time the probe has booked on each level, step by step.
  - `IntegralIsTheWaits`: `IntegralInv` keeps two sums equal, depth times time and the waits so far. A span of time adds to the
    first what it adds to the waits of those in the list.
  - `ReplaysAgree` compares everything with a third account: `Ticks` goes through the history unit of time by unit of time,
    where the depth is the number of requests that have come and not been dispatched (`Depths`). `TickInv` says that at any
    moment the probe has measured just the units so far, which needs that a dispatch changes no depth of the
    past (`DispatchKeepsPast`). The replays go through the events instead. `EventOrder` ranks these, ties included,
    `DepthAtEvents` shows that between two of them the depth is what the replay counted, and so never
    negative, and `AllFollow` that after each turn the replay stands where `Ticks` does.
  - `PeaksFound`: `PeakInv` says that the probe's peak is the largest depth of the units it has noted. `Noted` depends on the
    stage, as the present instant counts only once the list has settled, and before the first
    arrivals nothing does. The report counts the depth from a log with one entry per event; `FactsCount` maps its
    entries one to one to requests. `Contention`, `TimeAtDepth` and `Verdicts` draw the conclusions.
  - Sums, recursion and induction (`TraceProofs`, first part): as an induction theorem with an operator as its parameter cannot be
    instantiated, induction is done on sets. `NaturalsInductive` says that a set with 0 and all successors
    holds every natural number, `Recursion` that the recursive functions of `DepthTrace` exist and satisfy
    their equations. `SumChange`, `SumShift` and `SumPositive` are the facts about sums used above.

Only model-checked: that the guards in `NeverStuck` enable their steps, which is about ENABLED, and liveness, neither of which
the prover reaches. All other invariants and action properties of the passing runs are theorems. The type invariant of
`PolicyQueue` is only proved (`PolicyQueueTyped`): no run lists it.

## 5. Not modelled, and why

- FIFO order of the event loop: the models allow every order. What depends on it
  is listed as a hazard (a runner that is cancelled before its first step).
- `AsyncDispatcher` (`workload/dispatcher.py`): only tests use it; the benchmark submits through the queue.
- Wording, logging, CSV, the completeness report and the summaries that are printed, which
  restate the metrics; plots.
- Computations on real numbers: bootstrap intervals, ratios and the gates built on them
  (`analysis/expl.py`), `analysis/queueing.py`, `analysis/expkb.py`, sampling
  (`workload/generator.py`, `workload/arrivals.py`), the length predictor. TLC has no
  reals, and nothing in them depends on an order of events.
- Errors raised by the policy, the clipper or the clock inside the admission loop
  (none of the program's own policies raises on a validated envelope).
- The parsing of the HTTP stream and of `nvidia-smi`. To the queue the stream is a backend that
  may end in any way.
- Process launch and inspection of the environment.
- Details of modelled parts. `ValidPoint` leaves some checks of a single field of `config.py` (weights and holds that must
  not be negative) to `ValidConfig`, so a bad one is refused a step later. `Record` takes a backend that answers with exactly the forced length,
  for which `AuditAccepts` speaks; the audit refuses other backends (`analysis/expl.py:583-591`). `ThrashAuditPasses` is about the
  early reversals that `check_thrash` counts, not about its ceiling on the share of switches (`analysis/expl.py:438`), and takes every
  decision, where the audit sees those of formal requests.

## 6. Plan

What would add most, in this order:

1. The queue under the FIFO order of the ready list, for what depends on it: whether a
   runner can be cancelled before its first step, and whether a later aclose may return
   while tasks that an earlier, cancelled one left behind still run.
2. `Benchmark` over `AdmissionQueue` itself instead of its contract, on a smaller instance.
