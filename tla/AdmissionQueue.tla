--------------------------- MODULE AdmissionQueue ---------------------------
(***************************************************************************)
(* The admission queue of the router (router/admission.py): a bounded      *)
(* waiting list in front of a fixed number of backend slots, run by        *)
(* asyncio tasks of one event loop. Four tasks work on a request: the      *)
(* caller's, inside `submit'; the watchdog of its total timeout; the       *)
(* backend task, which runs `backend.send'; and the runner, which awaits   *)
(* the backend task. Further tasks call `aclose'.                          *)
(*                                                                         *)
(* No critical section of the class contains an await, so its Condition is *)
(* never contended, and what a task does between two awaits is one atomic  *)
(* step, here one action. A control-state variable per task says at which  *)
(* await it is suspended and whether a cancellation is on its way to it:   *)
(* Task.cancel() only marks the task, CancelledError is thrown when the    *)
(* loop next runs it, and a task cancelled before its first step never     *)
(* executes its body. The loop may run ready tasks in any order (asyncio's *)
(* is one of them). The clock counts ticks and stands still during a step. *)
(***************************************************************************)
EXTENDS Integers, FiniteSets

CONSTANTS
    Reqs,                \* the requests callers may submit, each at most once
    CancellableCallers,  \* those of them whose caller may be cancelled
    Closers,             \* tasks that may call aclose
    CancellableClosers,  \* those of them that may be cancelled inside aclose
    MaxInFlight,         \* router.max_in_flight
    Capacity,            \* router.queue_capacity
    Timeout,             \* backend.request_timeout_s, in ticks
    MaxTime,             \* bound of the model: the clock stops here
    Selectable(_, _)     \* Selectable(W, t): what policy.order may put first
                         \* when the requests W wait at time t

ASSUME ConstantsAssumption ==
    /\ IsFiniteSet(Reqs)
    /\ CancellableCallers \subseteq Reqs
    /\ CancellableClosers \subseteq Closers
    /\ MaxInFlight \in Nat \ {0}
    /\ Capacity \in Nat \ {0}
    /\ Timeout \in Nat \ {0}
    /\ MaxTime \in Nat

ASSUME SelectableAssumption ==
    \A W \in (SUBSET Reqs) \ {{}}, t \in 0 .. MaxTime :
        Selectable(W, t) # {} /\ Selectable(W, t) \subseteq W

VARIABLES
    now,            \* self._clock()
    mode,           \* the flags _started, _closing and _closed
    waiting,        \* self._waiting, as a set
    st,             \* entry.state; "none" before the entry exists
    enq,            \* entry.enqueue_time_s
    forced,         \* entry.forced_status
    result,         \* the status in entry.result_future
    caller,         \* the task inside submit
    timer,          \* entry.timeout_task
    backend,        \* entry.backend_task
    runner,         \* entry.runner_task
    closer,         \* the tasks inside aclose
    joined,         \* the tasks an aclose is gathering
    closerCancelled \* the acloses whose caller was cancelled

entryVars == <<waiting, st, enq, forced, result>>
tasks     == <<timer, backend, runner>>
closeVars == <<closer, joined, closerCancelled>>
vars == <<now, mode, entryVars, caller, tasks, closeVars>>

EntryStates == {"none", "waiting", "in_flight", "done"}
ForcedStatuses == {"none", "TIMEOUT", "CANCELLED"}
ResultStatuses == {"none", "SUCCESS", "ERROR", "TIMEOUT", "CANCELLED"}

\* "cancel": CancelledError will be thrown at the await of the result;
\* "drain": awaiting the result again, in _cancel_from_submitter;
\* "drain_cancel", "abandoned": cancelled a second time, there.
CallerStates == {"idle", "await", "cancel", "drain", "drain_cancel", "returned",
                 "cancelled", "abandoned", "rejected"}

\* "doomed": cancelled before its first step, and then "dead" or, for a
\* backend, "cancelled"; "stopping": cancelled in its sleep.
TimerStates == {"none", "new", "doomed", "sleeping", "stopping", "done", "dead"}

BackendLiveStates == {"new", "doomed", "running", "cancelling"}
BackendEndStates == {"success", "error", "cancelled"}
BackendStates == {"none"} \cup BackendLiveStates \cup BackendEndStates

\* "relayed": its cancellation was passed to the backend it awaits;
\* "thrown": CancelledError will be thrown into the runner itself;
\* "drain": in the gather of the except clause; "cancelled": re-raised.
RunnerStates == {"none", "new", "doomed", "await", "relayed", "thrown", "drain",
                 "done", "cancelled", "dead"}

\* What the gather inside aclose awaits, or how aclose ended.
CloserStates == {"idle", "runners", "timers", "returned", "raised"}

TypeOK ==
    /\ now \in 0 .. MaxTime
    /\ mode \in {"new", "open", "closing", "closed"}
    /\ waiting \subseteq Reqs
    /\ st \in [Reqs -> EntryStates]
    /\ enq \in [Reqs -> 0 .. MaxTime]
    /\ forced \in [Reqs -> ForcedStatuses]
    /\ result \in [Reqs -> ResultStatuses]
    /\ caller \in [Reqs -> CallerStates]
    /\ timer \in [Reqs -> TimerStates]
    /\ backend \in [Reqs -> BackendStates]
    /\ runner \in [Reqs -> RunnerStates]
    /\ closer \in [Closers -> CloserStates]
    /\ joined \in [Closers -> SUBSET Reqs]
    /\ closerCancelled \subseteq CancellableClosers

Init ==
    /\ now = 0 /\ mode = "new" /\ waiting = {}
    /\ st = [r \in Reqs |-> "none"] /\ enq = [r \in Reqs |-> 0]
    /\ forced = [r \in Reqs |-> "none"] /\ result = [r \in Reqs |-> "none"]
    /\ caller = [r \in Reqs |-> "idle"] /\ timer = [r \in Reqs |-> "none"]
    /\ backend = [r \in Reqs |-> "none"] /\ runner = [r \in Reqs |-> "none"]
    /\ closer = [c \in Closers |-> "idle"] /\ joined = [c \in Closers |-> {}]
    /\ closerCancelled = {}

-----------------------------------------------------------------------------
\* _in_flight_entries_locked, for entry states s
InFlight(s) == {r \in Reqs : s[r] = "in_flight"}

BackendLive(r) == backend[r] \in BackendLiveStates

\* The total timeout of r has run out (e: the enqueue times).
Overdue(r, e) == now - e[r] >= Timeout

\* Task.cancel() on a watchdog, which would return from its sleep.
CancelTimer(pc) ==
    CASE pc = "new" -> "doomed" [] pc = "sleeping" -> "stopping" [] OTHER -> pc

\* Mutant: a backend that runs is not cancelled.
CancelBackendNew(pc) == IF pc = "new" THEN "doomed" ELSE pc

\* Task.cancel() on a backend task.
CancelBackend(pc) ==
    CASE pc = "new" -> "doomed" [] pc = "running" -> "cancelling" [] OTHER -> pc

\* Task.cancel() on a runner whose backend task is at b: passed on to the task
\* it awaits if that has not ended. In "drain" it could only change
\* backend_status, which entry.forced_status overrides.
CancelRunner(pc, b) ==
    CASE pc = "new" -> "doomed"
      [] pc \in {"await", "relayed"} ->
            IF b \in BackendLiveStates THEN "relayed" ELSE "thrown"
      [] OTHER -> pc

\* The test of the while loop of _admit_available_locked, with w waiting and
\* n requests in flight.
AdmitLoopTest(w, n) == mode # "closing" /\ w # {} /\ n < MaxInFlight

\* The first i picks of the loop, and those of them it sends to the backend.
Picked(t, i) == {t[j] : j \in 1 .. i}
Sent(t, i, e) == {r \in Picked(t, i) : ~Overdue(r, e)}

\* The loop, started on w with n requests in flight, picks t[1], .., t[k] and
\* then ends.
AdmitLoop(t, k, w, n, e) ==
    /\ \A i \in 1 .. k :
          /\ AdmitLoopTest(w \ Picked(t, i - 1),
                           n + Cardinality(Sent(t, i - 1, e)))
          /\ t[i] \in Selectable(w \ Picked(t, i - 1), now)
    /\ ~AdmitLoopTest(w \ Picked(t, k), n + Cardinality(Sent(t, k, e)))

\* The handler has left the waiting list as w, the entries as s, the results
\* as a, the watchdogs as tm and the runners as rn, and the picks `late' are
\* completed, while the picks `sent' get a backend and a runner task.
AdmitEffect(w, s, a, tm, rn, late, sent) ==
    /\ waiting' = w \ (late \cup sent)
    /\ st' = [r \in Reqs |-> IF r \in late THEN "done" ELSE
                             IF r \in sent THEN "in_flight" ELSE s[r]]
    /\ result' = [r \in Reqs |-> IF r \in late THEN "TIMEOUT" ELSE a[r]]
    /\ timer' = [r \in Reqs |-> IF r \in late THEN CancelTimer(tm[r]) ELSE tm[r]]
    /\ backend' = [r \in Reqs |-> IF r \in sent THEN "new" ELSE backend[r]]
    /\ runner' = [r \in Reqs |-> IF r \in sent THEN "new" ELSE rn[r]]

\* _admit_available_locked: overdue picks are late, the others are sent.
AdmitAvailable(w, s, a, tm, rn) ==
    \E k \in 0 .. Cardinality(w) : \E t \in [1 .. k -> w] :
        /\ AdmitLoop(t, k, w, Cardinality(InFlight(s)), enq')
        /\ AdmitEffect(w, s, a, tm, rn, Picked(t, k) \ Sent(t, k, enq'),
                       Sent(t, k, enq'))

-----------------------------------------------------------------------------
(* start, and the task inside submit.                                      *)

Start ==
    /\ mode = "new" /\ mode' = "open"
    /\ UNCHANGED <<now, entryVars, caller, tasks, closeVars>>

CallerGoes(r, from, to) ==
    /\ caller[r] = from /\ caller' = [caller EXCEPT ![r] = to]
    /\ UNCHANGED <<now, mode, entryVars, tasks, closeVars>>

\* Mutant: submit checks _started only.
AcceptingStarted == mode # "new"

\* The checks of submit.
Accepting == mode = "open"
QueueFull == Cardinality(waiting) >= Capacity

\* submit returns a REJECTED result without making an entry.
Reject(r) == Accepting /\ QueueFull /\ CallerGoes(r, "idle", "rejected")

\* submit raises RuntimeError, and changes nothing, unless the queue is open;
\* else it appends the entry, starts its watchdog, runs the admission loop and
\* suspends on the result. (Bound: only while the deadline fits the clock.)
Accept(r) ==
    /\ Accepting /\ ~QueueFull /\ now + Timeout <= MaxTime
    /\ caller[r] = "idle" /\ caller' = [caller EXCEPT ![r] = "await"]
    /\ enq' = [enq EXCEPT ![r] = now]
    /\ AdmitAvailable(waiting \cup {r}, [st EXCEPT ![r] = "waiting"], result,
                      [timer EXCEPT ![r] = "new"], runner)
    /\ UNCHANGED <<now, mode, forced, closeVars>>

\* The caller's task is cancelled while it is suspended in submit. That wins
\* over a result that is set but not yet delivered.
CancelCaller(r) ==
    /\ r \in CancellableCallers
    /\ CallerGoes(r, "await", "cancel") \/ CallerGoes(r, "drain", "drain_cancel")

CallerReturns(r) == result[r] # "none" /\ CallerGoes(r, "await", "returned")

\* Mutant: the cancelled caller does not await the end of its request.
CancelInFlightNoDrain(r) ==
    /\ st[r] = "in_flight"
    /\ caller[r] = "cancel" /\ caller' = [caller EXCEPT ![r] = "cancelled"]
    /\ forced' = [forced EXCEPT ![r] = "CANCELLED"]
    /\ backend' = [backend EXCEPT ![r] = CancelBackend(@)]
    /\ UNCHANGED <<now, mode, waiting, st, enq, result, timer, runner, closeVars>>

\* Mutant: a cancelled caller frees the slot at once.
CancelInFlightEager(r) ==
    /\ st[r] = "in_flight"
    /\ caller[r] = "cancel" /\ caller' = [caller EXCEPT ![r] = "cancelled"]
    /\ st' = [st EXCEPT ![r] = "done"]
    /\ result' = [result EXCEPT ![r] = "CANCELLED"]
    /\ backend' = [backend EXCEPT ![r] = CancelBackend(@)]
    /\ UNCHANGED <<now, mode, waiting, enq, forced, timer, runner, closeVars>>

\* CancelledError reaches submit: _cancel_from_submitter, whose await of the
\* result does not suspend when the request is done.
CancelWaiting(r) ==
    /\ st[r] = "waiting"
    /\ caller[r] = "cancel" /\ caller' = [caller EXCEPT ![r] = "cancelled"]
    /\ waiting' = waiting \ {r}
    /\ st' = [st EXCEPT ![r] = "done"]
    /\ result' = [result EXCEPT ![r] = "CANCELLED"]
    /\ timer' = [timer EXCEPT ![r] = CancelTimer(@)]
    /\ UNCHANGED <<now, mode, enq, forced, backend, runner, closeVars>>

CancelInFlight(r) ==
    /\ st[r] = "in_flight"
    /\ caller[r] = "cancel" /\ caller' = [caller EXCEPT ![r] = "drain"]
    /\ forced' = [forced EXCEPT ![r] = "CANCELLED"]
    /\ backend' = [backend EXCEPT ![r] = CancelBackend(@)]
    /\ UNCHANGED <<now, mode, waiting, st, enq, result, timer, runner, closeVars>>

CancelDone(r) == st[r] = "done" /\ CallerGoes(r, "cancel", "cancelled")

CallerDrained(r) ==
    \/ result[r] # "none" /\ CallerGoes(r, "drain", "cancelled")
    \/ CallerGoes(r, "drain_cancel", "abandoned")

-----------------------------------------------------------------------------
(* The watchdog, _watch_timeout.                                           *)

TimerGoes(r, from, to) ==
    /\ timer[r] = from /\ timer' = [timer EXCEPT ![r] = to]
    /\ UNCHANGED <<now, mode, entryVars, caller, backend, runner, closeVars>>

\* Mutant: the watchdog looks at the clock once, without sleeping.
TimerLooksOnce(r) == ~Overdue(r, enq) /\ TimerGoes(r, "new", "done")

TimerSleeps(r) == ~Overdue(r, enq) /\ TimerGoes(r, "new", "sleeping")

\* The deadline is over and the watchdog has not been cancelled.
TimerExpires(r) ==
    /\ timer[r] \in {"new", "sleeping"} /\ Overdue(r, enq)
    /\ timer' = [timer EXCEPT ![r] = "done"]

\* Mutant: the timed-out entry stays in the waiting list.
TimeoutWaitingKeeps(r) ==
    /\ TimerExpires(r)
    /\ st[r] = "waiting"
    /\ st' = [st EXCEPT ![r] = "done"]
    /\ result' = [result EXCEPT ![r] = "TIMEOUT"]
    /\ UNCHANGED <<now, mode, waiting, enq, forced, caller, backend, runner,
                   closeVars>>

TimeoutWaiting(r) ==
    /\ TimerExpires(r)
    /\ st[r] = "waiting"
    /\ waiting' = waiting \ {r}
    /\ st' = [st EXCEPT ![r] = "done"]
    /\ result' = [result EXCEPT ![r] = "TIMEOUT"]
    /\ UNCHANGED <<now, mode, enq, forced, caller, backend, runner, closeVars>>

\* In flight; a watchdog that finds its entry done returns without effect.
TimeoutInFlight(r) ==
    /\ TimerExpires(r)
    /\ st[r] # "waiting"
    /\ forced' = IF st[r] = "done" THEN forced
                 ELSE [forced EXCEPT ![r] = "TIMEOUT"]
    /\ backend' = IF st[r] = "done" THEN backend
                  ELSE [backend EXCEPT ![r] = CancelBackend(@)]
    /\ UNCHANGED <<now, mode, waiting, st, enq, result, caller, runner, closeVars>>

TimerEnds(r) ==
    TimerGoes(r, "stopping", "done") \/ TimerGoes(r, "doomed", "dead")

-----------------------------------------------------------------------------
(* The backend task. What `send' does is the backend's business: it may    *)
(* return, fail or raise CancelledError at any time, or never end unless   *)
(* cancelled; cancelled, it may still end in any of the three ways.        *)

BackendGoes(r, from, to) ==
    /\ backend[r] = from /\ backend' = [backend EXCEPT ![r] = to]
    /\ UNCHANGED <<now, mode, entryVars, caller, timer, runner, closeVars>>

\* The first step; a task cancelled before it never enters `send'.
BackendStarts(r) ==
    BackendGoes(r, "new", "running") \/ BackendGoes(r, "doomed", "cancelled")

BackendEnds(r) == \E o \in BackendEndStates : BackendGoes(r, "running", o)

CancelledBackendEnds(r) ==
    \E o \in BackendEndStates : BackendGoes(r, "cancelling", o)

-----------------------------------------------------------------------------
(* The runner, _run_backend.                                               *)

RunnerGoes(r, from, to) ==
    /\ runner[r] = from /\ runner' = [runner EXCEPT ![r] = to]
    /\ UNCHANGED <<now, mode, entryVars, caller, timer, backend,
                   closeVars>>

\* Mutants: the deadline is not checked; the outcome is not translated.
FinalStatusLate(r, s) == IF forced[r] # "none" THEN forced[r] ELSE s
FinalStatusRaw(r, s) ==
    IF forced[r] # "none" THEN forced[r]
    ELSE IF Overdue(r, enq) THEN "TIMEOUT" ELSE backend[r]

\* The status that the finally clause reports, the try statement having left s.
FinalStatus(r, s) ==
    IF forced[r] # "none" THEN forced[r]
    ELSE IF Overdue(r, enq) THEN "TIMEOUT" ELSE s

\* The finally clause: complete the request, then admit others in its place.
RunnerCompletes(r, s, end) ==
    /\ UNCHANGED <<now, mode, enq, forced, caller, closeVars>>
    /\ AdmitAvailable(waiting, [st EXCEPT ![r] = "done"],
                      [result EXCEPT ![r] = IF st[r] = "done" THEN @
                                            ELSE FinalStatus(r, s)],
                      [timer EXCEPT ![r] = CancelTimer(@)],
                      [runner EXCEPT ![r] = end])

RunnerAwaits(r) == BackendLive(r) /\ RunnerGoes(r, "new", "await")

\* The await is over: it returned or failed, or only the backend was cancelled.
BackendAnswered(r) ==
    /\ ~BackendLive(r)
    /\ \/ runner[r] \in {"new", "await"}
       \/ runner[r] = "relayed" /\ backend[r] # "cancelled"

\* backend_status, as the except clauses leave it.
BackendStatus(r) ==
    CASE backend[r] = "success" -> "SUCCESS" [] backend[r] = "error" -> "ERROR"
      [] OTHER -> "CANCELLED"

RunnerFinishes(r) ==
    BackendAnswered(r) /\ RunnerCompletes(r, BackendStatus(r), "done")

\* The runner itself is being cancelled: it gathers the (ended) backend task,
\* completes the request and re-raises.
RunnerDrains(r) ==
    \/ backend[r] = "cancelled" /\ RunnerGoes(r, "relayed", "drain")
    \/ RunnerGoes(r, "thrown", "drain")

RunnerDrained(r) ==
    runner[r] = "drain" /\ RunnerCompletes(r, "CANCELLED", "cancelled")

\* Cancelled before its first step, the runner never completes its request.
RunnerDies(r) == RunnerGoes(r, "doomed", "dead")

-----------------------------------------------------------------------------
(* The task inside aclose.                                                 *)

TimerOver(r) == timer[r] \in {"none", "done", "dead"}
RunnerOver(r) == runner[r] \in {"none", "done", "cancelled", "dead"}

\* A task leaves _runner_tasks or _timeout_tasks by a callback that the loop
\* runs some time after the task has ended, so that any ended task may still
\* be found there: the values that `tuple(self._runner_tasks)' may have.
RunnerTasks == {S \in SUBSET {r \in Reqs : runner[r] # "none"} :
                   \A r \in Reqs : ~RunnerOver(r) => r \in S}
TimeoutTasks == {S \in SUBSET {r \in Reqs : timer[r] # "none"} :
                    \A r \in Reqs : ~TimerOver(r) => r \in S}

\* Nothing to close.
CloseIdle(c) ==
    /\ closer[c] = "idle" /\ closer' = [closer EXCEPT ![c] = "returned"]
    /\ mode \in {"closed", "new"} /\ mode' = "closed"
    /\ UNCHANGED <<now, entryVars, caller, tasks, joined,
                   closerCancelled>>

\* Suspend on a gather of the tasks of `set'.
Gathers(c, phase, set) ==
    /\ set # {}
    /\ closer' = [closer EXCEPT ![c] = phase]
    /\ joined' = [joined EXCEPT ![c] = set]

\* The finally clause, after which aclose returns or raises.
Ends(c, end) ==
    /\ mode' = "closed" /\ closer' = [closer EXCEPT ![c] = end]
    /\ UNCHANGED joined

\* Gather the watchdogs that are left, in mode m, or end at once.
JoinTimers(c, m) ==
    \/ mode' = m /\ \E S \in TimeoutTasks : Gathers(c, "timers", S)
    \/ {} \in TimeoutTasks /\ Ends(c, "returned")

\* Complete what waits, ask what is in flight to stop, and start joining.
Close(c) ==
    /\ closer[c] = "idle" /\ mode \in {"open", "closing"}
    /\ waiting' = {}
    /\ st' = [r \in Reqs |-> IF r \in waiting THEN "done" ELSE st[r]]
    /\ result' = [r \in Reqs |-> IF r \in waiting THEN "CANCELLED"
                                 ELSE result[r]]
    /\ timer' = [r \in Reqs |-> IF r \in waiting THEN CancelTimer(timer[r])
                                ELSE timer[r]]
    /\ forced' = [r \in Reqs |-> IF r \in InFlight(st) THEN "CANCELLED"
                                 ELSE forced[r]]
    /\ backend' = [r \in Reqs |-> IF r \in InFlight(st)
                                  THEN CancelBackend(backend[r])
                                  ELSE backend[r]]
    /\ \/ /\ mode' = "closing"
          /\ \E S \in RunnerTasks : Gathers(c, "runners", S)
       \/ {} \in RunnerTasks /\ JoinTimers(c, "closing")
    /\ UNCHANGED <<now, enq, caller, runner, closerCancelled>>

\* Mutant: one ended task is enough.
GatherDoneFirst(c) ==
    \/ closer[c] = "runners" /\ \E r \in joined[c] : runner[r] = "done"
    \/ closer[c] = "timers" /\ \E r \in joined[c] : timer[r] = "done"

\* Every task the gather of c awaits has ended, and none was cancelled.
GatherDone(c) ==
    \/ closer[c] = "runners" /\ \A r \in joined[c] : runner[r] = "done"
    \/ closer[c] = "timers" /\ \A r \in joined[c] : timer[r] = "done"

\* One of the tasks the gather of c awaits has ended cancelled.
GatherCancelled(c) ==
    \/ /\ closer[c] = "runners"
       /\ \E r \in joined[c] : runner[r] \in {"cancelled", "dead"}
    \/ closer[c] = "timers" /\ \E r \in joined[c] : timer[r] = "dead"

CloserJoins(c) ==
    /\ GatherDone(c) /\ c \notin closerCancelled
    /\ \/ closer[c] = "runners" /\ JoinTimers(c, mode)
       \/ closer[c] = "timers" /\ Ends(c, "returned")
    /\ UNCHANGED <<now, entryVars, caller, tasks, closerCancelled>>

\* The gather raises as soon as one of its tasks ends cancelled, and when a
\* cancelled gather has nothing left to await.
CloserRaises(c) ==
    /\ GatherCancelled(c) \/ (c \in closerCancelled /\ GatherDone(c))
    /\ Ends(c, "raised")
    /\ UNCHANGED <<now, entryVars, caller, tasks, closerCancelled>>

\* The task inside aclose is cancelled: the gather cancels all its tasks,
\* unless one of them has already made it raise. (Bound: once per task.)
CancelCloser(c) ==
    /\ closer[c] \in {"runners", "timers"}
    /\ c \in CancellableClosers \ closerCancelled
    /\ closerCancelled' = closerCancelled \cup {c}
    /\ \E reached \in {joined[c]} \cup (IF GatherCancelled(c) THEN {{}} ELSE {}) :
          LET run == IF closer[c] = "runners" THEN reached ELSE {}
              tmo == reached \ run
              relay == {r \in run : runner[r] \in {"await", "relayed"}}
          IN /\ runner' = [r \in Reqs |-> IF r \in run
                               THEN CancelRunner(runner[r], backend[r])
                               ELSE runner[r]]
             /\ backend' = [r \in Reqs |-> IF r \in relay
                               THEN CancelBackend(backend[r]) ELSE backend[r]]
             /\ timer' = [r \in Reqs |-> IF r \in tmo THEN CancelTimer(timer[r])
                                         ELSE timer[r]]
    /\ UNCHANGED <<now, mode, entryVars, caller, closer, joined>>

-----------------------------------------------------------------------------
Tick ==
    /\ now < MaxTime /\ now' = now + 1
    /\ UNCHANGED <<mode, entryVars, caller, tasks, closeVars>>

\* What the event loop does by itself for each kind of task.
CallerResumes(r) == CallerReturns(r) \/ CancelWaiting(r) \/ CancelInFlight(r)
                    \/ CancelDone(r) \/ CallerDrained(r)
TimerResumes(r) == TimerSleeps(r) \/ TimeoutWaiting(r) \/ TimeoutInFlight(r)
                   \/ TimerEnds(r)
RunnerResumes(r) == RunnerAwaits(r) \/ RunnerFinishes(r) \/ RunnerDrains(r)
                    \/ RunnerDrained(r) \/ RunnerDies(r)

CallerStep(r) == Reject(r) \/ Accept(r) \/ CancelCaller(r)
                 \/ CallerResumes(r)
BackendStep(r) == BackendStarts(r) \/ BackendEnds(r) \/ CancelledBackendEnds(r)
CloserStep(c) == CloseIdle(c) \/ Close(c) \/ CancelCloser(c)
                 \/ CloserJoins(c) \/ CloserRaises(c)

Next ==
    \/ Start \/ Tick
    \/ \E r \in Reqs : CallerStep(r) \/ TimerResumes(r) \/ BackendStep(r)
                       \/ RunnerResumes(r)
    \/ \E c \in Closers : CloserStep(c)

Spec == Init /\ [][Next]_vars

(***************************************************************************)
(* Fairness. The loop runs every ready task, and a backend that has been   *)
(* cancelled ends. A backend that has not been cancelled owes nothing, and *)
(* no caller has to do anything. Time may stop.                            *)
(***************************************************************************)
LoopFairness ==
    /\ \A r \in Reqs :
          /\ WF_vars(CallerResumes(r)) /\ WF_vars(TimerResumes(r))
          /\ WF_vars(BackendStarts(r)) /\ WF_vars(CancelledBackendEnds(r))
          /\ WF_vars(RunnerResumes(r))
    /\ \A c \in Closers : WF_vars(CloserJoins(c) \/ CloserRaises(c))

LoopSpec == Spec /\ LoopFairness

-----------------------------------------------------------------------------
(* Safety.                                                                 *)

\* The waiting list, the state of each entry and the result futures agree,
\* whichever task completes the entry: `_waiting.remove(entry)' never fails and
\* no result is set twice or forgotten.
IndexConsistent ==
    \A r \in Reqs : /\ r \in waiting <=> st[r] = "waiting"
                    /\ st[r] = "done" <=> result[r] # "none"

\* The in-flight limit holds after every admission, however many entries one
\* call of _admit_available_locked starts.
SlotsBounded == Cardinality(InFlight(st)) <= MaxInFlight

\* The backend never works on more than max_in_flight requests: timeouts,
\* cancellations and aclose do not free a slot before the backend task of the
\* request has really ended.
BackendsBounded == Cardinality({r \in Reqs : BackendLive(r)}) <= MaxInFlight

\* The waiting list never outgrows queue_capacity.
QueueBounded == Cardinality(waiting) <= Capacity

\* No request waits beside a free slot: although only submit and the runner
\* admit requests, no wake-up is ever lost.
WorkConserving == waiting # {} => Cardinality(InFlight(st)) = MaxInFlight

\* Between them, the tasks of a request never disagree on how far it is: a
\* backend or runner that is not over belongs to an entry that is in flight.
TasksHoldSlot ==
    \A r \in Reqs :
        /\ BackendLive(r) => st[r] = "in_flight"
        /\ runner[r] \notin {"none", "done", "cancelled"} => st[r] = "in_flight"
        /\ runner[r] \in {"thrown", "drain"} => ~BackendLive(r)
        /\ st[r] \in {"none", "waiting"} => backend[r] = "none" /\ runner[r] = "none"

\* Nothing waits before the queue is open or once it is being closed.
WaitingOnlyOpen == mode # "open" => waiting = {}

\* A caller that has not been let in has no entry; one whose cancellation is
\* over has a completed one.
CallersMatch ==
    \A r \in Reqs : /\ caller[r] \in {"idle", "rejected"} => st[r] = "none"
                    /\ caller[r] = "cancelled" => st[r] = "done"

\* An aclose that is under way, or has ended, has closed the queue to callers.
ClosersMatch == mode \in {"new", "open"} => \A c \in Closers : closer[c] = "idle"

\* The inductive invariant behind the safety theorems.
QueueInv ==
    /\ TypeOK /\ IndexConsistent /\ TasksHoldSlot /\ WaitingOnlyOpen
    /\ CallersMatch /\ ClosersMatch /\ SlotsBounded /\ QueueBounded /\ WorkConserving

\* Until its result is set or its backend has been told to stop, a request has
\* a watchdog that has not been cancelled.
Watched ==
    \A r \in Reqs : \/ st[r] \in {"none", "done"}
                    \/ timer[r] \in {"new", "sleeping"}
                    \/ forced[r] # "none" /\ backend[r] \notin {"new", "running"}

\* When a caller that was cancelled (once) gets its CancelledError out of
\* submit, its request is complete and the backend no longer works on it.
CancelledCallerDrains ==
    \A r \in Reqs : caller[r] = "cancelled" => st[r] = "done" /\ ~BackendLive(r)

\* When an aclose that nobody cancelled ends, every request is complete, no
\* backend or runner is left and no watchdog is armed.
CloseJoins ==
    closerCancelled = {} /\ (\E c \in Closers : closer[c] \in {"returned", "raised"})
    => \A r \in Reqs : /\ st[r] \in {"none", "done"}
                       /\ ~BackendLive(r)
                       /\ runner[r] \in {"none", "done"}
                       /\ timer[r] \notin {"new", "sleeping"}

\* Whoever completes a request, and however late the tasks run: a success or
\* an error is only reported before the deadline, a timeout only after it.
StatusAtDeadline ==
    [][\A r \in Reqs : result[r] = "none" =>
          /\ result'[r] \in {"SUCCESS", "ERROR"} => ~Overdue(r, enq)
          /\ result'[r] = "TIMEOUT" => Overdue(r, enq)]_vars

\* Once aclose has been called nothing is sent to the backend any more.
NoDispatchAfterClose ==
    [][mode # "open" => InFlight(st') \subseteq InFlight(st)]_vars

\* A step of a task starts at most one request, although the admission loop could
\* start several: no request ever waits beside a free slot.
OneDispatchPerStep ==
    [][Cardinality(InFlight(st') \ InFlight(st)) <= 1]_vars

(* Liveness.                                                               *)

\* If time goes on, every accepted submit ends, even if the backend never
\* answers.
EveryCallerAnswered ==
    WF_vars(Tick) => \A r \in Reqs :
        caller[r] = "await" ~> caller[r] \in {"returned", "cancelled", "abandoned"}

\* aclose ends without waiting for any deadline, even if time stops.
CloseEnds ==
    \A c \in Closers : closer[c] # "idle" ~> closer[c] \in {"returned", "raised"}
=============================================================================
