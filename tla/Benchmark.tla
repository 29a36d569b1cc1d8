------------------------------ MODULE Benchmark ------------------------------
(***************************************************************************)
(* One benchmark (experiments/benchmark.py): repetitions of the same       *)
(* requests, each with an admission queue of its own but all with the same *)
(* backend, whose telemetry is keyed by request. The main task starts one  *)
(* submission task per request, gathers the results, joins them with the   *)
(* telemetry and closes the queue; then it leaves the context of the GPU   *)
(* sampler and writes what it has. It may be cancelled at any await.       *)
(*                                                                         *)
(* The queue is its contract, AdmissionContract, which AdmissionQueue      *)
(* implements. Time is left out: a deadline may pass at any moment.        *)
(***************************************************************************)
EXTENDS Integers, FiniteSets

CONSTANTS
    Reqs,          \* the requests of a repetition; their ids repeat
    Repetitions,   \* workload.repetitions
    MaxInFlight,   \* router.max_in_flight
    Capacity       \* router.queue_capacity

ASSUME BenchmarkAssumption ==
    /\ IsFiniteSet(Reqs)
    /\ Repetitions \in Nat \ {0}
    /\ MaxInFlight \in Nat \ {0} /\ Capacity \in Nat \ {0}

VARIABLES
    gate, phase, answer,   \* the queue of this repetition
    call,         \* its backend tasks
    telemetry,    \* backend.telemetry
    task,         \* the submission tasks
    asked,        \* those of them that a CancelledError is on its way to
    main,         \* where the main task is
    stop,         \* what has become of the cancellation of the main task
    fate,         \* how the body of run_benchmark is being left
    rep,          \* repetition_index, from 1
    sampler,      \* the task of the GPU sampler
    records,      \* all_records, by repetition and request
    written       \* whether the results are on disk

queueVars == <<gate, phase, answer>>
runVars == <<main, stop, fate, rep, sampler, records, written>>
vars == <<queueVars, call, telemetry, task, asked, runVars>>

Queue == INSTANCE AdmissionContract

\* "doomed": cancelled before its first step; "cut": over, cancelled.
\* "error", "mute": failed, with an exception that has a text or has none.
CallStates == {"none", "new", "doomed", "open", "stopping", "ok", "error", "mute",
               "cut"}
CallLive(r) == call[r] \in {"new", "doomed", "open", "stopping"}

\* "early": not yet in queue.submit; "drain": in _cancel_from_submitter.
TaskStates == {"none", "early", "inside", "drain", "returned", "failed", "cancelled"}
TaskOver(r) == task[r] \in {"returned", "failed", "cancelled"}

\* Telemetry of the call of repetition `of' (0: there was none), and whether a
\* token has come.
Telemetry == [of : 0 .. Repetitions, spoke : BOOLEAN]
NoTelemetry == [of |-> 0, spoke |-> FALSE]

Statuses == {"SUCCESS", "ERROR", "TIMEOUT", "CANCELLED", "REJECTED"}

TypeOK ==
    /\ gate \in {"new", "open", "shut"}
    /\ phase \in [Reqs -> {"new", "waiting", "serving", "done"}]
    /\ answer \in [Reqs -> (Statuses \ {"REJECTED"}) \cup {"none"}]
    /\ call \in [Reqs -> CallStates]
    /\ telemetry \in [Reqs -> Telemetry]
    /\ task \in [Reqs -> TaskStates] /\ asked \subseteq Reqs
    /\ main \in {"ready", "gather", "teardown", "close", "leave", "done"}
    /\ stop \in {"no", "asked", "thrown", "swallowed"}
    /\ fate \in {"ok", "failed", "cancelled"}
    /\ rep \in 0 .. Repetitions
    /\ sampler \in {"none", "on", "stopping", "over"}
    /\ records \subseteq (1 .. Repetitions) \X Reqs
    /\ written \in BOOLEAN

\* A fresh backend; with or without a sampler, which is entered at once.
BenchInit ==
    /\ Queue!Init
    /\ call = [r \in Reqs |-> "none"]
    /\ telemetry = [r \in Reqs |-> NoTelemetry]
    /\ task = [r \in Reqs |-> "none"] /\ asked = {}
    /\ main = "ready" /\ stop = "no" /\ fate = "ok" /\ rep = 0
    /\ sampler \in {"none", "on"}
    /\ records = {} /\ written = FALSE

-----------------------------------------------------------------------------
(* The backend tasks: HttpStreamingBackend.send.                           *)

\* Mutant: a call that is under way is not cancelled.
CutNew(c) == IF c = "new" THEN "doomed" ELSE c

\* Task.cancel() on a backend task.
Cut(c) == CASE c = "new" -> "doomed" [] c = "open" -> "stopping" [] OTHER -> c

CallGoes(r, from, to) ==
    /\ call[r] = from /\ call' = [call EXCEPT ![r] = to]
    /\ UNCHANGED <<queueVars, task, asked, runVars>>

\* The first step makes a fresh entry; a doomed call makes none.
CallStarts(r) ==
    \/ /\ CallGoes(r, "new", "open")
       /\ telemetry' = [telemetry EXCEPT ![r] = [of |-> rep, spoke |-> FALSE]]
    \/ CallGoes(r, "doomed", "cut") /\ UNCHANGED telemetry

\* The first chunk with content.
CallSpeaks(r) ==
    /\ CallGoes(r, "open", "open") /\ ~telemetry[r].spoke
    /\ telemetry' = [telemetry EXCEPT ![r].spoke = TRUE]

\* The stream ends, with or without content, or fails.
CallEnds(r) ==
    \E end \in {"ok", "error", "mute"} : CallGoes(r, "open", end) /\ UNCHANGED telemetry

CallStops(r) == CallGoes(r, "stopping", "cut") /\ UNCHANGED telemetry

-----------------------------------------------------------------------------
(* The queue.                                                              *)

\* A request that gets a slot gets a backend task; c: the other backend tasks.
Calls(c) == call' = [r \in Reqs |-> IF phase'[r] = "serving" /\ phase[r] # "serving"
                                    THEN "new" ELSE c[r]]

\* The runner completes the request when its backend task has ended.
QueueFinishes(r) ==
    /\ ~CallLive(r) /\ Queue!Finish(r) /\ Calls(call)
    /\ answer'[r] = "SUCCESS" => call[r] = "ok"
    /\ answer'[r] = "ERROR" => call[r] \in {"error", "mute"}
    /\ UNCHANGED <<telemetry, task, asked, runVars>>

\* The watchdog, before and after the request is sent.
QueueTimesOut(r) ==
    /\ \/ Queue!GiveUp(r) /\ answer'[r] = "TIMEOUT" /\ UNCHANGED call
       \/ /\ phase[r] = "serving" /\ Cut(call[r]) # call[r]
          /\ call' = [call EXCEPT ![r] = Cut(@)] /\ UNCHANGED queueVars
    /\ UNCHANGED <<telemetry, task, asked, runVars>>

-----------------------------------------------------------------------------
(* The submission tasks: _submit_at_arrival.                               *)

TaskGoes(r, from, to) ==
    /\ task[r] = from /\ task' = [task EXCEPT ![r] = to]
    /\ UNCHANGED <<telemetry, runVars>>

\* The arrival has come: submit. A full queue answers at once.
Submit(r) ==
    /\ r \notin asked /\ UNCHANGED asked
    /\ \/ TaskGoes(r, "early", "inside") /\ Queue!Accept(r) /\ Calls(call)
       \/ /\ Cardinality(Queue!In("waiting")) >= Capacity
          /\ TaskGoes(r, "early", "returned") /\ UNCHANGED <<queueVars, call>>

\* The injected clock or sleep raises.
SubmissionFails(r) ==
    r \notin asked /\ TaskGoes(r, "early", "failed") /\ UNCHANGED <<queueVars, call, asked>>

SubmissionReturns(r) ==
    /\ r \notin asked /\ phase[r] = "done"
    /\ TaskGoes(r, "inside", "returned") /\ UNCHANGED <<queueVars, call, asked>>

\* Mutant: the cancelled task does not wait for the end of its request.
SubmissionCancelledEager(r) ==
    /\ r \in asked /\ asked' = asked \ {r}
    /\ \/ TaskGoes(r, "early", "cancelled") /\ UNCHANGED <<queueVars, call>>
       \/ /\ phase[r] = "waiting" /\ TaskGoes(r, "inside", "cancelled")
          /\ Queue!GiveUp(r) /\ answer'[r] = "CANCELLED" /\ UNCHANGED call
       \/ /\ phase[r] # "waiting" /\ TaskGoes(r, "inside", "cancelled")
          /\ call' = [call EXCEPT ![r] = Cut(@)] /\ UNCHANGED queueVars
       \/ TaskGoes(r, "drain", "cancelled") /\ UNCHANGED <<queueVars, call>>

\* CancelledError reaches the task: in its sleep, in submit, where a request in
\* flight is asked to stop and then awaited, or, for a second time, there.
SubmissionCancelled(r) ==
    /\ r \in asked /\ asked' = asked \ {r}
    /\ \/ TaskGoes(r, "early", "cancelled") /\ UNCHANGED <<queueVars, call>>
       \/ /\ phase[r] = "waiting" /\ TaskGoes(r, "inside", "cancelled")
          /\ Queue!GiveUp(r) /\ answer'[r] = "CANCELLED" /\ UNCHANGED call
       \/ /\ phase[r] = "serving" /\ TaskGoes(r, "inside", "drain")
          /\ call' = [call EXCEPT ![r] = Cut(@)] /\ UNCHANGED queueVars
       \/ /\ phase[r] = "done" /\ TaskGoes(r, "inside", "cancelled")
          /\ UNCHANGED <<queueVars, call>>
       \/ TaskGoes(r, "drain", "cancelled") /\ UNCHANGED <<queueVars, call>>

SubmissionDrained(r) ==
    /\ r \notin asked /\ phase[r] = "done"
    /\ TaskGoes(r, "drain", "cancelled") /\ UNCHANGED <<queueVars, call, asked>>

-----------------------------------------------------------------------------
(* The main task.                                                          *)

Unfinished == {r \in Reqs : ~TaskOver(r)}

\* A repetition: the same requests, a new queue, the same backend.
BeginRepetition ==
    /\ main = "ready" /\ rep < Repetitions
    /\ main' = "gather" /\ rep' = rep + 1
    /\ gate' = "open"
    /\ phase' = [r \in Reqs |-> "new"] /\ answer' = [r \in Reqs |-> "none"]
    /\ call' = [r \in Reqs |-> "none"]
    /\ task' = [r \in Reqs |-> "early"] /\ asked' = {}
    /\ UNCHANGED <<telemetry, stop, fate, sampler, records, written>>

\* aclose, up to its await: answer what waits, ask the rest to stop.
CloseQueue ==
    /\ main' = "close" /\ Queue!Shut
    /\ call' = [r \in Reqs |-> IF phase[r] = "serving" THEN Cut(call[r]) ELSE call[r]]

Status(r) == IF phase[r] = "new" THEN "REJECTED" ELSE answer[r]

\* Mutant: the telemetry of an undispatched request is read.
ReadAlways(r) == telemetry[r]

\* The telemetry that _join_repetition reads for the result of r.
Read(r) == IF call[r] = "none" THEN NoTelemetry ELSE telemetry[r]

\* What RequestRecord accepts: a success has a token, no token precedes the
\* dispatch, and the text of an error is not empty.
Joinable(r) ==
    /\ Status(r) = "SUCCESS" => Read(r).spoke
    /\ Read(r).spoke => Read(r).of = rep
    /\ ~(Status(r) \in {"ERROR", "CANCELLED"} /\ call[r] = "mute")

\* Mutants: the index of the next repetition; the survivors only.
JoinedLate == {<<rep + 1, r>> : r \in Reqs}
JoinedSurvivors == {<<rep, r>> : r \in {q \in Reqs : Status(q) = "SUCCESS"}}

Joined == {<<rep, r>> : r \in Reqs}

\* Every submission has returned: join, then close the queue. One request that
\* cannot be joined fails the run.
Join ==
    /\ main = "gather" /\ stop = "no" /\ \A r \in Reqs : task[r] = "returned"
    /\ \/ /\ \A r \in Reqs : Joinable(r)
          /\ records' = records \cup Joined /\ UNCHANGED fate
       \/ /\ \E r \in Reqs : ~Joinable(r)
          /\ fate' = "failed" /\ UNCHANGED records
    /\ CloseQueue
    /\ UNCHANGED <<telemetry, task, asked, stop, rep, sampler, written>>

\* The gather raises with the first submission that fails or is cancelled, or
\* when all are over: the handler cancels whatever is left, again.
GatherRaises ==
    /\ main = "gather" /\ main' = "teardown"
    /\ \/ (\E r \in Reqs : task[r] = "failed") /\ fate' = "failed"
       \/ /\ stop = "asked" /\ fate' = "cancelled"
          /\ (\E r \in Reqs : task[r] = "cancelled") \/ Unfinished = {}
    /\ asked' = asked \cup Unfinished
    /\ stop' = IF stop = "asked" THEN "thrown" ELSE stop
    /\ UNCHANGED <<queueVars, call, telemetry, task, rep, sampler, records, written>>

\* Mutant: a cancellation inside aclose is dropped.
FateKept == fate

\* A cancellation that was on its way has been thrown at the await just left.
FateNow == IF stop = "asked" THEN "cancelled" ELSE fate
Thrown == fate' = FateNow /\ stop' = IF stop = "asked" THEN "thrown" ELSE stop

\* Mutant: the handler does not await the tasks it has cancelled.
TornDownAtOnce ==
    /\ main = "teardown"
    /\ CloseQueue /\ Thrown
    /\ UNCHANGED <<telemetry, task, asked, rep, sampler, records, written>>

TornDown ==
    /\ main = "teardown" /\ Unfinished = {}
    /\ CloseQueue /\ Thrown
    /\ UNCHANGED <<telemetry, task, asked, rep, sampler, records, written>>

\* aclose has joined its runners. Then the next repetition begins, or the main
\* task leaves the sampler's context, which cancels and awaits the sampler.
Closed ==
    /\ main = "close" /\ Queue!In("serving") = {} /\ Thrown
    /\ \/ FateNow = "ok" /\ rep < Repetitions /\ main' = "ready" /\ UNCHANGED sampler
       \/ /\ FateNow # "ok" \/ rep = Repetitions
          /\ main' = "leave"
          /\ sampler' = IF sampler = "on" THEN "stopping" ELSE sampler
    /\ UNCHANGED <<queueVars, call, telemetry, task, asked, rep, records, written>>

SamplerEnds ==
    /\ sampler = "stopping" /\ sampler' = "over"
    /\ UNCHANGED <<queueVars, call, telemetry, task, asked, main, stop, fate, rep,
                   records, written>>

\* Only a body that was left normally goes on to write the results.
Leave ==
    /\ main = "leave" /\ sampler # "stopping"
    /\ main' = "done" /\ written' = (fate = "ok")
    /\ UNCHANGED <<queueVars, call, telemetry, task, asked, stop, fate, rep, sampler,
                   records>>

\* The main task is cancelled at an await (bound: once). A gather passes it on
\* to its tasks; the sampler's exit suppresses it.
CancelMain ==
    /\ stop = "no"
    /\ \/ /\ main \in {"gather", "teardown"} /\ stop' = "asked"
          /\ asked' = asked \cup Unfinished
       \/ main = "close" /\ stop' = "asked" /\ UNCHANGED asked
       \/ main = "leave" /\ sampler # "none" /\ stop' = "swallowed" /\ UNCHANGED asked
    /\ UNCHANGED <<queueVars, call, telemetry, task, main, fate, rep, sampler, records,
                   written>>

-----------------------------------------------------------------------------
CallStep(r) == CallStarts(r) \/ CallSpeaks(r) \/ CallEnds(r) \/ CallStops(r)
TaskStep(r) == Submit(r) \/ SubmissionReturns(r) \/ SubmissionCancelled(r)
               \/ SubmissionDrained(r)
MainStep == BeginRepetition \/ Join \/ GatherRaises \/ TornDown \/ Closed \/ Leave

BenchNext ==
    \/ MainStep \/ SamplerEnds \/ CancelMain
    \/ \E r \in Reqs : CallStep(r) \/ TaskStep(r) \/ SubmissionFails(r)
                       \/ QueueFinishes(r) \/ QueueTimesOut(r)

BenchSpec == BenchInit /\ [][BenchNext]_vars
-----------------------------------------------------------------------------
\* However a run ends, by success, a failed submission or a cancellation at any
\* await, it leaves no submission, backend call, queue or sampler behind.
NothingOutlivesRun ==
    main = "done" => /\ gate = "shut" /\ sampler \in {"none", "over"}
                     /\ \A r \in Reqs : /\ TaskOver(r) /\ ~CallLive(r)
                                        /\ phase[r] \in {"new", "done"}

\* Unless the run is cancelled, which cancels each submission twice, aclose
\* finds nothing in flight, even after a failed submission: the handler's single
\* cancellation of the others waits until their backend calls have ended.
DrainedBeforeClose ==
    main \in {"close", "leave"} /\ stop # "thrown" => Queue!In("serving") = {}

\* What a record tells of its backend call comes from that call: never from an
\* earlier repetition, although the telemetry is still there, unless the call
\* was cancelled before its first step; and then it is no success or error.
RecordsOwnTelemetry ==
    [][\A r \in Reqs : <<rep, r>> \in records' \ records =>
          \/ Read(r).of \in {0, rep}
          \/ Status(r) \in {"TIMEOUT", "CANCELLED"} /\ call[r] = "cut" /\ ~Read(r).spoke]_vars

\* What is written is complete: each request of each repetition has a
\* record, whatever became of the request.
RecordsComplete ==
    written => \A n \in 1 .. Repetitions, r \in Reqs :
                  <<n, r>> \in records

\* A cancelled run writes nothing, but for one case: a cancellation that
\* arrives while the sampler is being awaited is lost.
CancellationKept == written => stop \in {"no", "swallowed"}

\* What the notes say: requests that fail are recorded like the others. So
\* a run that nobody cancels, whose submissions all return and whose
\* successes all streamed a token, writes its records.
FailuresRecorded ==
    main = "done" /\ stop = "no" /\ (\A r \in Reqs : task[r] = "returned")
    /\ (\A r \in Reqs : call[r] = "ok" => Read(r).spoke)
    => written

\* What the loop, a queue whose deadlines pass and a cancelled backend owe the
\* run. A backend that was not cancelled owes nothing, nor does a submission
\* have to fail.
Owed == \/ MainStep \/ SamplerEnds
        \/ \E r \in Reqs : TaskStep(r) \/ CallStarts(r) \/ CallStops(r)
                           \/ QueueFinishes(r) \/ QueueTimesOut(r)

\* The guards of the steps owed: by the main task, and for a request.
MainOwes ==
    \/ main = "ready" /\ rep < Repetitions
    \/ main = "gather" /\ \/ \E r \in Reqs : task[r] = "failed"
                          \/ stop = "asked" /\ \E r \in Reqs : task[r] = "cancelled"
                          \/ stop = "asked" /\ Unfinished = {}
                          \/ stop = "no" /\ \A r \in Reqs : task[r] = "returned"
    \/ main = "teardown" /\ Unfinished = {}
    \/ main = "close" /\ Queue!In("serving") = {}
    \/ main = "leave"

SlotsHold == Cardinality(Queue!In("serving")) <= MaxInFlight

IsOwed(r) ==
    \/ task[r] = "early" /\ (r \in asked \/ (gate = "open" /\ phase[r] = "new" /\ SlotsHold))
    \/ task[r] \in {"inside", "drain"} /\ phase[r] = "done"
    \/ phase[r] = "waiting"
    \/ /\ phase[r] = "serving"
       /\ \/ call[r] \in {"new", "doomed", "stopping"} \/ Cut(call[r]) # call[r]
          \/ ~CallLive(r) /\ SlotsHold

SomethingOwed == main # "done" => MainOwes \/ \E r \in Reqs : IsOwed(r)

\* The run never waits for what nobody owes it, even if no backend call ever
\* ends by itself. As no step can be undone, every run ends.
NeverStuck == /\ SomethingOwed
              /\ MainOwes \/ (\E r \in Reqs : IsOwed(r)) => ENABLED Owed
=============================================================================
